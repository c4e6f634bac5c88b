--------------------------- MODULE ProviderClient ---------------------------
(***************************************************************************)
(* One HTTP model client and the threads that call complete() on it        *)
(* (src/tifa/providers.py): a semaphore bounds the requests under way, a   *)
(* request is retried under the policy, and what is known of the last      *)
(* request is left in one attribute of the client, last_request_meta,      *)
(* from which responses and failure reports take their request id.         *)
(*                                                                         *)
(* Data abstraction.  A payload is its request id (the digest of provider, *)
(* model, path and payload): equal payloads have equal ids.  Time is left  *)
(* out; a thread keeps its permit while it sleeps between two attempts.    *)
(***************************************************************************)
EXTENDS Integers, FiniteSets

CONSTANTS
  Threads,         \* threads that share the client
  Requests,        \* request ids
  MaxConcurrency,  \* retry_policy.max_concurrency
  MaxRetries,      \* retry_policy.max_retries
  Transient,       \* categories of failures that may be retried
  Fatal,           \* categories of failures that may not
  None

ASSUME ClientAssumption ==
  /\ IsFiniteSet(Threads)
  /\ MaxConcurrency \in Nat \ {0}
  /\ MaxRetries \in Nat
  /\ None \notin Requests \cup Threads

VARIABLES
  pc,        \* per thread: where its call is
  request,   \* per thread: the id of its request, None between calls
  attempts,  \* per thread: attempts of its call so far
  error,     \* per thread: how the last attempt failed
  permits,   \* the semaphore's value
  meta,      \* last_request_meta
  cache,     \* per thread: the metadata its response carries
  ref,       \* per thread: raw_response_ref of its response
  writer     \* history: the thread that set last_request_meta

callVars == <<request, attempts, error>>
responseVars == <<cache, ref>>
vars == <<pc, callVars, permits, meta, responseVars, writer>>

PCs == {"idle", "waiting", "posting", "parsing", "reading", "returned", "raised"}

\* How the code classifies a failed attempt: timeout, rate_limit, and as
\* transport a status of 5xx or a broken connection, may be retried; auth,
\* provider_schema, and as transport too any other status, may not.
Failures ==
  [category: Transient, retry: {TRUE}] \cup [category: Fatal, retry: {FALSE}]
NoFailure == [category |-> "none", retry |-> FALSE]
InvalidResponse == [category |-> "invalid_response", retry |-> FALSE]
Errors == Failures \cup {NoFailure, InvalidResponse}

Attempts == 0..(MaxRetries + 1)
NoMeta == [request |-> None, attempts |-> 0, category |-> "none"]
Meta ==
  [request: Requests \cup {None}, attempts: Attempts, category: {e.category : e \in Errors}]

Init ==
  /\ pc = [t \in Threads |-> "idle"]
  /\ request = [t \in Threads |-> None]
  /\ attempts = [t \in Threads |-> 0]
  /\ error = [t \in Threads |-> NoFailure]
  /\ permits = MaxConcurrency
  /\ meta = NoMeta
  /\ cache = [t \in Threads |-> NoMeta]
  /\ ref = [t \in Threads |-> None]
  /\ writer = None

----------------------------------------------------------------------------
Goto(t, from, to) == pc[t] = from /\ pc' = [pc EXCEPT ![t] = to]

\* complete() is called with some payload.
Call(t, q) ==
  /\ Goto(t, "idle", "waiting")
  /\ request' = [request EXCEPT ![t] = q]
  /\ UNCHANGED <<attempts, error, permits, meta, responseVars, writer>>

\* Slip: the semaphore is not waited for.
MutAcquire(t) ==
  /\ Goto(t, "waiting", "posting")
  /\ permits' = permits - 1
  /\ UNCHANGED <<callVars, meta, responseVars, writer>>
\* with self._semaphore
Acquire(t) ==
  /\ permits > 0
  /\ Goto(t, "waiting", "posting")
  /\ permits' = permits - 1
  /\ UNCHANGED <<callVars, meta, responseVars, writer>>

\* The metadata of the attempt under way.
Own(t, category) ==
  [request |-> request[t], attempts |-> attempts[t] + 1, category |-> category]

\* What every attempt that ends the loop does: the with block is left.
Release(t, to) ==
  /\ Goto(t, "posting", to)
  /\ attempts' = [attempts EXCEPT ![t] = @ + 1]
  /\ permits' = permits + 1
  /\ UNCHANGED <<request, responseVars>>

\* Slip: the metadata of a success is forgotten.
MutPostSucceeds(t) ==
  /\ Release(t, "parsing")
  /\ UNCHANGED <<error, meta>>
  /\ writer' = t
PostSucceeds(t) ==
  /\ Release(t, "parsing")
  /\ meta' = Own(t, "none") /\ writer' = t
  /\ UNCHANGED error

\* Slip: one attempt too few.
MutMayRetry(t, e) == e.retry /\ attempts[t] + 1 < MaxRetries
\* Not (not retryable or attempts > max_retries), attempts already counted.
MayRetry(t, e) == e.retry /\ attempts[t] + 1 <= MaxRetries

\* Slip: the attempt is not counted.
MutPostRetries(t) ==
  /\ pc[t] = "posting"
  /\ \E e \in Failures :
       /\ MayRetry(t, e)
       /\ error' = [error EXCEPT ![t] = e]
  /\ UNCHANGED <<pc, attempts, request, permits, meta, responseVars, writer>>
\* The attempt fails and another one follows.
PostRetries(t) ==
  /\ pc[t] = "posting"
  /\ \E e \in Failures :
       /\ MayRetry(t, e)
       /\ error' = [error EXCEPT ![t] = e]
  /\ attempts' = [attempts EXCEPT ![t] = @ + 1]
  /\ UNCHANGED <<pc, request, permits, meta, responseVars, writer>>

\* Slip: the permit is kept.
MutPostGivesUp(t) ==
  /\ Goto(t, "posting", "raised")
  /\ attempts' = [attempts EXCEPT ![t] = @ + 1]
  /\ \E e \in Failures :
       /\ ~MayRetry(t, e)
       /\ error' = [error EXCEPT ![t] = e]
       /\ meta' = Own(t, e.category) /\ writer' = t
  /\ UNCHANGED <<permits, request, responseVars>>
\* The attempt fails for good: ProviderError.
PostGivesUp(t) ==
  /\ Release(t, "raised")
  /\ \E e \in Failures :
       /\ ~MayRetry(t, e)
       /\ error' = [error EXCEPT ![t] = e]
       /\ meta' = Own(t, e.category) /\ writer' = t

\* The body is not JSON: ProviderError at once, the metadata stays.
PostUndecodable(t) ==
  /\ Release(t, "raised")
  /\ error' = [error EXCEPT ![t] = InvalidResponse]
  /\ UNCHANGED <<meta, writer>>

\* The JSON does not have the provider's shape.
Malformed(t) ==
  /\ Goto(t, "parsing", "raised")
  /\ error' = [error EXCEPT ![t] = InvalidResponse]
  /\ UNCHANGED <<request, attempts, permits, meta, responseVars, writer>>

\* The response is built: last_request_meta is read twice, after the permit
\* was given back.
ReadMeta(t) ==
  /\ Goto(t, "parsing", "reading")
  /\ cache' = [cache EXCEPT ![t] = meta]
  /\ UNCHANGED <<callVars, permits, meta, ref, writer>>

ReadId(t) ==
  /\ Goto(t, "reading", "returned")
  /\ ref' = [ref EXCEPT ![t] = meta.request]
  /\ UNCHANGED <<callVars, permits, meta, cache, writer>>

\* The caller takes the response, or handles the error; the variables of the
\* call are gone.
Handle(t) ==
  /\ Goto(t, "returned", "idle") \/ Goto(t, "raised", "idle")
  /\ request' = [request EXCEPT ![t] = None]
  /\ attempts' = [attempts EXCEPT ![t] = 0]
  /\ error' = [error EXCEPT ![t] = NoFailure]
  /\ cache' = [cache EXCEPT ![t] = NoMeta]
  /\ ref' = [ref EXCEPT ![t] = None]
  /\ UNCHANGED <<permits, meta, writer>>

Post(t) == PostSucceeds(t) \/ PostRetries(t) \/ PostGivesUp(t) \/ PostUndecodable(t)

Next ==
  \E t \in Threads :
    \/ \E q \in Requests : Call(t, q)
    \/ Acquire(t) \/ Post(t)
    \/ Malformed(t) \/ ReadMeta(t) \/ ReadId(t) \/ Handle(t)

\* An HTTP request ends, by its time-out at the latest, and so does a sleep.
Fairness == \A t \in Threads : WF_vars(Post(t))

Spec == Init /\ [][Next]_vars /\ Fairness

----------------------------------------------------------------------------
(***************************************************************************)
(* Properties.                                                             *)
(***************************************************************************)
ClientTypeOK ==
  /\ pc \in [Threads -> PCs]
  /\ request \in [Threads -> Requests \cup {None}]
  /\ attempts \in [Threads -> Attempts]
  /\ error \in [Threads -> Errors]
  /\ permits \in 0..MaxConcurrency
  /\ meta \in Meta
  /\ cache \in [Threads -> Meta]
  /\ ref \in [Threads -> Requests \cup {None}]
  /\ writer \in Threads \cup {None}

Holders == {t \in Threads : pc[t] = "posting"}

\* However calls end - with a response, an error after retries, or a body
\* that is no JSON - no permit is lost and none is made up: those in the
\* semaphore and those of the requests under way are max_concurrency
\* (providers.py:92, 100-131).
PermitsBalance == permits + Cardinality(Holders) = MaxConcurrency

\* A call gives up on a failure that may be retried only after max_retries
\* retries, and never makes more of them (providers.py:126).
RetriesUsedUp ==
  \A t \in Threads :
    /\ attempts[t] <= MaxRetries + 1
    /\ pc[t] = "raised" /\ error[t].retry => attempts[t] = MaxRetries + 1

\* A response that no other call has overtaken carries the id of its own
\* request and the number of its own attempts, in both places
\* (providers.py:111, 147; tests/test_providers.py:78).
ResponseCorrelated ==
  \A t \in Threads : pc[t] = "returned" /\ writer = t =>
    /\ ref[t] = request[t]
    /\ cache[t] = [request |-> request[t], attempts |-> attempts[t], category |-> "none"]

\* A request under way gives its permit back.
PermitsReturn == \A t \in Threads : pc[t] = "posting" ~> pc[t] # "posting"
=============================================================================
