------------------------ MODULE ProviderClientProofs ------------------------
(***************************************************************************)
(* Proofs about ProviderClient, for any number of threads and any policy.  *)
(***************************************************************************)
EXTENDS ProviderClient, FiniteSetTheorems, TLAPS

(***************************************************************************)
(* The variables of a call agree with where the call is: it is counted     *)
(* from nothing, and under way only while the policy allows an attempt.    *)
(***************************************************************************)
CallInv ==
  \A t \in Threads :
    /\ pc[t] # "idle" => request[t] \in Requests
    /\ pc[t] \in {"idle", "waiting"} => attempts[t] = 0 /\ ~error[t].retry
    /\ pc[t] = "posting" => attempts[t] <= MaxRetries
    /\ pc[t] = "raised" /\ error[t].retry => attempts[t] = MaxRetries + 1

TypeInv == ClientTypeOK /\ PermitsBalance /\ CallInv

USE ClientAssumption

LEMMA HoldersFinite == IsFiniteSet(Holders) /\ Cardinality(Holders) \in Nat
BY FS_Subset, FS_CardinalityType DEF Holders

\* A thread that begins to hold a permit, and one that ends to.
LEMMA HolderAdded ==
  ASSUME NEW t \in Threads, pc[t] # "posting", pc \in [Threads -> PCs],
         pc' = [pc EXCEPT ![t] = "posting"]
  PROVE  Cardinality(Holders') = Cardinality(Holders) + 1
<1>1. Holders' = Holders \cup {t} /\ t \notin Holders
  BY DEF Holders
<1>. QED  BY <1>1, HoldersFinite, FS_AddElement

LEMMA HolderRemoved ==
  ASSUME NEW t \in Threads, pc[t] = "posting", pc \in [Threads -> PCs],
         NEW to, to # "posting", pc' = [pc EXCEPT ![t] = to]
  PROVE  Cardinality(Holders') = Cardinality(Holders) - 1
<1>1. Holders' = Holders \ {t} /\ t \in Holders
  BY DEF Holders
<1>. QED  BY <1>1, HoldersFinite, FS_RemoveElement

LEMMA HoldersKept ==
  ASSUME NEW t \in Threads, pc[t] # "posting", pc \in [Threads -> PCs],
         NEW to, to # "posting", pc' = [pc EXCEPT ![t] = to]
  PROVE  Holders' = Holders
BY DEF Holders

\* What the fields of metadata and errors are.
LEMMA FieldTypes ==
  /\ NoFailure \in Errors /\ InvalidResponse \in Errors /\ Failures \subseteq Errors
  /\ ~NoFailure.retry /\ ~InvalidResponse.retry
  /\ NoMeta \in Meta
  /\ \A q \in Requests, n \in Attempts, e \in Errors :
       [request |-> q, attempts |-> n, category |-> e.category] \in Meta
<1>1. NoFailure \in Errors /\ InvalidResponse \in Errors /\ Failures \subseteq Errors
  BY DEF Errors
<1>2. ~NoFailure.retry /\ ~InvalidResponse.retry /\ NoFailure.category = "none"
  BY DEF NoFailure, InvalidResponse
<1>3. \A e \in Errors : e.category \in {x.category : x \in Errors}
  OBVIOUS
<1>4. 0 \in Attempts
  BY DEF Attempts
<1>5. "none" \in {x.category : x \in Errors}
  BY <1>1, <1>2
<1>6. NoMeta \in Meta
  BY <1>4, <1>5 DEF NoMeta, Meta
<1>7. \A q \in Requests, n \in Attempts, e \in Errors :
       [request |-> q, attempts |-> n, category |-> e.category] \in Meta
  BY <1>3 DEF Meta
<1>. QED  BY <1>1, <1>2, <1>6, <1>7

----------------------------------------------------------------------------
LEMMA TypeInit == Init => TypeInv
<1> SUFFICES ASSUME Init PROVE TypeInv
  OBVIOUS
<1>1. Holders = {}
  BY DEF Init, Holders
<1>2. Cardinality(Holders) = 0
  BY <1>1, FS_EmptySet
<1>3. ClientTypeOK
  BY FieldTypes DEF Init, ClientTypeOK, PCs, Attempts
<1>4. CallInv
  BY FieldTypes DEF Init, CallInv
<1>. QED  BY <1>2, <1>3, <1>4 DEF TypeInv, PermitsBalance, Init

LEMMA TypeStep == TypeInv /\ [Next]_vars => TypeInv'
<1> SUFFICES ASSUME TypeInv, [Next]_vars PROVE TypeInv'
  OBVIOUS
<1>a. ClientTypeOK /\ PermitsBalance /\ CallInv
  BY DEF TypeInv
<1>b. Cardinality(Holders) \in Nat
  BY HoldersFinite
\* A step of one thread that holds no permit before and after it.
<1>0. ASSUME NEW t \in Threads, NEW from \in PCs, NEW to \in PCs,
             Goto(t, from, to), from # "posting", to # "posting",
             UNCHANGED permits
      PROVE  PermitsBalance'
  <2>1. Holders' = Holders
    BY <1>0, <1>a, HoldersKept DEF Goto, ClientTypeOK
  <2>. QED  BY <1>0, <1>a, <2>1 DEF PermitsBalance
<1>1. ASSUME NEW t \in Threads, NEW q \in Requests, Call(t, q)
      PROVE  TypeInv'
  <2>1. PermitsBalance'
    BY <1>0, <1>1 DEF Call, PCs
  <2>2. ClientTypeOK'
    BY <1>1, <1>a DEF Call, Goto, ClientTypeOK, PCs, responseVars
  <2>3. CallInv'
    BY <1>1, <1>a DEF Call, Goto, ClientTypeOK, PCs, CallInv
  <2>. QED  BY <2>1, <2>2, <2>3 DEF TypeInv
<1>2. ASSUME NEW t \in Threads, Acquire(t)
      PROVE  TypeInv'
  <2>1. Cardinality(Holders') = Cardinality(Holders) + 1
    BY <1>2, <1>a, HolderAdded DEF Acquire, Goto, ClientTypeOK
  <2>2. PermitsBalance'
    BY <1>2, <1>a, <1>b, <2>1 DEF Acquire, PermitsBalance, ClientTypeOK
  <2>3. ClientTypeOK'
    BY <1>2, <1>a DEF Acquire, Goto, ClientTypeOK, PCs, responseVars, callVars
  <2>4. CallInv'
    BY <1>2, <1>a DEF Acquire, Goto, ClientTypeOK, PCs, CallInv, callVars
  <2>. QED  BY <2>2, <2>3, <2>4 DEF TypeInv
\* A step that ends the loop of attempts.
<1>3. ASSUME NEW t \in Threads, NEW to \in {"parsing", "raised"}, Release(t, to)
      PROVE  /\ PermitsBalance' /\ permits' \in 0..MaxConcurrency
             /\ attempts[t] + 1 \in Attempts
  <2>1. Cardinality(Holders') = Cardinality(Holders) - 1
    BY <1>3, <1>a, HolderRemoved DEF Release, Goto, ClientTypeOK
  <2>2. t \in Holders
    BY <1>3 DEF Release, Goto, Holders
  <2>3. Cardinality(Holders) # 0
    BY <2>2, HoldersFinite, FS_EmptySet
  <2>4. PermitsBalance' /\ permits' \in 0..MaxConcurrency
    BY <1>3, <1>a, <1>b, <2>1, <2>3 DEF Release, PermitsBalance, ClientTypeOK
  <2>5. attempts[t] + 1 \in Attempts
    BY <1>3, <1>a DEF Release, Goto, CallInv, ClientTypeOK, Attempts
  <2>. QED  BY <2>4, <2>5
<1>4. ASSUME NEW t \in Threads, PostSucceeds(t)
      PROVE  TypeInv'
  <2>1. PermitsBalance' /\ permits' \in 0..MaxConcurrency /\ attempts[t] + 1 \in Attempts
    BY <1>3, <1>4 DEF PostSucceeds
  <2>2. request[t] \in Requests
    BY <1>4, <1>a DEF PostSucceeds, Release, Goto, CallInv
  <2>3. meta' \in Meta
    BY <1>4, <2>1, <2>2, FieldTypes DEF PostSucceeds, Own, NoFailure
  <2>4. ClientTypeOK'
    BY <1>4, <1>a, <2>1, <2>3
       DEF PostSucceeds, Release, Goto, ClientTypeOK, PCs, responseVars
  <2>5. CallInv'
    BY <1>4, <1>a DEF PostSucceeds, Release, Goto, ClientTypeOK, PCs, CallInv
  <2>. QED  BY <2>1, <2>4, <2>5 DEF TypeInv
<1>5. ASSUME NEW t \in Threads, PostRetries(t)
      PROVE  TypeInv'
  <2>1. PICK e \in Failures : MayRetry(t, e) /\ error' = [error EXCEPT ![t] = e]
    BY <1>5 DEF PostRetries
  <2>2. attempts[t] + 1 \in Attempts /\ attempts[t] + 1 <= MaxRetries
    BY <1>a, <2>1 DEF MayRetry, ClientTypeOK, Attempts
  <2>3. e \in Errors
    BY FieldTypes
  <2>4. Holders' = Holders
    BY <1>5 DEF PostRetries, Holders
  <2>5. PermitsBalance'
    BY <1>5, <1>a, <2>4 DEF PostRetries, PermitsBalance
  <2>6. ClientTypeOK'
    BY <1>5, <1>a, <2>1, <2>2, <2>3 DEF PostRetries, ClientTypeOK, responseVars
  <2>7. CallInv'
    BY <1>5, <1>a, <2>1, <2>2 DEF PostRetries, ClientTypeOK, CallInv
  <2>. QED  BY <2>5, <2>6, <2>7 DEF TypeInv
<1>6. ASSUME NEW t \in Threads, PostGivesUp(t)
      PROVE  TypeInv'
  <2>1. PICK e \in Failures : /\ ~MayRetry(t, e) /\ error' = [error EXCEPT ![t] = e]
                              /\ meta' = Own(t, e.category) /\ writer' = t
    BY <1>6 DEF PostGivesUp
  <2>2. PermitsBalance' /\ permits' \in 0..MaxConcurrency /\ attempts[t] + 1 \in Attempts
    BY <1>3, <1>6 DEF PostGivesUp
  <2>3. request[t] \in Requests
    BY <1>6, <1>a DEF PostGivesUp, Release, Goto, CallInv
  <2>4. e \in Errors
    BY FieldTypes
  <2>5. meta' \in Meta
    BY <2>1, <2>2, <2>3, <2>4, FieldTypes DEF Own
  <2>6. ClientTypeOK'
    BY <1>6, <1>a, <2>1, <2>2, <2>4, <2>5
       DEF PostGivesUp, Release, Goto, ClientTypeOK, PCs, responseVars
  <2>7. e.retry => attempts[t] + 1 = MaxRetries + 1
    BY <1>6, <1>a, <2>1 DEF MayRetry, PostGivesUp, Release, Goto, CallInv, ClientTypeOK, Attempts
  <2>8. CallInv'
    BY <1>6, <1>a, <2>1, <2>7 DEF PostGivesUp, Release, Goto, ClientTypeOK, PCs, CallInv
  <2>. QED  BY <2>2, <2>6, <2>8 DEF TypeInv
<1>7. ASSUME NEW t \in Threads, PostUndecodable(t)
      PROVE  TypeInv'
  <2>1. PermitsBalance' /\ permits' \in 0..MaxConcurrency /\ attempts[t] + 1 \in Attempts
    BY <1>3, <1>7 DEF PostUndecodable
  <2>2. ClientTypeOK'
    BY <1>7, <1>a, <2>1, FieldTypes
       DEF PostUndecodable, Release, Goto, ClientTypeOK, PCs, responseVars
  <2>3. CallInv'
    BY <1>7, <1>a, FieldTypes
       DEF PostUndecodable, Release, Goto, ClientTypeOK, PCs, CallInv
  <2>. QED  BY <2>1, <2>2, <2>3 DEF TypeInv
<1>8. ASSUME NEW t \in Threads, Malformed(t)
      PROVE  TypeInv'
  <2>1. PermitsBalance'
    BY <1>0, <1>8 DEF Malformed, PCs
  <2>2. ClientTypeOK'
    BY <1>8, <1>a, FieldTypes DEF Malformed, Goto, ClientTypeOK, PCs, responseVars
  <2>3. CallInv'
    BY <1>8, <1>a, FieldTypes DEF Malformed, Goto, ClientTypeOK, PCs, CallInv
  <2>. QED  BY <2>1, <2>2, <2>3 DEF TypeInv
<1>9. ASSUME NEW t \in Threads, ReadMeta(t)
      PROVE  TypeInv'
  <2>1. PermitsBalance'
    BY <1>0, <1>9 DEF ReadMeta, PCs
  <2>2. ClientTypeOK'
    BY <1>9, <1>a DEF ReadMeta, Goto, ClientTypeOK, PCs, callVars
  <2>3. CallInv'
    BY <1>9, <1>a DEF ReadMeta, Goto, ClientTypeOK, PCs, CallInv, callVars
  <2>. QED  BY <2>1, <2>2, <2>3 DEF TypeInv
<1>10. ASSUME NEW t \in Threads, ReadId(t)
      PROVE  TypeInv'
  <2>1. PermitsBalance'
    BY <1>0, <1>10 DEF ReadId, PCs
  <2>2. ClientTypeOK'
    BY <1>10, <1>a DEF ReadId, Goto, ClientTypeOK, PCs, callVars, Meta
  <2>3. CallInv'
    BY <1>10, <1>a DEF ReadId, Goto, ClientTypeOK, PCs, CallInv, callVars
  <2>. QED  BY <2>1, <2>2, <2>3 DEF TypeInv
<1>11. ASSUME NEW t \in Threads, Handle(t)
      PROVE  TypeInv'
  <2>1. PermitsBalance'
    BY <1>0, <1>11 DEF Handle, PCs
  <2>2. 0 \in Attempts
    BY DEF Attempts
  <2>3. ClientTypeOK'
    BY <1>11, <1>a, <2>2, FieldTypes DEF Handle, Goto, ClientTypeOK, PCs
  <2>4. CallInv'
    BY <1>11, <1>a, FieldTypes DEF Handle, Goto, ClientTypeOK, PCs, CallInv
  <2>. QED  BY <2>1, <2>3, <2>4 DEF TypeInv
<1>12. ASSUME UNCHANGED vars
      PROVE  TypeInv'
  <2>1. PermitsBalance'
    BY <1>12, <1>a DEF vars, PermitsBalance, Holders
  <2>. QED  BY <1>12, <1>a, <2>1
            DEF vars, callVars, responseVars, TypeInv, ClientTypeOK, CallInv
<1>. QED  BY <1>1, <1>2, <1>4, <1>5, <1>6, <1>7, <1>8, <1>9, <1>10, <1>11, <1>12 DEF Next, Post

LEMMA TypeInvariant == Spec => []TypeInv
<1>. QED  BY TypeInit, TypeStep, PTL DEF Spec

\* Every variable of the client keeps its type.
THEOREM ClientTypeCorrect == Spec => []ClientTypeOK
<1>1. TypeInv => ClientTypeOK
  BY DEF TypeInv
<1>. QED  BY <1>1, TypeInvariant, PTL

\* No permit is lost or made up, so no more than max_concurrency requests are
\* ever under way.
THEOREM PermitsBalanceHolds == Spec => []PermitsBalance
<1>1. TypeInv => PermitsBalance
  BY DEF TypeInv
<1>. QED  BY <1>1, TypeInvariant, PTL

\* A call makes at most max_retries retries, and all of them before it gives
\* up on a failure that may be retried.
THEOREM RetriesUsedUpHolds == Spec => []RetriesUsedUp
<1>1. TypeInv => RetriesUsedUp
  BY DEF TypeInv, ClientTypeOK, CallInv, RetriesUsedUp, Attempts
<1>. QED  BY <1>1, TypeInvariant, PTL

----------------------------------------------------------------------------
(***************************************************************************)
(* Correlation.  While a thread is the last one that set the metadata, it  *)
(* is about this thread's request, and so is what it has read of it.       *)
(***************************************************************************)
OwnMeta(t) == [request |-> request[t], attempts |-> attempts[t], category |-> "none"]

Correlated(t) ==
  /\ pc[t] \in {"parsing", "reading", "returned"} => meta = OwnMeta(t)
  /\ pc[t] \in {"reading", "returned"} => cache[t] = meta
  /\ pc[t] = "returned" => ref[t] = meta.request

CorrelationInv == \A t \in Threads : writer = t => Correlated(t)

LEMMA CorrelationInit == Init => CorrelationInv
BY DEF Init, CorrelationInv

LEMMA CorrelationStep == TypeInv /\ CorrelationInv /\ [Next]_vars => CorrelationInv'
<1> SUFFICES ASSUME TypeInv, CorrelationInv, [Next]_vars,
                    NEW u \in Threads, writer' = u
             PROVE  Correlated(u)'
  BY DEF CorrelationInv
<1>a. ClientTypeOK
  BY DEF TypeInv
<1>b. writer = u => Correlated(u)
  BY DEF CorrelationInv
\* A step of t that only moves on, to a place where no response is built.
<1>0. ASSUME NEW t \in Threads, UNCHANGED <<meta, writer>>,
             pc' = [pc EXCEPT ![t] = pc'[t]],
             pc'[t] \notin {"parsing", "reading", "returned"},
             \A v \in Threads : v # t =>
               /\ request'[v] = request[v] /\ attempts'[v] = attempts[v]
               /\ cache'[v] = cache[v] /\ ref'[v] = ref[v]
      PROVE  Correlated(u)'
  <2>1. CASE u = t
    BY <1>0, <2>1 DEF Correlated
  <2>2. CASE u # t
    <3>1. pc'[u] = pc[u]
      BY <1>0, <1>a, <2>2 DEF ClientTypeOK
    <3>. QED  BY <1>0, <1>b, <2>2, <3>1 DEF Correlated, OwnMeta
  <2>. QED  BY <2>1, <2>2
<1>1. ASSUME NEW t \in Threads, NEW q \in Requests, Call(t, q)
      PROVE  Correlated(u)'
  BY <1>0, <1>1, <1>a DEF Call, Goto, ClientTypeOK, responseVars
<1>2. ASSUME NEW t \in Threads, Acquire(t)
      PROVE  Correlated(u)'
  BY <1>0, <1>2, <1>a DEF Acquire, Goto, ClientTypeOK, responseVars, callVars
<1>3. ASSUME NEW t \in Threads, PostSucceeds(t)
      PROVE  Correlated(u)'
  <2>1. u = t
    BY <1>3 DEF PostSucceeds
  <2>2. pc'[t] = "parsing" /\ meta' = OwnMeta(t)'
    BY <1>3, <1>a DEF PostSucceeds, Release, Goto, Own, OwnMeta, ClientTypeOK
  <2>. QED  BY <2>1, <2>2 DEF Correlated
<1>4. ASSUME NEW t \in Threads, PostRetries(t)
      PROVE  Correlated(u)'
  BY <1>0, <1>4, <1>a DEF PostRetries, ClientTypeOK, responseVars
<1>5. ASSUME NEW t \in Threads, PostGivesUp(t)
      PROVE  Correlated(u)'
  <2>1. u = t /\ pc'[t] = "raised"
    BY <1>5, <1>a DEF PostGivesUp, Release, Goto, ClientTypeOK
  <2>. QED  BY <2>1 DEF Correlated
<1>6. ASSUME NEW t \in Threads, PostUndecodable(t)
      PROVE  Correlated(u)'
  BY <1>0, <1>6, <1>a DEF PostUndecodable, Release, Goto, ClientTypeOK, responseVars
<1>7. ASSUME NEW t \in Threads, Malformed(t)
      PROVE  Correlated(u)'
  BY <1>0, <1>7, <1>a DEF Malformed, Goto, ClientTypeOK, responseVars
<1>8. ASSUME NEW t \in Threads, ReadMeta(t)
      PROVE  Correlated(u)'
  <2>1. UNCHANGED <<request, attempts, meta, ref, writer>>
    BY <1>8 DEF ReadMeta, callVars
  <2>2. CASE u = t
    BY <1>8, <1>a, <1>b, <2>1, <2>2 DEF ReadMeta, Goto, ClientTypeOK, Correlated, OwnMeta
  <2>3. CASE u # t
    BY <1>8, <1>a, <1>b, <2>1, <2>3 DEF ReadMeta, Goto, ClientTypeOK, Correlated, OwnMeta
  <2>. QED  BY <2>2, <2>3
<1>9. ASSUME NEW t \in Threads, ReadId(t)
      PROVE  Correlated(u)'
  <2>1. UNCHANGED <<request, attempts, meta, cache, writer>>
    BY <1>9 DEF ReadId, callVars
  <2>2. CASE u = t
    BY <1>9, <1>a, <1>b, <2>1, <2>2 DEF ReadId, Goto, ClientTypeOK, Correlated, OwnMeta
  <2>3. CASE u # t
    BY <1>9, <1>a, <1>b, <2>1, <2>3 DEF ReadId, Goto, ClientTypeOK, Correlated, OwnMeta
  <2>. QED  BY <2>2, <2>3
<1>10. ASSUME NEW t \in Threads, Handle(t)
       PROVE  Correlated(u)'
  BY <1>0, <1>10, <1>a DEF Handle, Goto, ClientTypeOK
<1>11. ASSUME UNCHANGED vars
       PROVE  Correlated(u)'
  BY <1>11, <1>b DEF vars, callVars, responseVars, Correlated, OwnMeta
<1>. QED  BY <1>1, <1>2, <1>3, <1>4, <1>5, <1>6, <1>7, <1>8, <1>9, <1>10, <1>11 DEF Next, Post

\* A response that no other call has overtaken is about its own request.
THEOREM ResponseCorrelatedHolds == Spec => []ResponseCorrelated
<1>1. CorrelationInv => ResponseCorrelated
  BY DEF CorrelationInv, Correlated, OwnMeta, ResponseCorrelated
<1>. QED  BY <1>1, TypeInit, TypeStep, CorrelationInit, CorrelationStep, PTL DEF Spec

\* A response is built only after some request has set the metadata.
WriterInv == \A t \in Threads : pc[t] \in {"parsing", "reading", "returned"} => writer \in Threads

LEMMA WriterStep == TypeInv /\ WriterInv /\ [Next]_vars => WriterInv'
<1> SUFFICES ASSUME TypeInv, WriterInv, [Next]_vars PROVE WriterInv'
  OBVIOUS
<1>a. ClientTypeOK
  BY DEF TypeInv
<1>1. ASSUME NEW t \in Threads, PostSucceeds(t) \/ PostGivesUp(t)
      PROVE  WriterInv'
  BY <1>1 DEF PostSucceeds, PostGivesUp, WriterInv
<1>2. ASSUME NEW t \in Threads, Malformed(t) \/ ReadMeta(t) \/ ReadId(t)
      PROVE  WriterInv'
  BY <1>2, <1>a DEF Malformed, ReadMeta, ReadId, Goto, ClientTypeOK, WriterInv
<1>3. ASSUME NEW t \in Threads,
             (\E q \in Requests : Call(t, q)) \/ Acquire(t) \/ PostRetries(t)
               \/ PostUndecodable(t) \/ Handle(t)
      PROVE  WriterInv'
  BY <1>3, <1>a DEF Call, Acquire, PostRetries, PostUndecodable, Release, Handle, Goto,
                    ClientTypeOK, WriterInv
<1>4. ASSUME UNCHANGED vars
      PROVE  WriterInv'
  BY <1>4 DEF vars, WriterInv
<1>. QED  BY <1>1, <1>2, <1>3, <1>4 DEF Next, Post

\* On a client that one thread uses, as a run of the agent does, every
\* response is about its own request: the two reads of last_request_meta after
\* the permit is given back are harmful only where threads share a client.
THEOREM SoleCallerCorrelated ==
  ASSUME NEW only, Threads = {only}
  PROVE  Spec => [](pc[only] = "returned" => ref[only] = request[only] /\ cache[only] = OwnMeta(only))
<1>1. Init => WriterInv
  BY DEF Init, WriterInv
<1>2. WriterInv /\ ResponseCorrelated =>
        (pc[only] = "returned" => ref[only] = request[only] /\ cache[only] = OwnMeta(only))
  BY DEF WriterInv, ResponseCorrelated, OwnMeta
<1>. QED
  BY <1>1, <1>2, WriterStep, TypeInvariant, ResponseCorrelatedHolds, PTL DEF Spec

----------------------------------------------------------------------------
(***************************************************************************)
(* The length of a request: what is left of it in attempts.                *)
(***************************************************************************)
PostsLeft(t) == IF pc[t] = "posting" THEN MaxRetries + 1 - attempts[t] ELSE 0

PostsBounded ==
  \A t \in Threads :
    /\ PostsLeft(t) \in 0..(MaxRetries + 1)
    /\ PostsLeft(t) = 0 <=> pc[t] # "posting"

\* An attempt is one of those the policy grants, and no other thread adds to
\* them or takes the permit back.
PostsCount ==
  \A t \in Threads : pc[t] = "posting" =>
    /\ Post(t) => PostsLeft(t)' < PostsLeft(t)
    /\ ~Post(t) => PostsLeft(t)' = PostsLeft(t)

\* A request that holds a permit gives it back after max_retries + 1 attempts
\* of its own at the latest, whatever the others do: the safety half of
\* PermitsReturn, which then asks only that an attempt ends.
THEOREM RequestsAreBounded == Spec => []PostsBounded /\ [][PostsCount]_vars
<1>1. TypeInv => PostsBounded
  BY DEF TypeInv, ClientTypeOK, CallInv, Attempts, PostsBounded, PostsLeft
<1>2. TypeInv /\ [Next]_vars => [PostsCount]_vars
  <2> SUFFICES ASSUME TypeInv, Next, NEW t \in Threads, pc[t] = "posting"
               PROVE  /\ Post(t) => PostsLeft(t)' < PostsLeft(t)
                      /\ ~Post(t) => PostsLeft(t)' = PostsLeft(t)
    BY DEF PostsCount
  <2>a. /\ pc \in [Threads -> PCs] /\ attempts \in [Threads -> Attempts]
        /\ attempts[t] \in Nat /\ attempts[t] <= MaxRetries
    BY DEF TypeInv, ClientTypeOK, CallInv, Attempts
  <2>1. CASE PostRetries(t)
    <3>1. pc'[t] = "posting" /\ attempts'[t] = attempts[t] + 1
      BY <2>a, <2>1 DEF PostRetries
    <3>. QED  BY <2>a, <2>1, <3>1 DEF PostsLeft, Post
  <2>2. CASE PostSucceeds(t) \/ PostGivesUp(t) \/ PostUndecodable(t)
    <3>1. pc'[t] # "posting"
      BY <2>a, <2>2 DEF PostSucceeds, PostGivesUp, PostUndecodable, Release, Goto
    <3>. QED  BY <2>a, <2>2, <3>1 DEF PostsLeft, Post
  <2>3. CASE ~Post(t)
    <3>1. PICK u \in Threads :
            (\E q \in Requests : Call(u, q)) \/ Acquire(u) \/ Post(u)
              \/ Malformed(u) \/ ReadMeta(u) \/ ReadId(u) \/ Handle(u)
      BY DEF Next
    <3>2. u # t
      BY <2>3, <3>1 DEF Call, Acquire, Malformed, ReadMeta, ReadId, Handle, Goto
    <3>3. pc'[t] = pc[t] /\ attempts'[t] = attempts[t]
      BY <2>a, <3>1, <3>2 DEF Call, Acquire, Malformed, ReadMeta, ReadId, Handle, Goto, Post,
           PostSucceeds, PostRetries, PostGivesUp, PostUndecodable, Release, callVars
    <3>. QED  BY <2>3, <3>3 DEF PostsLeft
  <2>. QED  BY <2>1, <2>2, <2>3 DEF Post
<1>. QED  BY <1>1, <1>2, TypeInvariant, PTL DEF Spec
=============================================================================
