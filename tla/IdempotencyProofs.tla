--------------------------- MODULE IdempotencyProofs ---------------------------
(***************************************************************************)
(* Proofs about Idempotency, for any number of calls, keys and              *)
(* interruptions.  The invariants are not inductive by themselves: that two *)
(* writes of one key cannot both be in effect depends on who holds the lock *)
(* while a result is not stored yet, which IInv spells out.                 *)
(***************************************************************************)
EXTENDS Idempotency, TLAPS

\* From the acquisition to the release a call owns the lock of its key, and an
\* open transaction keeps it although its worker may be gone.  A call that owns
\* the lock outside this stretch has ended in an error.
LockInv ==
    /\ \A k \in Keys : lock[k] # NoRequest => KeyOf[lock[k]] = k
    /\ \A r \in Requests :
        pc[r] \in {"recheck", "write", "store", "release"} \/ db[r] = "open"
            => lock[KeyOf[r]] = r
    /\ \A r \in Requests : lock[KeyOf[r]] = r =>
        pc[r] \in {"recheck", "write", "store", "release", "error"}

\* How far the transaction of a call can be at each place of the call.
DbInv == \A r \in Requests :
    /\ pc[r] \in {"idle", "lookup", "acquire", "relookup", "recheck", "in_progress"}
        => db[r] = "none"
    /\ pc[r] = "store" => db[r] = "committed"
    /\ pc[r] = "release" => db[r] # "open"
    /\ pc[r] = "release" /\ answer[r] = NoRequest => db[r] = "rolledback"
    /\ pc[r] = "refused" => db[r] = "rolledback"

\* A call that writes has found no result and stores the first one itself; its
\* result cannot lapse before it was stored.
UnstoredInv == \A r \in Requests :
    /\ pc[r] \in {"write", "store"} => Cached(r) = NoRequest /\ r \notin lapsed
    /\ db[r] \in {"open", "committed"} /\ lock[KeyOf[r]] = r
        => Cached(r) \in {NoRequest, r}
    /\ pc[r] = "release" /\ r \in Committed \ lapsed => Cached(r) = r

\* A stored result is that of a write in effect, and a write in effect is
\* either stored or still protected by its lock.
CacheInv ==
    /\ \A k \in Keys : cache[k] # NoRequest =>
        KeyOf[cache[k]] = k /\ cache[k] \in Committed \ lapsed
    /\ \A r \in Committed \ lapsed : Cached(r) = r \/ lock[KeyOf[r]] = r
    /\ lapsed \subseteq Committed

AnswerInv == \A r \in Requests :
    /\ answer[r] # NoRequest => answer[r] \in Committed /\ KeyOf[answer[r]] = KeyOf[r]
    /\ pc[r] = "ok" => answer[r] # NoRequest
    /\ pc[r] \in {"idle", "lookup", "acquire", "relookup", "recheck", "write"}
        => answer[r] = NoRequest
    /\ pc[r] = "store" => answer[r] = r

IInv == TypeOK /\ LockInv /\ DbInv /\ UnstoredInv /\ CacheInv /\ AnswerInv

LEMMA InitIInv == Init => IInv
  BY KeyAssumption, NoRequestAssumption
  DEF Init, IInv, TypeOK, LockInv, DbInv, UnstoredInv, CacheInv, AnswerInv, Owner,
      Running, Done, Cached, Committed

-----------------------------------------------------------------------------
(* IInv is inductive *)

\* Starting the callback: whoever holds the lock and finds no result knows that
\* no write of the key is in effect, because one would be stored or locked.
LEMMA RecheckMissIInv ==
    ASSUME IInv, NEW r \in Requests, RecheckMiss(r) PROVE IInv'
  <1> USE KeyAssumption, NoRequestAssumption
      DEF IInv, TypeOK, RecheckMiss, Goto, Running, Done, Owner, Cached, Committed
  <1>1. lock[KeyOf[r]] = r /\ db[r] = "none" /\ r \notin lapsed
    BY DEF LockInv, DbInv, CacheInv
  <1>2. TypeOK'
    OBVIOUS
  <1>3. LockInv' /\ DbInv'
    BY <1>1 DEF LockInv, DbInv
  <1>4. UnstoredInv'
    BY <1>1 DEF UnstoredInv
  <1>5. CacheInv'
    BY <1>1 DEF CacheInv
  <1>6. AnswerInv'
    BY <1>1 DEF AnswerInv
  <1> QED BY <1>2, <1>3, <1>4, <1>5, <1>6 DEF IInv

\* Storing the result: the key had none, so no other write of it is in effect.
LEMMA StoreIInv ==
    ASSUME IInv, NEW r \in Requests, Store(r) PROVE IInv'
  <1> USE KeyAssumption, NoRequestAssumption
      DEF IInv, TypeOK, Store, Goto, Running, Done, Owner, Cached, Committed
  <1>1. lock[KeyOf[r]] = r /\ db[r] = "committed" /\ r \notin lapsed
        /\ cache[KeyOf[r]] = NoRequest
    BY DEF LockInv, DbInv, UnstoredInv
  <1>2. TypeOK'
    OBVIOUS
  <1>3. LockInv' /\ DbInv'
    <2>1. answer[r] = r
      BY DEF AnswerInv
    <2> QED BY <1>1, <2>1 DEF LockInv, DbInv
  <1>4. UnstoredInv'
    <2> SUFFICES ASSUME NEW s \in Requests
                 PROVE  UnstoredInv!(s)'
      BY DEF UnstoredInv
    <2>1. CASE s = r
      BY <1>1, <2>1 DEF UnstoredInv
    <2>2. CASE s # r /\ KeyOf[s] = KeyOf[r]
      BY <1>1, <2>2 DEF UnstoredInv, LockInv, CacheInv
    <2>3. CASE KeyOf[s] # KeyOf[r]
      BY <1>1, <2>3 DEF UnstoredInv
    <2> QED BY <2>1, <2>2, <2>3
  <1>5. CacheInv' /\ AnswerInv'
    BY <1>1 DEF CacheInv, AnswerInv
  <1> QED BY <1>2, <1>3, <1>4, <1>5 DEF IInv

LEMMA NextIInv == IInv /\ [Next]_vars => IInv'
  <1> SUFFICES ASSUME IInv, [Next]_vars PROVE IInv'
    OBVIOUS
  <1> USE KeyAssumption, NoRequestAssumption
      DEF IInv, TypeOK, Owner, Running, Done, Goto, Hold, Unlock, Cached,
          Committed, Retained, LockInv, DbInv, UnstoredInv, CacheInv, AnswerInv
  <1>0. CASE UNCHANGED vars
    BY <1>0 DEF vars
  <1>1. ASSUME NEW r \in Requests, Start(r) PROVE IInv'
    BY <1>1 DEF Start
  <1>2. ASSUME NEW r \in Requests, Step(r) PROVE IInv'
    <2>1. CASE Replay(r)
      BY <2>1 DEF Replay
    <2>2. CASE LookupMiss(r)
      BY <2>2 DEF LookupMiss
    <2>3. CASE Acquire(r)
      BY <2>3 DEF Acquire
    <2>4. CASE AcquireBusy(r)
      BY <2>4 DEF AcquireBusy
    <2>5. CASE RelookupMiss(r)
      BY <2>5 DEF RelookupMiss
    <2>6. CASE RecheckHit(r)
      BY <2>6 DEF RecheckHit
    <2>7. CASE RecheckMiss(r)
      BY <2>7, RecheckMissIInv
    <2>8. CASE WriteReturns(r)
      BY <2>8 DEF WriteReturns
    <2>9. CASE WriteRefused(r)
      BY <2>9 DEF WriteRefused
    <2>10. CASE Store(r)
      BY <2>10, StoreIInv
    <2>11. CASE Release(r)
      BY <2>11 DEF Release
    <2> QED BY <1>2, <2>1, <2>2, <2>3, <2>4, <2>5, <2>6, <2>7, <2>8, <2>9,
               <2>10, <2>11 DEF Step
  <1>3. ASSUME NEW r \in Requests, Interrupt(r) PROVE IInv'
    <2>1. CASE Abort(r)
      BY <2>1 DEF Abort
    <2>2. CASE LostAcquire(r)
      BY <2>2 DEF LostAcquire
    <2>3. CASE LostStore(r)
      \* The same effect as Store, on a call that then ends in an error.
      <3>1. lock[KeyOf[r]] = r /\ db[r] = "committed" /\ r \notin lapsed
            /\ cache[KeyOf[r]] = NoRequest
        BY <2>3 DEF LostStore
      <3> QED BY <2>3, <3>1 DEF LostStore
    <2>4. CASE LostRelease(r)
      BY <2>4 DEF LostRelease
    <2> QED BY <1>3, <2>1, <2>2, <2>3, <2>4 DEF Interrupt
  <1>4. ASSUME NEW r \in Requests, DbEnds(r) PROVE IInv'
    <2>1. CASE Commit(r)
      BY <2>1 DEF Commit
    <2>2. CASE Rollback(r)
      BY <2>2 DEF Rollback
    <2> QED BY <1>4, <2>1, <2>2 DEF DbEnds
  <1>5. ASSUME NEW k \in Keys, Expire(k) PROVE IInv'
    BY <1>5 DEF Expire
  <1>6. ASSUME NEW k \in Keys, Operator(k) PROVE IInv'
    <2>1. CASE RestoreResult(k)
      BY <2>1 DEF RestoreResult
    <2>2. CASE RemoveLock(k)
      BY <2>2 DEF RemoveLock
    <2> QED BY <1>6, <2>1, <2>2 DEF Operator
  <1> QED BY <1>0, <1>1, <1>2, <1>3, <1>4, <1>5, <1>6 DEF Next

\* Every reachable state satisfies the inductive invariant.
THEOREM Invariance == Spec => []IInv
  BY InitIInv, NextIInv, PTL DEF Spec

-----------------------------------------------------------------------------
(* What follows from it *)

\* Type correctness.
THEOREM TypeCorrect == Spec => []TypeOK
  <1>1. IInv => TypeOK
    BY DEF IInv
  <1> QED BY <1>1, Invariance, PTL

\* No execution of run_idempotent is overtaken by a second one of its key:
\* both the one in the database and the one whose callback still runs, or
\* whose result is still unsaved, own the lock.
THEOREM NoOvertaking == Spec => []OneWriterPerKey
  <1>1. IInv => OneWriterPerKey
    BY DEF IInv, LockInv, OneWriterPerKey
  <1> QED BY <1>1, Invariance, PTL

LEMMA EffectIsUnique == IInv => AtMostOneInEffect
  BY NoRequestAssumption
  DEF IInv, UnstoredInv, CacheInv, AtMostOneInEffect, Cached, Committed

\* Whatever is retried, lost, cancelled or reconciled, one key has at most one
\* committed write whose result has not reached its TTL.
THEOREM AtMostOnceEffect == Spec => []AtMostOneInEffect
  BY EffectIsUnique, Invariance, PTL

\* A retry that finds the lock free finds every committed write of the key.
THEOREM NoHiddenWrite == Spec => []FreeKeyIsCertain
  <1>1. IInv => FreeKeyIsCertain
    BY NoRequestAssumption
    DEF IInv, LockInv, CacheInv, FreeKeyIsCertain, Cached, Committed
  <1> QED BY <1>1, Invariance, PTL

\* Callers are told the truth about their write.
THEOREM TruthfulAnswers == Spec => []AnswersAreTrue
  <1>1. IInv => AnswersAreTrue
    BY NoRequestAssumption
    DEF IInv, TypeOK, DbInv, AnswerInv, AnswersAreTrue, Committed, Owner
  <1> QED BY <1>1, Invariance, PTL

\* A key is left locked only by a call whose caller was told an error.
THEOREM RetentionMeansError == Spec => []RetainedOnlyOnError
  <1>1. IInv => RetainedOnlyOnError
    BY NoRequestAssumption DEF IInv, LockInv, RetainedOnlyOnError, Done
  <1> QED BY <1>1, Invariance, PTL

-----------------------------------------------------------------------------
(* Refinement *)

\* The abstract write happens at the commit, the abstract answer when a call
\* has read or produced the result it will return; the other steps are not
\* visible in the abstract specification.

LEMMA CommitApplies ==
    ASSUME IInv, NEW r \in Requests, Commit(r) PROVE AtMostOnce!Apply(r)
  <1> USE DEF Commit, Committed
  <1>1. r \notin Committed /\ Committed' = Committed \cup {r}
    BY DEF IInv, TypeOK
  <1>2. lock[KeyOf[r]] = r /\ Cached(r) \in {NoRequest, r}
    BY DEF IInv, LockInv, UnstoredInv
  <1>3. ASSUME NEW w \in Committed \ lapsed, KeyOf[w] = KeyOf[r] PROVE FALSE
    BY <1>1, <1>2, <1>3, NoRequestAssumption DEF IInv, CacheInv, Cached
  <1> QED BY <1>1, <1>3 DEF AtMostOnce!Apply, AtMostOnce!InEffect

LEMMA AnswerAnswers ==
    ASSUME IInv, NEW r \in Requests,
           Replay(r) \/ RecheckHit(r) \/ WriteReturns(r)
    PROVE  AtMostOnce!Answer(r)
  <1> USE DEF Replay, RecheckHit, WriteReturns, Hold
  <1>1. answer[r] = NoRequest
    BY DEF IInv, AnswerInv
  <1>2. UNCHANGED <<Committed, lapsed>>
    BY DEF Committed
  <1>3. CASE Replay(r) \/ RecheckHit(r)
    <2>1. Cached(r) \in Committed \ lapsed /\ KeyOf[Cached(r)] = KeyOf[r]
      BY <1>3, KeyAssumption DEF IInv, CacheInv, Cached
    <2> QED BY <1>1, <1>2, <1>3, <2>1 DEF AtMostOnce!Answer, AtMostOnce!InEffect
  <1>4. CASE WriteReturns(r)
    <2>1. r \in Committed \ lapsed
      BY <1>4 DEF IInv, UnstoredInv, Committed
    <2> QED BY <1>1, <1>2, <1>4, <2>1 DEF AtMostOnce!Answer, AtMostOnce!InEffect
  <1> QED BY <1>3, <1>4

LEMMA ExpireForgets ==
    ASSUME IInv, NEW k \in Keys, Expire(k)
    PROVE  \E w \in Requests : AtMostOnce!Forget(w)
  <1>1. cache[k] \in Committed
    BY DEF Expire, IInv, CacheInv
  <1> QED BY <1>1 DEF Expire, AtMostOnce!Forget, Committed

LEMMA RestoreRecalls ==
    ASSUME IInv, NEW k \in Keys, RestoreResult(k)
    PROVE  \E w \in Requests : AtMostOnce!Recall(w)
  <1>1. PICK w \in Requests : /\ lock[k] = w /\ KeyOf[w] = k /\ w \in Committed
                             /\ lapsed' = lapsed \ {w}
                             /\ UNCHANGED <<Committed, answer>>
    BY DEF RestoreResult, Retained, IInv, LockInv, Committed
  <1>2. Cached(w) \in {NoRequest, w}
    BY <1>1 DEF IInv, UnstoredInv, Committed
  <1>3. ASSUME NEW s \in Committed \ lapsed, KeyOf[s] = k PROVE s = w
    BY <1>1, <1>2, <1>3, NoRequestAssumption DEF IInv, CacheInv, Cached, Committed
  <1> QED BY <1>1, <1>3 DEF AtMostOnce!Recall, AtMostOnce!InEffect, Committed

LEMMA OthersStutter ==
    ASSUME IInv, NEW r \in Requests, NEW k \in Keys,
           \/ Start(r) \/ LookupMiss(r) \/ Acquire(r) \/ AcquireBusy(r)
           \/ RelookupMiss(r) \/ RecheckMiss(r) \/ WriteRefused(r) \/ Store(r)
           \/ Release(r) \/ Interrupt(r) \/ Rollback(r) \/ RemoveLock(k)
    PROVE  UNCHANGED <<Committed, lapsed, answer>>
  <1>1. CASE RecheckMiss(r)
    BY <1>1 DEF RecheckMiss, IInv, TypeOK, DbInv, Committed
  <1>2. CASE Rollback(r)
    BY <1>2 DEF Rollback, IInv, TypeOK, Committed
  <1>3. CASE Start(r) \/ LookupMiss(r) \/ Acquire(r) \/ AcquireBusy(r)
             \/ RelookupMiss(r) \/ WriteRefused(r) \/ Store(r) \/ Release(r)
    BY <1>3 DEF Start, LookupMiss, Acquire, AcquireBusy, RelookupMiss,
                WriteRefused, Store, Release, Committed
  <1>4. CASE Interrupt(r) \/ RemoveLock(k)
    BY <1>4 DEF Interrupt, Abort, LostAcquire, LostStore, LostRelease,
                RemoveLock, Committed
  <1> QED BY <1>1, <1>2, <1>3, <1>4

LEMMA StepRefines == IInv /\ [Next]_vars => [AtMostOnce!Next]_(AtMostOnce!vars)
  <1> SUFFICES ASSUME IInv, [Next]_vars
               PROVE  AtMostOnce!Next \/ UNCHANGED <<Committed, lapsed, answer>>
    BY DEF AtMostOnce!vars
  <1>1. CASE UNCHANGED vars
    BY <1>1 DEF vars, Committed
  <1>2. ASSUME NEW r \in Requests, Start(r) \/ Step(r)
        PROVE  AtMostOnce!Next \/ UNCHANGED <<Committed, lapsed, answer>>
    <2>1. PICK k \in Keys : k = KeyOf[r]
      BY KeyAssumption
    <2> QED BY <1>2, <2>1, AnswerAnswers, OthersStutter DEF Step, AtMostOnce!Next
  <1>3. ASSUME NEW r \in Requests, Interrupt(r) \/ DbEnds(r)
        PROVE  AtMostOnce!Next \/ UNCHANGED <<Committed, lapsed, answer>>
    <2>1. PICK k \in Keys : k = KeyOf[r]
      BY KeyAssumption
    <2> QED BY <1>3, <2>1, CommitApplies, OthersStutter DEF DbEnds, AtMostOnce!Next
  <1>4. ASSUME NEW k \in Keys, Expire(k) \/ Operator(k)
        PROVE  AtMostOnce!Next \/ UNCHANGED <<Committed, lapsed, answer>>
    <2>1. CASE Expire(k)
      BY <2>1, ExpireForgets DEF AtMostOnce!Next
    <2>2. CASE RestoreResult(k)
      BY <2>2, RestoreRecalls DEF AtMostOnce!Next
    <2>3. CASE RemoveLock(k)
      BY <2>3 DEF RemoveLock, Committed
    <2> QED BY <1>4, <2>1, <2>2, <2>3 DEF Operator
  <1> QED BY <1>1, <1>2, <1>3, <1>4 DEF Next

\* run_idempotent implements the at-most-once writes it promises.
THEOREM Refinement == Spec => ImplementsAtMostOnce
  <1>1. Init => AtMostOnce!Init
    BY DEF Init, AtMostOnce!Init, Committed
  <1> QED BY <1>1, Invariance, StepRefines, PTL
      DEF Spec, ImplementsAtMostOnce, AtMostOnce!Spec
=============================================================================
