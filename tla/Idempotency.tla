------------------------------ MODULE Idempotency ------------------------------
(***************************************************************************)
(* app/cache/idempotency.py: run_idempotent(), the wrapper both write       *)
(* routes call.  Each await is a step: the three GETs, the SET NX of the    *)
(* lock, the callback, the SET of the result and the release.  A call may   *)
(* be interrupted at any of them (Redis error, cancellation, worker crash), *)
(* and a command may take effect although its reply is lost.                *)
(*                                                                         *)
(* The result stored under a key is the name of the call whose write it     *)
(* reports.  A retry is another call with the same key.                     *)
(***************************************************************************)
EXTENDS Integers, FiniteSets

CONSTANTS Requests,     \* calls of run_idempotent
          Keys,         \* scoped_write_key: user, operation and client key
          KeyOf,        \* the scoped key of each call
          NoRequest     \* a free lock, a cache miss, no answer yet

ASSUME KeyAssumption == KeyOf \in [Requests -> Keys]
ASSUME NoRequestAssumption == NoRequest \notin Requests

VARIABLES pc,       \* where each call stands
          answer,   \* the write whose result a call holds to return
          db,       \* the PostgreSQL transaction of each call's callback
          cache,    \* the result key of each scoped key
          lock,     \* the ownership token in each "<key>:lock"
          lapsed    \* history: writes whose stored result expired

vars == <<pc, answer, db, cache, lock, lapsed>>

Owner == Requests \cup {NoRequest}

\* What the caller finally sees: a result, 409, a validation or authorization
\* error of the callback, or any other failure (500, or no reply at all).
Done == {"ok", "in_progress", "refused", "error"}

Running == {"lookup", "acquire", "relookup", "recheck", "write", "store", "release"}

TypeOK ==
    /\ pc \in [Requests -> {"idle"} \cup Running \cup Done]
    /\ answer \in [Requests -> Owner]
    /\ db \in [Requests -> {"none", "open", "committed", "rolledback"}]
    /\ cache \in [Keys -> Owner]
    /\ lock \in [Keys -> Owner]
    /\ lapsed \in SUBSET Requests

Init ==
    /\ pc = [r \in Requests |-> "idle"]
    /\ answer = [r \in Requests |-> NoRequest]
    /\ db = [r \in Requests |-> "none"]
    /\ cache = [k \in Keys |-> NoRequest]
    /\ lock = [k \in Keys |-> NoRequest]
    /\ lapsed = {}

-----------------------------------------------------------------------------
(* Helpers *)

Goto(r, label) == pc' = [pc EXCEPT ![r] = label]

Cached(r) == cache[KeyOf[r]]

Hold(r, w) == answer' = [answer EXCEPT ![r] = w]

Unlock(k) == lock' = [lock EXCEPT ![k] = NoRequest]

-----------------------------------------------------------------------------
(* The call *)

Start(r) ==
    /\ pc[r] = "idle"
    /\ Goto(r, "lookup")
    /\ UNCHANGED <<answer, db, cache, lock, lapsed>>

\* A GET outside the lock that finds a result: return it.
Replay(r) ==
    /\ pc[r] \in {"lookup", "relookup"}
    /\ Cached(r) # NoRequest
    /\ Hold(r, Cached(r))
    /\ Goto(r, "ok")
    /\ UNCHANGED <<db, cache, lock, lapsed>>

LookupMiss(r) ==
    /\ pc[r] = "lookup"
    /\ Cached(r) = NoRequest
    /\ Goto(r, "acquire")
    /\ UNCHANGED <<answer, db, cache, lock, lapsed>>

\* SET NX without an expiry, not blocking.
Acquire(r) ==
    /\ pc[r] = "acquire"
    /\ lock[KeyOf[r]] = NoRequest
    /\ lock' = [lock EXCEPT ![KeyOf[r]] = r]
    /\ Goto(r, "recheck")
    /\ UNCHANGED <<answer, db, cache, lapsed>>

\* Bug: a blocking lock.
BusyWaits(r) ==
    /\ pc[r] = "acquire"
    /\ lock[KeyOf[r]] # NoRequest
    /\ UNCHANGED vars

AcquireBusy(r) ==
    /\ pc[r] = "acquire"
    /\ lock[KeyOf[r]] # NoRequest
    /\ Goto(r, "relookup")
    /\ UNCHANGED <<answer, db, cache, lock, lapsed>>

\* IdempotencyInProgress, the 409 of the write routes.
RelookupMiss(r) ==
    /\ pc[r] = "relookup"
    /\ Cached(r) = NoRequest
    /\ Goto(r, "in_progress")
    /\ UNCHANGED <<answer, db, cache, lock, lapsed>>

\* Another worker completed between the first GET and the acquisition.
RecheckHit(r) ==
    /\ pc[r] = "recheck"
    /\ Cached(r) # NoRequest
    /\ Hold(r, Cached(r))
    /\ Goto(r, "release")
    /\ UNCHANGED <<db, cache, lock, lapsed>>

\* Bug: no second look at the cache under the lock.
NoRecheck(r) ==
    /\ pc[r] = "recheck"
    /\ Goto(r, "write")
    /\ db' = [db EXCEPT ![r] = "open"]
    /\ UNCHANGED <<answer, cache, lock, lapsed>>

\* The callback starts in the same step: no await in between.
RecheckMiss(r) ==
    /\ pc[r] = "recheck"
    /\ Cached(r) = NoRequest
    /\ Goto(r, "write")
    /\ db' = [db EXCEPT ![r] = "open"]
    /\ UNCHANGED <<answer, cache, lock, lapsed>>

WriteReturns(r) ==
    /\ pc[r] = "write"
    /\ db[r] = "committed"
    /\ Hold(r, r)
    /\ Goto(r, "store")
    /\ UNCHANGED <<db, cache, lock, lapsed>>

\* Bug: an error whose commit is still undecided is taken for a refusal.
RefusedUndecided(r) ==
    /\ pc[r] = "write"
    /\ db[r] # "committed"
    /\ Goto(r, "release")
    /\ UNCHANGED <<answer, db, cache, lock, lapsed>>

\* ValueError or PermissionError: the callback has rolled back before raising.
WriteRefused(r) ==
    /\ pc[r] = "write"
    /\ db[r] = "rolledback"
    /\ Goto(r, "release")
    /\ UNCHANGED <<answer, db, cache, lock, lapsed>>

Store(r) ==
    /\ pc[r] = "store"
    /\ cache' = [cache EXCEPT ![KeyOf[r]] = r]
    /\ Goto(r, "release")
    /\ UNCHANGED <<answer, db, lock, lapsed>>

\* The three releases: after a replay, after a refusal and after a store.
Release(r) ==
    /\ pc[r] = "release"
    /\ Unlock(KeyOf[r])
    /\ Goto(r, IF answer[r] = NoRequest THEN "refused" ELSE "ok")
    /\ UNCHANGED <<answer, db, cache, lapsed>>

-----------------------------------------------------------------------------
(* Interruptions: the exception leaves run_idempotent and nothing is undone *)

\* A command fails without effect, the callback raises any other error, the
\* task is cancelled or the worker dies.  The lock, if held, stays.
Abort(r) ==
    /\ pc[r] \in Running
    /\ Goto(r, "error")
    /\ UNCHANGED <<answer, db, cache, lock, lapsed>>

LostAcquire(r) ==
    /\ pc[r] = "acquire"
    /\ lock[KeyOf[r]] = NoRequest
    /\ lock' = [lock EXCEPT ![KeyOf[r]] = r]
    /\ Goto(r, "error")
    /\ UNCHANGED <<answer, db, cache, lapsed>>

LostStore(r) ==
    /\ pc[r] = "store"
    /\ cache' = [cache EXCEPT ![KeyOf[r]] = r]
    /\ Goto(r, "error")
    /\ UNCHANGED <<answer, db, lock, lapsed>>

LostRelease(r) ==
    /\ pc[r] = "release"
    /\ Unlock(KeyOf[r])
    /\ Goto(r, "error")
    /\ UNCHANGED <<answer, db, cache, lapsed>>

-----------------------------------------------------------------------------
(* The environment *)

\* PostgreSQL ends the transaction, whether or not the worker still waits.
Commit(r) ==
    /\ db[r] = "open"
    /\ db' = [db EXCEPT ![r] = "committed"]
    /\ UNCHANGED <<pc, answer, cache, lock, lapsed>>

Rollback(r) ==
    /\ db[r] = "open"
    /\ db' = [db EXCEPT ![r] = "rolledback"]
    /\ UNCHANGED <<pc, answer, cache, lock, lapsed>>

\* The stored result reaches its TTL.
Expire(k) ==
    /\ cache[k] # NoRequest
    /\ cache' = [cache EXCEPT ![k] = NoRequest]
    /\ lapsed' = lapsed \cup {cache[k]}
    /\ UNCHANGED <<pc, answer, db, lock>>

\* The documented reconciliation of a retained key.  The operator first makes
\* sure that the execution that holds the lock has ended, here and in the
\* database ...
Retained(k, w) ==
    /\ lock[k] = w
    /\ w # NoRequest
    /\ pc[w] \in Done
    /\ db[w] # "open"

\* ... puts the result of a committed write back under its key ...
RestoreResult(k) == \E w \in Requests :
    /\ Retained(k, w)
    /\ db[w] = "committed"
    /\ cache' = [cache EXCEPT ![k] = w]
    /\ lapsed' = lapsed \ {w}
    /\ UNCHANGED <<pc, answer, db, lock>>

\* Bug: the lock is cleared without looking for a committed write.
ClearLock(k) == \E w \in Requests :
    /\ Retained(k, w)
    /\ Unlock(k)
    /\ UNCHANGED <<pc, answer, db, cache, lapsed>>

\* ... and only then removes the lock.
RemoveLock(k) == \E w \in Requests :
    /\ Retained(k, w)
    /\ db[w] = "committed" => cache[k] = w
    /\ Unlock(k)
    /\ UNCHANGED <<pc, answer, db, cache, lapsed>>

-----------------------------------------------------------------------------
Step(r) ==
    \/ Replay(r) \/ LookupMiss(r) \/ Acquire(r) \/ AcquireBusy(r)
    \/ RelookupMiss(r) \/ RecheckHit(r) \/ RecheckMiss(r)
    \/ WriteReturns(r) \/ WriteRefused(r) \/ Store(r) \/ Release(r)

Interrupt(r) == Abort(r) \/ LostAcquire(r) \/ LostStore(r) \/ LostRelease(r)

DbEnds(r) == Commit(r) \/ Rollback(r)

Operator(k) == RestoreResult(k) \/ RemoveLock(k)

Next ==
    \/ \E r \in Requests : Start(r) \/ Step(r) \/ Interrupt(r) \/ DbEnds(r)
    \/ \E k \in Keys : Expire(k) \/ Operator(k)

Spec == Init /\ [][Next]_vars

\* The event loop runs every call that can move, Redis and PostgreSQL answer
\* (socket and statement timeouts).  Nobody owes a Start, an expiry, a failure
\* or a reconciliation.
Fairness == \A r \in Requests : WF_vars(Step(r)) /\ WF_vars(DbEnds(r))

FairSpec == Spec /\ Fairness

-----------------------------------------------------------------------------
(* Properties *)

Committed == {r \in Requests : db[r] = "committed"}

\* An execution is never overtaken by a second one of its key, even if its
\* worker is gone and only the database still works on it (module docstring
\* of idempotency.py: "a slow or interrupted database write must never be
\* overtaken by a second writer").
OneWriterPerKey == \A r, s \in Requests :
    db[r] = "open" /\ KeyOf[r] = KeyOf[s] /\ r # s =>
        db[s] # "open" /\ pc[s] \notin {"write", "store"}

\* Of the writes of one key whose result has not reached its TTL, at most one
\* is committed, whatever was interrupted, retried, lost or reconciled.
AtMostOneInEffect == \A r, s \in Committed \ lapsed :
    KeyOf[r] = KeyOf[s] => r = s

\* A key whose lock is free holds no uncertainty: nothing of it is still in
\* the database and every committed write is replayed to the next retry.
FreeKeyIsCertain == \A r \in Requests : lock[KeyOf[r]] = NoRequest =>
    /\ db[r] # "open"
    /\ r \in Committed \ lapsed => Cached(r) = r

\* What a caller is told is true: a result is that of a committed write of the
\* caller's own key, and a caller told "refused" or "in progress" has not
\* written anything.
AnswersAreTrue == \A r \in Requests :
    /\ pc[r] = "ok" =>
        /\ answer[r] \in Committed
        /\ KeyOf[answer[r]] = KeyOf[r]
    /\ pc[r] \in {"refused", "in_progress"} => db[r] \in {"none", "rolledback"}

\* Refinement: run_idempotent implements the at-most-once writes above.
AtMostOnce == INSTANCE AtMostOnceWrites WITH
    applied <- Committed, forgotten <- lapsed

ImplementsAtMostOnce == AtMostOnce!Spec

\* No call waits for another one: the lock is not blocking, so every call that
\* started is answered, also next to a key that stays retained forever.
EveryCallAnswered == \A r \in Requests :
    pc[r] # "idle" ~> pc[r] \in Done

\* A key stays locked only behind an unknown outcome: a call that was told
\* anything but an error has given its lock back.
RetainedOnlyOnError == \A k \in Keys :
    lock[k] \in Requests /\ pc[lock[k]] \in Done => pc[lock[k]] = "error"
=============================================================================
