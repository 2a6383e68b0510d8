---------------------------- MODULE WriteEndpoints ----------------------------
(***************************************************************************)
(* The routes POST /funcionario/descartar-lote and /receber-mercadoria of   *)
(* interfaces/api/main.py: a transaction of InventoryWrites as the callback *)
(* of a call of Idempotency.  To the state of the transactions this module  *)
(* adds that of the calls; what Idempotency knows of the database is        *)
(* computed from the stages of the transactions.                            *)
(***************************************************************************)
EXTENDS InventoryWrites

CONSTANTS Keys, KeyOf  \* of the retries, as in Idempotency

ASSUME RoutesAssumption == KeyOf \in [Writes -> Keys]

VARIABLES pc, answer, cache, lock, lapsed

keyVars == <<pc, answer, cache, lock, lapsed>>
routeVars == <<keyVars, vars>>

\* What the state of a callback's transaction means to run_idempotent.
db == [w \in Writes |->
    CASE stage[w] = "idle" -> "none"
      [] stage[w] = "committed" -> "committed"
      [] stage[w] \in {"refused", "failed"} -> "rolledback"
      [] OTHER -> "open"]

I == INSTANCE Idempotency WITH Requests <- Writes, NoRequest <- NoWrite

RoutesInit ==
    /\ Init
    /\ pc = [w \in Writes |-> "idle"]
    /\ answer = [w \in Writes |-> NoWrite]
    /\ cache = [k \in Keys |-> NoWrite]
    /\ lock = [k \in Keys |-> NoWrite]
    /\ lapsed = {}

\* The callback runs while its call awaits it; a COMMIT already sent is
\* executed by the database on its own.
Runs(w) == pc[w] = "write" \/ stage[w] = "committing"

\* Bug: every error that reached the caller after a rollback is a refusal.
CallStepAnyError(w) == UNCHANGED vars /\ I!Step(w)

\* A step of run_idempotent.  A ValueError or PermissionError is one the
\* callback raised ("refused"), not a failure of the database ("failed").
CallStep(w) ==
    /\ UNCHANGED vars
    /\ I!Step(w)
    /\ pc[w] = "write" => stage[w] # "failed"

Arrive(w) == UNCHANGED vars /\ I!Start(w)

\* Bug: the callback starts whatever the second GET returned.
BeginUnchecked(w) ==
    /\ Begin(w)
    /\ pc[w] = "recheck"
    /\ pc' = [pc EXCEPT ![w] = "write"]
    /\ UNCHANGED <<answer, cache, lock, lapsed>>

BeginCallback(w) == Begin(w) /\ I!RecheckMiss(w)

CallbackStep(w) ==
    /\ Step(w)
    /\ Runs(w)
    /\ UNCHANGED keyVars

\* Bug: the write is run again by the retry that only the reads may have.
CallbackRetried(w) ==
    /\ pc[w] = "write"
    /\ stage[w] = "failed"
    /\ stage' = [stage EXCEPT ![w] = "validate"]
    /\ UNCHANGED <<keyVars, rowLock, balance, seen, newBalance, movements>>

\* Any other error of the callback leaves run_idempotent with the lock held.
CallbackError(w) ==
    /\ UNCHANGED vars
    /\ pc[w] = "write"
    /\ stage[w] = "failed"
    /\ I!Abort(w)

\* A call that is gone: closing its session rolls back what was not yet sent.
Abandoned(w) ==
    /\ pc[w] # "write"
    /\ Fail(w)
    /\ UNCHANGED keyVars

Fault(w) ==
    \/ Fail(w) /\ UNCHANGED keyVars
    \/ UNCHANGED vars /\ I!Interrupt(w)

Outside(k) == UNCHANGED vars /\ (I!Expire(k) \/ I!Operator(k))

Progress(w) ==
    \/ CallStep(w) \/ BeginCallback(w) \/ CallbackStep(w) \/ CallbackError(w)
    \/ Abandoned(w)

RoutesNext ==
    \/ \E w \in Writes : Arrive(w) \/ Progress(w) \/ Fault(w)
    \/ \E k \in Keys : Outside(k)

Routes == RoutesInit /\ [][RoutesNext]_routeVars

\* Everything that runs goes on; nobody owes a call, a fault, an expiry or a
\* reconciliation.
FairRoutes == Routes /\ \A w \in Writes : WF_routeVars(Progress(w))

-----------------------------------------------------------------------------
(* Properties *)

\* Refinement: seen from the calls alone, the routes are run_idempotent around a
\* callback that ends once.
RunsIdempotent == I!Spec

\* One retry key moves the stock once for as long as its result is remembered,
\* whatever happened to the calls that carried it.
KeyMovesStockOnce == \A v, w \in movements \ lapsed :
    KeyOf[v] = KeyOf[w] => v = w

\* What the route answers is what happened to the stock: 200 reports a movement
\* on record under the caller's key with the balance it left, 403, 404 and 409
\* mean the call has moved nothing and no longer can.
ReplyMatchesStock == \A w \in Writes :
    /\ pc[w] = "ok" =>
        /\ answer[w] \in movements
        /\ KeyOf[answer[w]] = KeyOf[w]
        /\ newBalance[answer[w]] = seen[answer[w]] + Delta(answer[w])
    /\ pc[w] \in {"refused", "in_progress"} =>
        w \notin movements /\ stage[w] \in {"idle", "refused"}

\* Waiting for a row of the other route never leaves a call unanswered: a call
\* without a lock is told 409, one with it gets the row or an error.
RepliesArrive == \A w \in Writes : pc[w] # "idle" ~> pc[w] \in I!Done

=============================================================================
