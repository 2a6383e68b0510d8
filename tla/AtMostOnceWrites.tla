--------------------------- MODULE AtMostOnceWrites ---------------------------
(***************************************************************************)
(* What app/cache/idempotency.py promises its callers, without Redis, locks *)
(* or workers: of the calls that carry one retry key, one at a time has its *)
(* write in effect, and a call that is answered is answered with the write  *)
(* that is in effect for its key.  A write is remembered for as long as its *)
(* stored result lives; a forgotten one no longer stops a later call.       *)
(***************************************************************************)
CONSTANTS Requests,     \* HTTP calls of the write routes
          Keys,         \* scoped retry keys
          KeyOf,        \* the key each call carries
          NoRequest     \* "none"

VARIABLES applied,      \* calls whose write is committed
          forgotten,    \* of those, the ones whose result is no longer remembered
          answer        \* the write each call was answered with

vars == <<applied, forgotten, answer>>

\* The writes in effect for key k that a retry still finds.
InEffect(k) == {w \in applied \ forgotten : KeyOf[w] = k}

Init ==
    /\ applied = {}
    /\ forgotten = {}
    /\ answer = [r \in Requests |-> NoRequest]

\* A write takes effect only while no other write of its key is remembered.
Apply(r) ==
    /\ r \notin applied
    /\ InEffect(KeyOf[r]) = {}
    /\ applied' = applied \cup {r}
    /\ UNCHANGED <<forgotten, answer>>

\* A call is answered once, with a write in effect for its own key.
Answer(r) ==
    /\ answer[r] = NoRequest
    /\ \E w \in InEffect(KeyOf[r]) : answer' = [answer EXCEPT ![r] = w]
    /\ UNCHANGED <<applied, forgotten>>

Forget(w) ==
    /\ w \in applied
    /\ forgotten' = forgotten \cup {w}
    /\ UNCHANGED <<applied, answer>>

\* A forgotten write may be put back if nothing took its place.
Recall(w) ==
    /\ w \in applied
    /\ InEffect(KeyOf[w]) \subseteq {w}
    /\ forgotten' = forgotten \ {w}
    /\ UNCHANGED <<applied, answer>>

Next == \E r \in Requests : Apply(r) \/ Answer(r) \/ Forget(r) \/ Recall(r)

Spec == Init /\ [][Next]_vars
=============================================================================
