------------------------------ MODULE ChatProofs ------------------------------
(***************************************************************************)
(* Proofs about ChatTurn: which agents a role reaches, what runs behind a   *)
(* turn that ended, what backs an answer, what its metrics tell and what    *)
(* its Judge is shown, for any intent catalogue and any number of tool      *)
(* rounds.                                                                  *)
(***************************************************************************)
EXTENDS ChatTurn, SequenceTheorems, TLAPS

\* The parts of a turn that the proofs look at.
Record(t) == {"pc", "role", "agent", "calls", "verdict", "final", "active", "saved", "todo",
               "reply"} \subseteq DOMAIN t

\* What no step between the routing and the Judge touches.
Keeps(u, t) == u.role = t.role /\ u.agent = t.agent /\ u.final = t.final /\ u.reply = t.reply

NoneRunning(calls) == \A c \in DOMAIN calls : calls[c] # "running"

MayReach(role, agent) ==
    /\ role \in Roles
    /\ role = "ESTOQUISTA" => agent \in {"", "funcionario"}
    /\ role = "CLIENTE" => agent \in {"", "cliente", "faq"}
    /\ role = "DONO" => agent \in {"", "dono", "motor_preditivo"}

In(w, writes) == \E i \in DOMAIN writes : writes[i] = w

Messages == {"user", "assistant"}

\* An answer is the model's own only behind an approved and stored evaluation.
\* While the session is active each message is saved or still to come, the
\* question first; the last agent is, whatever becomes of the session.
Backed(t) ==
    /\ t.final = "answer" =>
         /\ t.pc \in {"guardrail_saida", "save", "end", "replied"}
         /\ Approved(t.verdict) /\ In("evaluation", t.saved)
         /\ t.pc \in {"end", "replied"} =>
              /\ In("last_agent", t.saved)
              /\ In("assistant", t.saved) => In("user", t.saved)
              /\ t.active => In("assistant", t.saved)
    /\ t.pc = "guardrail_saida" => t.saved = <<"evaluation">>
    /\ t.pc = "save" =>
         /\ t.saved \in Seq(Writes) /\ t.todo \in Seq(Writes)
         /\ In("last_agent", t.saved) \/ In("last_agent", t.todo)
         /\ t.active => \A w \in Messages : In(w, t.saved) \/ In(w, t.todo)
         /\ In("assistant", t.saved) => In("user", t.saved)
         /\ \A i \in DOMAIN t.todo : t.todo[i] = "user" => i = 1

Good(t) ==
    /\ Record(t) /\ MayReach(t.role, t.agent) /\ Backed(t)
    /\ t.pc \notin {"context", "fetch"} => NoneRunning(t.calls)
    /\ t.pc # "replied" => t.reply = 0

IInv == Good(turn)

USE DEF Keeps

-----------------------------------------------------------------------------
LEMMA UnbegunGood ==
  /\ Record(Unbegun) /\ Good(Unbegun) /\ NoneRunning(Unbegun.calls)
  /\ Unbegun.final = "none" /\ Unbegun.pc = "replied" /\ Unbegun.agent = ""
  /\ Unbegun.reply = 0
  BY DEF Record, Unbegun, Good, MayReach, Roles, Backed, NoneRunning

\* An exception leaves nothing of the turn but its role.
LEMMA RaiseGood ==
  ASSUME NEW t, Record(t), NoneRunning(t.calls), t.role \in Roles, NEW error
  PROVE  Good(Raise(t, error))
  <1> DEFINE none == [c \in {d \in DOMAIN t.calls : t.calls[d] = "running"} |-> "running"]
             lost == [Unbegun EXCEPT !.disturbed = t.disturbed, !.role = t.role,
                                     !.verdict = t.verdict, !.calls = none]
             a == [lost EXCEPT !.pc = "llm_error", !.todo = <<"execution", "metrics">>]
             b == [lost EXCEPT !.reply = StatusOf(error)]
  <1>1. NoneRunning(none)
    BY DEF NoneRunning
  <1> HIDE DEF none
  <1>2. /\ Record(lost) /\ lost.role = t.role /\ lost.agent = "" /\ lost.calls = none
        /\ lost.final = "none" /\ lost.pc = "replied" /\ lost.reply = 0
    BY UnbegunGood DEF Record
  <1>3. Raise(t, error) = IF error = "llm" THEN a ELSE b
    BY DEF Raise, none
  <1> HIDE DEF lost
  <1>4. /\ Record(a) /\ a.role = t.role /\ a.agent = "" /\ a.calls = none
        /\ a.final = "none" /\ a.pc = "llm_error" /\ a.reply = 0
    BY <1>2 DEF Record
  <1>5. /\ Record(b) /\ b.role = t.role /\ b.agent = "" /\ b.calls = none
        /\ b.final = "none" /\ b.pc = "replied"
    BY <1>2 DEF Record
  <1> HIDE DEF a, b
  <1>6. Good(a) /\ Good(b)
    BY <1>1, <1>4, <1>5 DEF Good, MayReach, Backed, Roles
  <1> QED BY <1>3, <1>6

LEMMA DisturbedKeeps ==
  ASSUME NEW t, Record(t)
  PROVE  /\ Record(Disturbed(t)) /\ Keeps(Disturbed(t), t)
         /\ Disturbed(t).pc = t.pc /\ Disturbed(t).calls = t.calls
  BY DEF Record, Disturbed

\* The turn as far as the properties go is the same, at another place before
\* the Judge.
LEMMA EarlyStep ==
  ASSUME NEW t, Good(t), t.final # "answer", t.reply = 0, NEW u, Record(u), Keeps(u, t),
         u.pc \notin {"guardrail_saida", "save"},
         u.pc \notin {"context", "fetch"} => NoneRunning(u.calls)
  PROVE  Good(u)
  BY DEF Good, Backed

LEMMA ReceiveStep ==
  ASSUME IInv, NEW role \in Roles, NEW text, Receive(role, text) PROVE IInv'
  <1> DEFINE t == [Unbegun EXCEPT !.pc = "guardrail_entrada", !.role = role, !.text = text]
  <1>1. /\ Record(t) /\ t.role = role /\ t.agent = "" /\ t.calls = Unbegun.calls /\ t.final = "none"
        /\ t.pc = "guardrail_entrada" /\ t.reply = 0
    BY UnbegunGood DEF Record
  <1>2. turn' = t
    BY DEF Receive
  <1> HIDE DEF t
  <1>3. Good(t)
    BY <1>1, UnbegunGood DEF Good, MayReach, Backed, Roles
  <1> QED BY <1>2, <1>3 DEF IInv

LEMMA NodeGuardrailEntradaStep == ASSUME IInv, NodeGuardrailEntrada PROVE IInv'
  <1> DEFINE a == [turn EXCEPT !.pc = "conversation"]
             b == [turn EXCEPT !.rejected = TRUE, !.final = "refusal", !.pc = "end"]
  <1>1. /\ Good(turn) /\ turn.pc = "guardrail_entrada" /\ Record(turn) /\ turn.final # "answer" /\ turn.reply = 0
        /\ NoneRunning(turn.calls) /\ turn.role \in Roles
    BY DEF IInv, NodeGuardrailEntrada, Good, Backed, MayReach
  <1>2. /\ Record(a) /\ a.pc = "conversation" /\ Keeps(a, turn) /\ a.calls = turn.calls
    BY <1>1 DEF Record
  <1>3. /\ Record(b) /\ b.pc = "end" /\ b.role = turn.role /\ b.agent = turn.agent
        /\ b.calls = turn.calls /\ b.final = "refusal" /\ b.reply = turn.reply
    BY <1>1 DEF Record
  <1>4. turn' = a \/ turn' = b \/ turn' = Raise(Disturbed(turn), "redis")
    BY DEF NodeGuardrailEntrada, GuardrailEntrada
  <1> HIDE DEF a, b
  <1>5. Good(a)
    BY <1>1, <1>2, EarlyStep
  <1>6. Good(b)
    BY <1>1, <1>3 DEF Good, Backed
  <1>7. Good(Raise(Disturbed(turn), "redis"))
    BY <1>1, DisturbedKeeps, RaiseGood
  <1> QED BY <1>4, <1>5, <1>6, <1>7 DEF IInv

LEMMA SessionEndsStep == ASSUME IInv, SessionEnds PROVE IInv'
  <1>1. /\ Good(turn) /\ Record(turn) /\ turn.pc = "save" /\ turn' = [turn EXCEPT !.active = FALSE]
    BY DEF IInv, SessionEnds, Good
  <1>2. /\ Record(turn') /\ turn'.pc = "save" /\ Keeps(turn', turn) /\ turn'.calls = turn.calls
        /\ turn'.saved = turn.saved /\ turn'.todo = turn.todo /\ turn'.verdict = turn.verdict
        /\ turn'.active = FALSE
    BY <1>1 DEF Record
  <1> QED BY <1>1, <1>2 DEF IInv, Good, Backed

LEMMA ConversationStep == ASSUME IInv, Conversation PROVE IInv'
  <1> DEFINE a == [turn EXCEPT !.pc = "context", !.active = TRUE,
                               !.calls = [c \in {"history", "memory"} |-> "running"]]
  <1>1. /\ Good(turn) /\ turn.pc = "conversation" /\ Record(turn) /\ turn.final # "answer" /\ turn.reply = 0
        /\ NoneRunning(turn.calls) /\ turn.role \in Roles
    BY DEF IInv, Conversation, Good, Backed, MayReach
  <1>2. /\ Record(a) /\ a.pc = "context" /\ Keeps(a, turn)
    BY <1>1 DEF Record
  <1>3. turn' = a \/ \E e : turn' = Raise(Disturbed(turn), e)
    BY DEF Conversation
  <1> HIDE DEF a
  <1>4. Good(a)
    BY <1>1, <1>2, EarlyStep
  <1>5. \A e : Good(Raise(Disturbed(turn), e))
    BY <1>1, DisturbedKeeps, RaiseGood
  <1> QED BY <1>3, <1>4, <1>5 DEF IInv

-----------------------------------------------------------------------------
(* Concurrent calls and routing *)

\* A turn before the Judge.
LEMMA Early ==
  ASSUME IInv, turn.pc \notin {"guardrail_saida", "save", "end", "replied"}
  PROVE  /\ Good(turn) /\ Record(turn) /\ turn.final # "answer" /\ turn.reply = 0 /\ turn.role \in Roles
         /\ turn.pc \notin {"context", "fetch"} => NoneRunning(turn.calls)
  BY DEF IInv, Good, Backed, MayReach

LEMMA RecordedKeeps ==
  ASSUME NEW t, Record(t), NEW c, NEW status
  PROVE  LET u == Recorded(t, c, status)
         IN  /\ Record(u) /\ u.pc = t.pc /\ Keeps(u, t) /\ u.calls = t.calls
  BY DEF Record, Recorded

LEMMA CallStep ==
  ASSUME IInv, NEW c \in DOMAIN turn.calls, CallReturns(c) \/ CallFails(c) PROVE IInv'
  <1>1. turn.pc \notin {"guardrail_saida", "save", "end", "replied"} =>
          turn.final # "answer" /\ turn.reply = 0
    BY Early
  <1>2. turn.pc \in {"context", "fetch"} /\ Good(turn) /\ Record(turn)
    BY DEF IInv, CallReturns, CallFails, Good, NoneRunning
  <1>3. ASSUME NEW e, NEW status,
               LET x == [turn EXCEPT !.calls[c] = e]
               IN turn' = Recorded(x, c, status) \/ turn' = Recorded(Disturbed(x), c, status)
        PROVE  IInv'
    <2> DEFINE x == [turn EXCEPT !.calls[c] = e]
    <2>1. /\ Record(x) /\ x.pc = turn.pc /\ Keeps(x, turn)
      BY <1>2 DEF Record
    <2>2. turn' = Recorded(x, c, status) \/ turn' = Recorded(Disturbed(x), c, status)
      BY <1>3
    <2> HIDE DEF x
    <2>3. /\ Record(turn') /\ turn'.pc = turn.pc /\ Keeps(turn', turn)
      BY <2>1, <2>2, DisturbedKeeps, RecordedKeeps
    <2> QED BY <1>1, <1>2, <2>3, EarlyStep DEF IInv
  <1>4. CASE CallReturns(c)
    BY <1>3, <1>4 DEF CallReturns
  <1>5. CASE CallFails(c)
    BY <1>3, <1>5 DEF CallFails
  <1> QED BY <1>4, <1>5

LEMMA RaiseGatheredGood ==
  ASSUME NEW t, Record(t), NoneRunning(t.calls), t.role \in Roles
  PROVE  Good(RaiseGathered(t))
  BY RaiseGood DEF RaiseGathered

LEMMA NextGroupGood ==
  ASSUME NEW t, Record(t), MayReach(t.role, t.agent), t.final # "answer", t.reply = 0,
         NoneRunning(t.calls)
  PROVE  Good(NextGroup(t))
  <1> DEFINE groups == AgentNode(t.agent).groups
             calls == [c \in groups[t.step + 1] |-> "running"]
             a == [t EXCEPT !.pc = "model", !.seen = @ \cup Recalled(t.agent)]
             b == [t EXCEPT !.pc = "fetch", !.step = @ + 1, !.calls = calls]
  <1>1. /\ Record(a) /\ a.pc = "model" /\ Keeps(a, t) /\ a.calls = t.calls
    BY DEF Record
  <1>2. NextGroup(t) \in {a, b}
    BY DEF NextGroup
  <1> HIDE DEF calls
  <1>3. /\ Record(b) /\ b.pc = "fetch" /\ Keeps(b, t)
    BY DEF Record
  <1> HIDE DEF a, b
  <1> QED BY <1>1, <1>2, <1>3 DEF Good, Backed

LEMMA LoadContextStep == ASSUME IInv, LoadContext PROVE IInv'
  <1> DEFINE a == [turn EXCEPT !.pc = "supervisor", !.calls = <<>>]
  <1>1. /\ Good(turn) /\ turn.pc = "context" /\ Record(turn) /\ turn.final # "answer" /\ turn.reply = 0
        /\ turn.role \in Roles
    BY Early DEF LoadContext
  <1>2. NoneRunning(turn.calls)
    BY DEF LoadContext, Gathered, NoneRunning
  <1>3. /\ Record(a) /\ a.pc = "supervisor" /\ Keeps(a, turn) /\ a.calls = <<>>
    BY <1>1 DEF Record
  <1>4. turn' = a \/ turn' = RaiseGathered(turn)
    BY DEF LoadContext
  <1> HIDE DEF a
  <1>5. Good(a)
    BY <1>1, <1>3, EarlyStep DEF NoneRunning
  <1> QED BY <1>1, <1>2, <1>4, <1>5, RaiseGatheredGood DEF IInv

LEMMA FetchedStep == ASSUME IInv, Fetched PROVE IInv'
  <1>1. /\ Good(turn) /\ turn.pc = "fetch" /\ Record(turn) /\ turn.final # "answer" /\ turn.reply = 0
        /\ turn.role \in Roles /\ MayReach(turn.role, turn.agent)
    BY Early DEF Fetched, Good
  <1>2. NoneRunning(turn.calls)
    BY DEF Fetched, Gathered, NoneRunning
  <1> DEFINE x == Inlined(turn)
             y == [x EXCEPT !.step = @ + 1]
  <1>3. /\ Record(x) /\ Keeps(x, turn)
        /\ NoneRunning(x.calls)
    BY <1>1 DEF Record, Inlined, NoneRunning
  <1> HIDE DEF x
  <1>4. /\ Record(y) /\ Keeps(y, turn)
        /\ NoneRunning(y.calls)
    BY <1>3 DEF Record
  <1>5. turn' = RaiseGathered(turn) \/ turn' = NextGroup(x) \/ turn' = NextGroup(y)
    BY DEF Fetched, x
  <1> HIDE DEF y
  <1> QED BY <1>1, <1>2, <1>3, <1>4, <1>5, RaiseGatheredGood, NextGroupGood DEF IInv

\* Whatever the operator wrote into the catalogue.
LEMMA RoutedGood ==
  ASSUME NEW t, Record(t), t.role \in Roles, t.final # "answer", t.reply = 0, NoneRunning(t.calls),
         NEW intents
  PROVE  Good(Routed(t, intents))
  <1> DEFINE found == IF t.role \in DOMAIN RoleToIntentAgents
                      THEN MatchIntent(t.role, t.text, intents) ELSE {}
             agent == IF found = {} THEN RoleToDefaultAgent[t.role] ELSE CHOOSE a \in found : TRUE
             u == [t EXCEPT !.text = "routed", !.agent = agent]
  <1>1. DOMAIN RoleToIntentAgents = {"DONO", "CLIENTE"}
    BY DEF RoleToIntentAgents
  <1>2. found # {} => agent \in RoleToIntentAgents[t.role] /\ t.role \in {"DONO", "CLIENTE"}
    BY <1>1 DEF MatchIntent
  <1>3. found = {} => agent = RoleToDefaultAgent[t.role]
    OBVIOUS
  <1>4. Routed(t, intents) = NextGroup(u)
    BY DEF Routed
  <1> HIDE DEF found, agent
  <1>5. MayReach(t.role, agent)
    <2>1. CASE found # {}
      BY <1>2, <2>1 DEF MayReach, Roles, RoleToIntentAgents
    <2>2. CASE found = {}
      BY <1>3, <2>2 DEF MayReach, Roles, RoleToDefaultAgent
    <2> QED BY <2>1, <2>2
  <1>6. /\ Record(u) /\ u.role = t.role /\ u.agent = agent /\ u.final = t.final
        /\ u.reply = t.reply /\ u.calls = t.calls
    BY DEF Record
  <1> HIDE DEF u
  <1> QED BY <1>4, <1>5, <1>6, NextGroupGood

LEMMA RoutingStep == ASSUME IInv, SupervisorRoute \/ GetActiveIntents PROVE IInv'
  <1> DEFINE a == [turn EXCEPT !.pc = "lookup"]
  <1>1. /\ Good(turn) /\ Record(turn) /\ turn.final # "answer" /\ turn.reply = 0 /\ turn.role \in Roles
        /\ NoneRunning(turn.calls)
    BY Early DEF SupervisorRoute, GetActiveIntents
  <1>2. /\ Record(a) /\ a.pc = "lookup" /\ Keeps(a, turn) /\ a.calls = turn.calls
    BY <1>1 DEF Record
  <1>3. turn' = a \/ \E intents : turn' = Routed(turn, intents)
    BY DEF SupervisorRoute, GetActiveIntents
  <1> HIDE DEF a
  <1>4. Good(a)
    BY <1>1, <1>2, EarlyStep
  <1> QED BY <1>1, <1>3, <1>4, RoutedGood DEF IInv

-----------------------------------------------------------------------------
(* Model, Judge, saves *)

LEMMA BilledKeeps ==
  ASSUME NEW t, Record(t)
  PROVE  /\ Record(Billed(t)) /\ Keeps(Billed(t), t)
         /\ Billed(t).pc = t.pc /\ Billed(t).calls = t.calls
  BY DEF Record, Billed

LEMMA AskModelStep == ASSUME IInv, AskModel PROVE IInv'
  <1> DEFINE x == Billed(turn)
             a == [x EXCEPT !.pc = "juiz"]
  <1>1. /\ Good(turn) /\ Record(turn) /\ turn.final # "answer" /\ turn.reply = 0 /\ turn.role \in Roles
        /\ NoneRunning(turn.calls)
    BY Early DEF AskModel
  <1>2. /\ Record(x) /\ Keeps(x, turn)
        /\ x.calls = turn.calls
    BY <1>1, BilledKeeps
  <1> HIDE DEF x
  <1>3. /\ Record(a) /\ a.pc = "juiz" /\ Keeps(a, turn) /\ a.calls = turn.calls
    BY <1>2 DEF Record
  <1>4. \A asked : LET b == [x EXCEPT !.pc = "tools", !.rounds = @ + 1, !.asked = asked]
                   IN  /\ Record(b) /\ b.pc = "tools" /\ Keeps(b, turn) /\ b.calls = turn.calls
    BY <1>2 DEF Record
  <1>5. \/ turn' = a
        \/ \E asked : turn' = [x EXCEPT !.pc = "tools", !.rounds = @ + 1, !.asked = asked]
        \/ \E e : turn' = Raise(Disturbed(turn), e)
    BY DEF AskModel, x
  <1> HIDE DEF a
  <1>6. CASE \E e : turn' = Raise(Disturbed(turn), e)
    BY <1>1, <1>6, DisturbedKeeps, RaiseGood DEF IInv
  <1>7. CASE turn' = a
    BY <1>1, <1>3, <1>7, EarlyStep DEF IInv
  <1>8. CASE \E asked : turn' = [x EXCEPT !.pc = "tools", !.rounds = @ + 1, !.asked = asked]
    <2>1. /\ Record(turn') /\ turn'.pc = "tools" /\ Keeps(turn', turn) /\ turn'.calls = turn.calls
      BY <1>4, <1>8
    <2> QED BY <1>1, <2>1, EarlyStep DEF IInv
  <1> QED BY <1>5, <1>6, <1>7, <1>8

LEMMA RunToolStep == ASSUME IInv, NEW c, RunTool(c) PROVE IInv'
  <1> DEFINE rest == [turn EXCEPT !.asked = @ \ {c},
                                  !.pc = IF turn.asked = {c} THEN "model" ELSE "tools"]
             more == [rest EXCEPT !.seen = @ \cup {c}]
  <1>1. /\ Good(turn) /\ Record(turn) /\ turn.final # "answer" /\ turn.reply = 0 /\ turn.role \in Roles
        /\ NoneRunning(turn.calls)
    BY Early DEF RunTool
  <1>2. /\ Record(rest) /\ rest.pc \in {"model", "tools"} /\ Keeps(rest, turn) /\ rest.calls = turn.calls
    BY <1>1 DEF Record
  <1>3. \/ turn' = rest \/ turn' = Recorded(more, c, "success")
        \/ turn' = Recorded(Disturbed(rest), c, "error")
    BY DEF RunTool
  <1> HIDE DEF rest
  <1>4. /\ Record(more) /\ more.pc = rest.pc /\ Keeps(more, turn) /\ more.calls = turn.calls
    BY <1>2 DEF Record
  <1> HIDE DEF more
  <1>5. /\ Record(turn') /\ turn'.pc = rest.pc /\ Keeps(turn', turn) /\ turn'.calls = turn.calls
    BY <1>2, <1>3, <1>4, DisturbedKeeps, RecordedKeeps
  <1> QED BY <1>1, <1>2, <1>5, EarlyStep DEF IInv

LEMMA AdoptedGood ==
  ASSUME NEW t, Record(t), MayReach(t.role, t.agent), t.final # "answer", t.reply = 0,
         NoneRunning(t.calls), NEW v
  PROVE  Good(Adopted(t, v))
  <1> DEFINE u == Adopted(t, v)
  <1>1. /\ Record(u) /\ u.pc = "evaluated" /\ Keeps(u, t) /\ u.calls = t.calls
    BY DEF Record, Adopted
  <1> HIDE DEF u
  <1>2. Good(u)
    BY <1>1 DEF Good, Backed
  <1> QED BY <1>2 DEF u

LEMMA EvaluationStep == ASSUME IInv, FirstEvaluation \/ SecondEvaluation PROVE IInv'
  <1>1. /\ Good(turn) /\ Record(turn) /\ turn.final # "answer" /\ turn.reply = 0 /\ MayReach(turn.role, turn.agent)
        /\ NoneRunning(turn.calls)
    BY Early DEF FirstEvaluation, SecondEvaluation, Good
  <1>2. \A e \in Evaluations(turn) :
          /\ Record(e.t) /\ Keeps(e.t, turn) /\ e.t.calls = turn.calls
    <2>1. \A e \in Evaluations(turn) :
            \/ e.t = Billed(turn) \/ e.t = Disturbed(turn) \/ e.t = Disturbed(Billed(turn))
      BY DEF Evaluations
    <2> QED BY <1>1, <2>1, BilledKeeps, DisturbedKeeps
  <1>3. PICK e \in Evaluations(turn) :
          \/ \E v : turn' = Adopted(e.t, v)
          \/ turn' = [e.t EXCEPT !.verdict = e.v, !.pc = "juiz_retry"]
    BY DEF FirstEvaluation, SecondEvaluation
  <1>4. CASE \E v : turn' = Adopted(e.t, v)
    BY <1>1, <1>2, <1>4, AdoptedGood DEF IInv
  <1>5. CASE turn' = [e.t EXCEPT !.verdict = e.v, !.pc = "juiz_retry"]
    <2>1. /\ Record(turn') /\ turn'.pc = "juiz_retry" /\ Keeps(turn', turn) /\ turn'.calls = turn.calls
      BY <1>2, <1>5 DEF Record
    <2> QED BY <1>1, <2>1, EarlyStep DEF IInv
  <1> QED BY <1>3, <1>4, <1>5

\* Only here a turn gets an answer.
LEMMA SaveEvaluationStep == ASSUME IInv, SaveEvaluation PROVE IInv'
  <1> DEFINE final == IF Approved(turn.verdict) THEN "answer" ELSE "fallback"
             a == [turn EXCEPT !.pc = "guardrail_saida", !.saved = <<"evaluation">>, !.final = final]
  <1>1. /\ Good(turn) /\ Record(turn) /\ MayReach(turn.role, turn.agent) /\ turn.role \in Roles
        /\ NoneRunning(turn.calls) /\ turn.reply = 0
    BY Early DEF SaveEvaluation, Good
  <1>2. turn' = a \/ turn' = Raise(turn, "other")
    BY DEF SaveEvaluation
  <1>3. final = "answer" => Approved(turn.verdict)
    OBVIOUS
  <1> HIDE DEF final
  <1>4. /\ Record(a) /\ a.pc = "guardrail_saida" /\ a.role = turn.role /\ a.agent = turn.agent
        /\ a.final = final /\ a.reply = turn.reply /\ a.calls = turn.calls /\ a.saved = <<"evaluation">>
        /\ a.verdict = turn.verdict
    BY <1>1 DEF Record
  <1> HIDE DEF a
  <1>5. In("evaluation", a.saved)
    BY <1>4 DEF In
  <1>6. Good(a)
    BY <1>1, <1>3, <1>4, <1>5 DEF Good, Backed
  <1> QED BY <1>1, <1>2, <1>6, RaiseGood DEF IInv

\* What node_guardrail_saida is about to save: a question and its answer in this
\* order, and the last agent.
LEMMA SavesInOrder ==
  ASSUME NEW remembered \in {<<>>, <<"preference">>, <<"fact">>, <<"preference", "fact">>},
         NEW todo, todo = <<"user", "assistant", "last_agent">> \o remembered
  PROVE  /\ todo \in Seq(Writes)
         /\ \A w \in Messages \cup {"last_agent"} : In(w, todo)
         /\ \A i \in DOMAIN todo : todo[i] = "user" => i = 1
  <1> DEFINE head == <<"user", "assistant", "last_agent">>
  <1>1. head \in Seq(Writes) /\ Len(head) = 3
    BY DEF Writes
  <1>2. head[1] = "user" /\ head[2] = "assistant" /\ head[3] = "last_agent"
    OBVIOUS
  <1>3. /\ remembered \in Seq(Writes)
        /\ \A i \in 1 .. Len(remembered) : remembered[i] # "user"
    <2>1. CASE remembered = <<>>
      BY <2>1
    <2>2. CASE remembered = <<"preference">>
      BY <2>2 DEF Writes
    <2>3. CASE remembered = <<"fact">>
      BY <2>3 DEF Writes
    <2>4. CASE remembered = <<"preference", "fact">>
      BY <2>4 DEF Writes
    <2> QED BY <2>1, <2>2, <2>3, <2>4
  <1>4. todo = head \o remembered
    OBVIOUS
  <1> HIDE DEF head
  <1>5. Len(remembered) \in Nat
    BY <1>3
  <1>6. /\ todo \in Seq(Writes) /\ Len(todo) = 3 + Len(remembered)
        /\ \A i \in 1 .. 3 + Len(remembered) :
             todo[i] = IF i <= 3 THEN head[i] ELSE remembered[i - 3]
    BY <1>1, <1>3, <1>4, ConcatProperties
  <1>7. /\ todo[1] = "user" /\ todo[2] = "assistant" /\ todo[3] = "last_agent"
        /\ {1, 2, 3} \subseteq DOMAIN todo
    BY <1>2, <1>5, <1>6
  <1>8. \A w \in Messages \cup {"last_agent"} : In(w, todo)
    BY <1>7 DEF Messages, In
  <1>9. ASSUME NEW i \in DOMAIN todo, todo[i] = "user" PROVE i = 1
    <2>1. i \in 1 .. 3 + Len(remembered)
      BY <1>6
    <2>2. CASE i <= 3
      <3>1. i = 1 \/ i = 2 \/ i = 3
        BY <2>1, <2>2
      <3> QED BY <1>7, <1>9, <3>1
    <2>3. CASE ~(i <= 3)
      <3>1. i - 3 \in 1 .. Len(remembered) /\ todo[i] = remembered[i - 3]
        BY <1>5, <1>6, <2>1, <2>3
      <3> QED BY <1>3, <1>9, <3>1
    <2> QED BY <2>2, <2>3
  <1> QED BY <1>6, <1>8, <1>9

LEMMA NodeGuardrailSaidaStep == ASSUME IInv, NodeGuardrailSaida PROVE IInv'
  <1>1. /\ Good(turn) /\ Record(turn) /\ turn.pc = "guardrail_saida"
        /\ turn.saved = <<"evaluation">>
    BY DEF IInv, NodeGuardrailSaida, Good, Backed
  <1>2. PICK out \in GuardrailSaida(turn.final),
             remembered \in {<<>>, <<"preference">>, <<"fact">>, <<"preference", "fact">>} :
          turn' = [turn EXCEPT !.pc = "save", !.final = out,
                      !.todo = <<"user", "assistant", "last_agent">> \o remembered]
    BY DEF NodeGuardrailSaida
  <1> DEFINE todo == <<"user", "assistant", "last_agent">> \o remembered
  <1>3. /\ todo \in Seq(Writes)
        /\ \A w \in Messages \cup {"last_agent"} : In(w, todo)
        /\ \A i \in DOMAIN todo : todo[i] = "user" => i = 1
    BY SavesInOrder
  <1>4. out = "answer" => turn.final = "answer"
    BY DEF GuardrailSaida
  <1> HIDE DEF todo
  <1>5. /\ Record(turn') /\ turn'.pc = "save" /\ turn'.role = turn.role /\ turn'.agent = turn.agent
        /\ turn'.final = out /\ turn'.reply = turn.reply /\ turn'.calls = turn.calls /\ turn'.saved = turn.saved
        /\ turn'.verdict = turn.verdict /\ turn'.todo = todo
    BY <1>1, <1>2 DEF Record, todo
  <1>6. turn.saved \in Seq(Writes) /\ ~In("assistant", turn.saved)
    BY <1>1 DEF Writes, In
  <1>7. Good(turn')
    BY <1>1, <1>3, <1>4, <1>5, <1>6 DEF Good, Backed
  <1> QED BY <1>7 DEF IInv

\* A save that is still to come is the next one, or comes behind it.
LEMMA NextOrLater ==
  ASSUME NEW todo \in Seq(Writes), todo # <<>>
  PROVE  /\ Tail(todo) \in Seq(Writes) /\ Head(todo) \in Writes
         /\ \A w : In(w, todo) => Head(todo) = w \/ In(w, Tail(todo))
         /\ (\A i \in DOMAIN todo : todo[i] = "user" => i = 1) =>
              /\ \A i \in DOMAIN Tail(todo) : Tail(todo)[i] # "user"
              /\ In("user", todo) => Head(todo) = "user"
  <1>1. /\ Tail(todo) \in Seq(Writes) /\ Head(todo) \in Writes /\ Head(todo) = todo[1]
        /\ \A i \in DOMAIN Tail(todo) : i + 1 \in DOMAIN todo /\ i + 1 # 1 /\ Tail(todo)[i] = todo[i + 1]
    OBVIOUS
  <1>2. ASSUME NEW w, NEW i \in DOMAIN todo, todo[i] = w, i # 1 PROVE In(w, Tail(todo))
    <2>1. i - 1 \in DOMAIN Tail(todo) /\ Tail(todo)[i - 1] = w
      BY <1>2
    <2> QED BY <2>1 DEF In
  <1> QED BY <1>1, <1>2 DEF In

LEMMA AppendIn ==
  ASSUME NEW saved \in Seq(Writes), NEW w \in Writes
  PROVE  /\ Append(saved, w) \in Seq(Writes)
         /\ \A v : In(v, Append(saved, w)) <=> In(v, saved) \/ v = w
  <1>1. /\ Append(saved, w) \in Seq(Writes)
        /\ DOMAIN Append(saved, w) = 1 .. Len(saved) + 1 /\ DOMAIN saved = 1 .. Len(saved)
        /\ Len(saved) \in Nat
        /\ \A i \in 1 .. Len(saved) : Append(saved, w)[i] = saved[i]
        /\ Append(saved, w)[Len(saved) + 1] = w
    OBVIOUS
  <1>2. \A i \in 1 .. Len(saved) + 1 : i \in 1 .. Len(saved) \/ i = Len(saved) + 1
    BY <1>1
  <1>3. Len(saved) + 1 \in 1 .. Len(saved) + 1 /\ 1 .. Len(saved) \subseteq 1 .. Len(saved) + 1
    BY <1>1
  <1> QED BY <1>1, <1>2, <1>3 DEF In

\* A save done, skipped with the session ended, or a record of the memory.
LEMMA SaveStep == ASSUME IInv, SaveMessage \/ UpdateMemory PROVE IInv'
  <1>1. /\ Good(turn) /\ Record(turn) /\ turn.pc = "save" /\ turn.todo # <<>>
        /\ turn.saved \in Seq(Writes) /\ turn.todo \in Seq(Writes)
        /\ In("last_agent", turn.saved) \/ In("last_agent", turn.todo)
        /\ turn.active => \A w \in Messages : In(w, turn.saved) \/ In(w, turn.todo)
        /\ In("assistant", turn.saved) => In("user", turn.saved)
        /\ \A i \in DOMAIN turn.todo : turn.todo[i] = "user" => i = 1
    BY DEF IInv, SaveMessage, UpdateMemory, Good, Backed
  <1> DEFINE write == Head(turn.todo)
             added == Append(turn.saved, write)
             todo == Tail(turn.todo)
             saved == turn'.saved
  <1>2. /\ todo \in Seq(Writes) /\ write \in Writes
        /\ \A w : In(w, turn.todo) => write = w \/ In(w, todo)
        /\ \A i \in DOMAIN todo : todo[i] # "user"
        /\ In("user", turn.todo) => write = "user"
    BY <1>1, NextOrLater
  <1>3. added \in Seq(Writes) /\ \A v : In(v, added) <=> In(v, turn.saved) \/ v = write
    BY <1>1, <1>2, AppendIn
  <1>4. \/ write \in Messages /\ ~turn.active /\ turn' = [turn EXCEPT !.saved = @, !.todo = todo]
        \/ turn.active /\ turn' = [turn EXCEPT !.saved = added, !.todo = todo]
        \/ write \notin Messages /\ turn' = [turn EXCEPT !.saved = added, !.todo = todo]
    BY DEF SaveMessage, UpdateMemory, Messages
  <1> HIDE DEF added, todo, write
  <1>5. /\ Record(turn') /\ turn'.pc = "save" /\ Keeps(turn', turn) /\ turn'.calls = turn.calls
        /\ turn'.active = turn.active /\ turn'.verdict = turn.verdict /\ turn'.todo = todo
        /\ \/ saved = turn.saved /\ write \in Messages /\ ~turn.active
           \/ saved = added /\ (turn.active \/ write \notin Messages)
    BY <1>1, <1>4 DEF Record
  <1> HIDE DEF saved
  <1>6. /\ saved \in Seq(Writes)
        /\ \A v : In(v, turn.saved) => In(v, saved)
        /\ In("last_agent", saved) \/ In("last_agent", todo)
    BY <1>1, <1>2, <1>3, <1>5 DEF Messages
  <1>7. turn.active => \A w \in Messages : In(w, saved) \/ In(w, todo)
    BY <1>1, <1>2, <1>3, <1>5
  <1>8. In("assistant", saved) => In("user", saved)
    BY <1>1, <1>2, <1>3, <1>5 DEF Messages
  <1>9. Good(turn')
    BY <1>1, <1>2, <1>5, <1>6, <1>7, <1>8 DEF Good, Backed, saved
  <1> QED BY <1>9 DEF IInv

LEMMA SavedStep == ASSUME IInv, Saved PROVE IInv'
  <1>1. /\ Good(turn) /\ Record(turn) /\ turn.pc = "save" /\ turn.todo = <<>>
        /\ turn' = [turn EXCEPT !.pc = "end"]
    BY DEF IInv, Saved, Good
  <1>2. /\ In("last_agent", turn.saved)
        /\ In("assistant", turn.saved) => In("user", turn.saved)
        /\ turn.active => In("assistant", turn.saved)
    BY <1>1 DEF Good, Backed, In, Messages
  <1>3. /\ Record(turn') /\ turn'.pc = "end" /\ Keeps(turn', turn) /\ turn'.calls = turn.calls
        /\ turn'.saved = turn.saved /\ turn'.active = turn.active
        /\ turn'.verdict = turn.verdict
    BY <1>1 DEF Record
  <1>4. Good(turn')
    BY <1>1, <1>2, <1>3 DEF Good, Backed
  <1> QED BY <1>4 DEF IInv

-----------------------------------------------------------------------------
(* Failure, deadline, reply, records *)

LEMMA FailureStep == ASSUME IInv, WriteFails \/ ChatTimeout PROVE IInv'
  <1> DEFINE x == Disturbed(turn)
             y == [x EXCEPT !.calls = <<>>]
  <1>1. Good(turn) /\ Record(turn) /\ turn.role \in Roles
    BY DEF IInv, Good, MayReach
  <1>2. Record(x) /\ x.role = turn.role /\ x.calls = turn.calls
    BY <1>1, DisturbedKeeps
  <1> HIDE DEF x
  <1>3. Record(y) /\ y.role = turn.role /\ NoneRunning(y.calls)
    BY <1>2 DEF Record, NoneRunning
  <1>4. CASE WriteFails
    <2>1. NoneRunning(turn.calls) /\ turn' = Raise(x, "other")
      BY <1>1, <1>4 DEF WriteFails, Good, x
    <2> QED BY <1>1, <1>2, <2>1, RaiseGood DEF IInv
  <1>5. CASE ChatTimeout
    <2>1. turn' = Raise(y, "timeout")
      BY <1>5 DEF ChatTimeout, x
    <2> HIDE DEF y
    <2> QED BY <1>1, <1>3, <2>1, RaiseGood DEF IInv
  <1> QED BY <1>4, <1>5

\* What is recorded behind a reply leaves the answer and what backs it alone.
LEMMA RecordStep ==
  ASSUME IInv, Reply \/ LlmError \/ Background PROVE IInv'
  <1>1. /\ Good(turn) /\ Record(turn) /\ turn.pc \in {"end", "llm_error", "replied"}
        /\ NoneRunning(turn.calls)
    BY DEF IInv, Reply, LlmError, Background, Good
  <1>2. /\ Record(turn') /\ turn'.role = turn.role /\ turn'.agent = turn.agent
        /\ turn'.final = turn.final /\ turn'.calls = turn.calls /\ turn'.saved = turn.saved
        /\ turn'.verdict = turn.verdict /\ turn'.active = turn.active
        /\ turn'.pc \in {"llm_error", "replied"}
        /\ turn'.pc = "llm_error" => turn.pc = "llm_error" /\ turn'.reply = turn.reply
    <2>1. CASE Reply
      BY <1>1, <2>1 DEF Reply, Record
    <2>2. CASE LlmError
      BY <1>1, <2>2 DEF LlmError, Metrics, Record
    <2>3. CASE Background
      BY <1>1, <2>3 DEF Background, Record, Lost, RecordExecution, RecordMetrics, Metrics,
         RecordToolRuns, RecordRoutingLog, RunControleAcesso
    <2> QED BY <2>1, <2>2, <2>3
  <1>3. Good(turn')
    BY <1>1, <1>2 DEF Good, Backed
  <1> QED BY <1>3 DEF IInv

-----------------------------------------------------------------------------
(* The theorems *)

LEMMA NextIInv == IInv /\ [Next]_vars => IInv'
  <1> SUFFICES ASSUME IInv, [Next]_vars PROVE IInv'
    OBVIOUS
  <1>1. ASSUME NEW role \in Roles, NEW text \in Texts \ {"routed"}, Receive(role, text) PROVE IInv'
    BY <1>1, ReceiveStep
  <1>2. CASE GraphStep
    BY <1>2, NodeGuardrailEntradaStep, ConversationStep, SessionEndsStep, LoadContextStep, RoutingStep, FetchedStep,
       AskModelStep, EvaluationStep, SaveEvaluationStep, NodeGuardrailSaidaStep, SaveStep, SavedStep,
       FailureStep, RecordStep, CallStep, RunToolStep DEF GraphStep
  <1>3. CASE ChatTimeout \/ LlmError \/ Background
    BY <1>3, FailureStep, RecordStep
  <1>4. CASE CacheExpires \/ UNCHANGED vars
    BY <1>4 DEF CacheExpires, vars, IInv
  <1> QED BY <1>1, <1>2, <1>3, <1>4 DEF Next

LEMMA AlwaysIInv == Spec => []IInv
  <1>1. Init => IInv
    BY UnbegunGood DEF Init, IInv
  <1> QED BY <1>1, NextIInv, PTL DEF Spec

\* No reply with an agent's own answer without an evaluation that approved it in
\* every respect and is stored (node_agente_juiz).  Whenever the session ends, no
\* answer is stored without its question, and one that stays active holds both
\* (node_guardrail_saida, save_message), whatever the order of calls and failures.
THEOREM AnswersAreBacked == Spec => []AnswerIsBacked
  <1>1. ASSUME IInv PROVE AnswerIsBacked
    <2> SUFFICES ASSUME turn.reply = 200, turn.final = "answer"
                 PROVE  /\ Approved(turn.verdict)
                        /\ In("evaluation", turn.saved) /\ In("last_agent", turn.saved)
                        /\ In("assistant", turn.saved) => In("user", turn.saved)
                        /\ turn.active => In("assistant", turn.saved)
      BY DEF AnswerIsBacked, Approved, Stored, In
    <2>1. turn.pc = "replied"
      BY <1>1 DEF IInv, Good
    <2> QED BY <1>1, <2>1 DEF IInv, Good, Backed
  <1> QED BY <1>1, AlwaysIInv, PTL

\* Every call of a turn has ended before the turn does (gather_or_raise waits for
\* all of them, and the deadline cancels them).
THEOREM NothingIsLeftRunning == Spec => []NoStrayCalls
  <1>1. IInv => NoStrayCalls
    BY DEF IInv, Good, NoStrayCalls, NoneRunning, InGraph, Running
  <1> QED BY <1>1, AlwaysIInv, PTL

\* For every catalogue that an operator may write, a role stays with its agents
\* (_match_intent looks at the agents of the role only).
THEOREM RolesAreKept == Spec => []RolesStayInTheirAgents
  <1>1. IInv => RolesStayInTheirAgents
    BY DEF IInv, Good, MayReach, RolesStayInTheirAgents
  <1> QED BY <1>1, AlwaysIInv, PTL
-----------------------------------------------------------------------------
(* The ledger of a turn, what its Judge is shown, and its types *)

Fields == {"pc", "role", "text", "agent", "step", "calls", "seen", "runs", "ran", "rounds", "asked",
           "billed", "usage", "verdict", "rejected", "final", "active", "saved", "todo", "disturbed",
           "reply", "records", "status", "tokens"}

Whole(t) == Fields \subseteq DOMAIN t

\* The model calls that a stage may have billed beyond the rounds of tools.
Extra(pc) == CASE pc = "juiz" -> 1
               [] pc = "juiz_retry" -> 2
               [] pc \in {"evaluated", "guardrail_saida", "save", "end", "replied"} -> 3
               [] OTHER -> 0

\* What was billed is what was counted, and what a turn without an answer leaves
\* behind it can no longer reach the metrics of an answered one.
Ledger(t) ==
    /\ t.usage = t.billed /\ t.billed \in Nat /\ t.rounds \in 0 .. MaxIterations
    /\ t.billed <= t.rounds + Extra(t.pc)
    /\ t.rejected <=> t.final = "refusal"
    /\ t.pc \notin {"end", "replied"} => ~t.rejected
    /\ t.pc \notin {"llm_error", "replied"} => t.records = {}
    /\ t.pc = "llm_error" =>
         /\ t.todo = <<"execution", "metrics">> \/ t.todo = <<"metrics">>
         /\ "metrics" \notin t.records
    /\ t.pc = "replied" /\ t.reply # 200 => t.todo = <<>>
    /\ "metrics" \in t.records =>
         /\ t.status = "completed" <=> t.reply = 200 /\ t.final # "refusal"
         /\ t.status = "completed" => t.tokens = t.billed

Returned(t) == {c \in DOMAIN t.calls : t.calls[c] = "ok"}

Recall == {"memory", "recent", "older"}

\* Everything that an agent may consult, on its own or for its model.
Consulted(agent) ==
    CASE agent = "funcionario" -> {"alerts", "inventory", "expiring", "inbox", "vision", "rag"}
      [] agent = "dono" -> {"kpis", "sales", "alerts", "stores", "rag"}
      [] agent = "motor_preditivo" -> {"expiring", "sales", "alerts", "series", "weather"}
      [] OTHER -> {"rag", "public"}

\* The successful tool runs of a turn are the data it was shown, and what its
\* concurrent calls are about to show it; they are consultations of its agent.
Shown(t) ==
    /\ t.pc \in {"guardrail_entrada", "conversation", "context", "supervisor", "lookup"} =>
         t.runs = {} /\ t.seen = {} /\ t.step \in Nat
    /\ t.pc \in {"fetch", "model", "tools", "juiz", "juiz_retry"} =>
         /\ Successes(t) = (t.seen \ Recall) \cup Returned(t)
         /\ t.seen \cap Recall \subseteq Recalled(t.agent)
         /\ Successes(t) \subseteq Consulted(t.agent)
    /\ t.pc = "fetch" => t.step \in Nat /\ DOMAIN t.calls \subseteq Consulted(t.agent)
    /\ t.pc = "tools" => t.asked \subseteq Consulted(t.agent) \cup {"unknown"}
    /\ t.pc \notin {"context", "fetch"} => Returned(t) = {}

Typed(t) ==
    /\ t.pc \in Stages /\ t.text \in Texts
    /\ \A c \in DOMAIN t.calls : t.calls[c] \in CallStates
    /\ t.verdict \in Verdicts \cup {NoVerdict, Unavailable}
    /\ t.final \in {"none", "refusal", "answer", "fallback"}
    /\ t.active \in BOOLEAN
    /\ t.saved \in Seq(Writes) /\ t.todo \in Seq(Writes \cup Tasks)
    /\ t.reply \in {0, 200, 403, 409, 500, 503, 504}
    /\ t.records \subseteq Tasks /\ t.status \in {"none", "error", "completed"}

Sound(t) == Whole(t) /\ Ledger(t) /\ Shown(t) /\ Typed(t)

SoundInv == IInv /\ Sound(turn)


USE DEF Fields

\* u is t but for the fields in changed.
Alike(u, t, changed) == Whole(u) /\ \A f \in Fields \ changed : u[f] = t[f]

LEMMA UnbegunSound == Sound(Unbegun) /\ Unbegun.pc = "replied" /\ Unbegun.reply = 0
  <1>1. Whole(Unbegun)
    BY DEF Whole, Unbegun
  <1>2. Ledger(Unbegun)
    BY ChatAssumption DEF Ledger, Unbegun, Extra
  <1>3. Shown(Unbegun)
    BY DEF Shown, Unbegun, Returned
  <1>4. Typed(Unbegun)
    BY DEF Typed, Unbegun, Stages, Texts
  <1> QED BY <1>1, <1>2, <1>3, <1>4 DEF Sound, Unbegun

LEMMA StatusOfError ==
  \A error : StatusOf(error) \in {403, 409, 500, 503, 504}
  BY DEF StatusOf

LEMMA RaiseSound ==
  ASSUME NEW t, Whole(t), t.verdict \in Verdicts \cup {NoVerdict, Unavailable}, NEW error
  PROVE  Sound(Raise(t, error))
  <1> DEFINE none == [c \in {d \in DOMAIN t.calls : t.calls[d] = "running"} |-> "running"]
             lost == [Unbegun EXCEPT !.disturbed = t.disturbed, !.role = t.role,
                                     !.verdict = t.verdict, !.calls = none]
             a == [lost EXCEPT !.pc = "llm_error", !.todo = <<"execution", "metrics">>]
             b == [lost EXCEPT !.reply = StatusOf(error)]
  <1>1. \A c \in DOMAIN none : none[c] = "running"
    OBVIOUS
  <1> HIDE DEF none
  <1>2. /\ Sound(Unbegun) /\ Unbegun.pc = "replied" /\ Unbegun.reply = 0 /\ Unbegun.todo = <<>>
        /\ Unbegun.billed = 0 /\ Unbegun.usage = 0 /\ Unbegun.rounds = 0 /\ Unbegun.final = "none"
        /\ Unbegun.records = {} /\ Unbegun.rejected = FALSE
    BY UnbegunSound DEF Unbegun
  <1>3. Alike(lost, Unbegun, {"disturbed", "role", "verdict", "calls"})
        /\ lost.verdict = t.verdict /\ lost.calls = none
    BY <1>2 DEF Sound, Whole, Alike
  <1>4. Raise(t, error) = IF error = "llm" THEN a ELSE b
    BY DEF Raise, none
  <1> HIDE DEF lost
  <1>5. Alike(a, lost, {"pc", "todo"}) /\ a.pc = "llm_error" /\ a.todo = <<"execution", "metrics">>
    BY <1>3 DEF Whole, Alike
  <1>6. Alike(b, lost, {"reply"}) /\ b.reply \in {403, 409, 500, 503, 504}
    BY <1>3, StatusOfError DEF Whole, Alike
  <1> HIDE DEF a, b
  <1>7. ASSUME NEW u \in {a, b}
        PROVE  /\ Alike(u, Unbegun, {"disturbed", "role", "verdict", "calls", "pc", "todo", "reply"})
               /\ u.verdict = t.verdict /\ u.calls = none
               /\ \/ u.pc = "llm_error" /\ u.todo = <<"execution", "metrics">> /\ u.reply = 0
                  \/ u.pc = "replied" /\ u.todo = <<>> /\ u.reply \in {403, 409, 500, 503, 504}
    BY <1>2, <1>3, <1>5, <1>6, <1>7 DEF Alike
  <1> HIDE DEF a, b
  <1>8. ASSUME NEW u \in {a, b} PROVE Ledger(u)
    <2>1. /\ u.usage = 0 /\ u.billed = 0 /\ u.rounds = 0 /\ u.final = "none" /\ u.records = {}
          /\ ~u.rejected
      BY <1>2, <1>7 DEF Alike
    <2> QED BY <1>7, <2>1, ChatAssumption DEF Ledger, Extra
  <1>9. <<"execution", "metrics">> \in Seq(Writes \cup Tasks)
    BY DEF Tasks
  <1>10. ASSUME NEW u \in {a, b} PROVE Shown(u) /\ Typed(u)
    <2>1. Shown(u)
      BY <1>1, <1>2, <1>7 DEF Alike, Shown, Returned
    <2>2. Typed(Unbegun)
      BY <1>2 DEF Sound
    <2>3. /\ u.text = Unbegun.text /\ u.final = Unbegun.final /\ u.saved = Unbegun.saved
          /\ u.active = Unbegun.active /\ u.records = Unbegun.records /\ u.status = Unbegun.status
      BY <1>7 DEF Alike
    <2>4. \A c \in DOMAIN u.calls : u.calls[c] \in CallStates
      BY <1>1, <1>7 DEF CallStates
    <2>5. <<>> \in Seq(Writes \cup Tasks)
      OBVIOUS
    <2>6. u.pc \in Stages /\ u.todo \in Seq(Writes \cup Tasks)
      <3>1. u.pc \in Stages
        BY <1>7 DEF Stages
      <3>2. u.todo \in Seq(Writes \cup Tasks)
        <4>1. u.todo = <<"execution", "metrics">> \/ u.todo = <<>>
          BY <1>7
        <4> QED BY <4>1, <1>9, <2>5, Zenon
      <3> QED BY <3>1, <3>2
    <2>7. u.reply \in {0, 200, 403, 409, 500, 503, 504} /\ u.verdict = t.verdict
      BY <1>7
    <2> QED BY <2>1, <2>2, <2>3, <2>4, <2>6, <2>7 DEF Typed
  <1>11. Whole(a) /\ Whole(b)
    BY <1>5, <1>6 DEF Alike
  <1> QED BY <1>4, <1>8, <1>10, <1>11 DEF Sound

LEMMA AlikeTwice ==
  ASSUME NEW u, NEW t, NEW s, NEW A, NEW B, Alike(u, t, A), Alike(t, s, B)
  PROVE  Alike(u, s, A \cup B)
  BY DEF Alike

\* The turn goes on without anything billed, recorded or decided.
Going == {"pc", "role", "text", "agent", "step", "calls", "seen", "runs", "ran", "asked",
          "verdict", "active", "saved", "todo", "disturbed"}

LEMMA LedgerKept ==
  ASSUME NEW t, Ledger(t), t.pc \notin {"llm_error", "replied", "end"}, NEW u, Alike(u, t, Going),
         u.pc \notin {"llm_error", "replied"}, Extra(t.pc) <= Extra(u.pc)
  PROVE  Ledger(u)
  <1>1. /\ u.usage = t.usage /\ u.billed = t.billed /\ u.rounds = t.rounds /\ u.final = t.final
        /\ u.rejected = t.rejected /\ u.records = t.records
    BY DEF Alike, Going
  <1>2. Extra(t.pc) \in Nat /\ Extra(u.pc) \in Nat
    BY DEF Extra
  <1> QED BY <1>1, <1>2, ChatAssumption DEF Ledger

\* What of its types a step does not touch.
LEMMA TypesKept ==
  ASSUME NEW t, Typed(t), NEW u, Alike(u, t, {"pc", "calls", "step", "agent", "role", "seen", "runs",
           "ran", "rounds", "asked", "billed", "usage", "rejected", "disturbed", "tokens"}),
         u.pc \in Stages, \A c \in DOMAIN u.calls : u.calls[c] \in CallStates
  PROVE  Typed(u)
  <1>1. /\ u.text = t.text /\ u.verdict = t.verdict /\ u.final = t.final /\ u.saved = t.saved
        /\ u.active = t.active /\ u.todo = t.todo /\ u.reply = t.reply /\ u.records = t.records /\ u.status = t.status
    BY DEF Alike
  <1> QED BY <1>1 DEF Typed

\* A turn on its way to the Judge.
LEMMA Unjudged ==
  ASSUME SoundInv, turn.pc \notin {"guardrail_saida", "save", "end", "replied", "llm_error"}
  PROVE  /\ Whole(turn) /\ Ledger(turn) /\ Shown(turn) /\ Typed(turn)
         /\ turn.verdict \in Verdicts \cup {NoVerdict, Unavailable}
         /\ turn.final # "answer" /\ turn.reply = 0
  BY Early DEF SoundInv, Sound, Typed

LEMMA DisturbedAlike ==
  ASSUME NEW t, Whole(t) PROVE Alike(Disturbed(t), t, {"disturbed"})
  BY DEF Disturbed, Alike, Whole

LEMMA DisturbedRaised ==
  ASSUME NEW t, Whole(t), t.verdict \in Verdicts \cup {NoVerdict, Unavailable}, NEW error
  PROVE  Sound(Raise(Disturbed(t), error))
  <1> DEFINE x == Disturbed(t)
  <1>1. Whole(x) /\ x.verdict = t.verdict
    BY DisturbedAlike DEF Alike
  <1> HIDE DEF x
  <1>2. Sound(Raise(x, error))
    BY <1>1, RaiseSound
  <1> QED BY <1>2 DEF x

LEMMA ReceiveSound ==
  ASSUME NEW role, NEW text \in Texts, Receive(role, text) PROVE Sound(turn')
  <1> DEFINE t == [Unbegun EXCEPT !.pc = "guardrail_entrada", !.role = role, !.text = text]
  <1>1. Sound(Unbegun) /\ Unbegun.pc = "replied" /\ Unbegun.records = {}
        /\ Unbegun.billed = 0 /\ Unbegun.usage = 0 /\ Unbegun.rounds = 0 /\ Unbegun.final = "none"
        /\ Unbegun.rejected = FALSE /\ Unbegun.runs = {} /\ Unbegun.seen = {} /\ Unbegun.step = 0
    BY UnbegunSound DEF Unbegun
  <1>2. /\ Alike(t, Unbegun, {"pc", "role", "text"}) /\ t.pc = "guardrail_entrada" /\ t.text = text
    BY <1>1 DEF Sound, Whole, Alike
  <1>3. turn' = t
    BY DEF Receive
  <1> HIDE DEF t
  <1>4. Ledger(t)
    <2>1. t.billed = 0 /\ t.usage = 0 /\ t.rounds = 0 /\ t.final = "none" /\ ~t.rejected /\ t.records = {}
      BY <1>1, <1>2 DEF Alike
    <2> QED BY <1>2, <2>1, ChatAssumption DEF Ledger, Extra
  <1>5. Shown(t)
    BY <1>1, <1>2 DEF Alike, Shown, Returned, Sound
  <1>6. Typed(t)
    <2>1. /\ t.calls = Unbegun.calls /\ t.verdict = Unbegun.verdict /\ t.final = Unbegun.final
          /\ t.active = Unbegun.active /\ t.saved = Unbegun.saved /\ t.todo = Unbegun.todo /\ t.reply = Unbegun.reply
          /\ t.records = Unbegun.records /\ t.status = Unbegun.status
      BY <1>2 DEF Alike
    <2>2. t.pc \in Stages
      BY <1>2 DEF Stages
    <2> QED BY <1>1, <1>2, <2>1, <2>2 DEF Sound, Typed
  <1> QED BY <1>2, <1>3, <1>4, <1>5, <1>6 DEF Sound, Alike

LEMMA NodeGuardrailEntradaSound == ASSUME SoundInv, NodeGuardrailEntrada PROVE Sound(turn')
  <1> DEFINE a == [turn EXCEPT !.pc = "conversation"]
             b == [turn EXCEPT !.rejected = TRUE, !.final = "refusal", !.pc = "end"]
  <1>1. /\ turn.pc = "guardrail_entrada" /\ Whole(turn) /\ Ledger(turn) /\ Shown(turn) /\ Typed(turn)
        /\ turn.verdict \in Verdicts \cup {NoVerdict, Unavailable}
    BY Unjudged DEF NodeGuardrailEntrada
  <1>2. Alike(a, turn, {"pc"}) /\ a.pc = "conversation"
    BY <1>1 DEF Whole, Alike
  <1>3. Alike(b, turn, {"rejected", "final", "pc"}) /\ b.pc = "end" /\ b.final = "refusal" /\ b.rejected
    BY <1>1 DEF Whole, Alike
  <1>4. turn' = a \/ turn' = b \/ turn' = Raise(Disturbed(turn), "redis")
    BY DEF NodeGuardrailEntrada, GuardrailEntrada
  <1> HIDE DEF a, b
  <1>5. Sound(a)
    <2>1. Ledger(a)
      BY <1>1, <1>2, LedgerKept DEF Alike, Going, Extra
    <2>2. Shown(a)
      BY <1>1, <1>2 DEF Shown, Alike, Returned
    <2>3. Typed(a)
      BY <1>1, <1>2 DEF Typed, Alike, Stages
    <2> QED BY <1>2, <2>1, <2>2, <2>3 DEF Sound, Alike
  <1>6. Sound(b)
    <2>1. Ledger(b)
      <3>1. /\ b.usage = turn.usage /\ b.billed = turn.billed /\ b.rounds = turn.rounds
            /\ b.records = turn.records
        BY <1>3 DEF Alike
      <3> QED BY <1>1, <1>3, <3>1, ChatAssumption DEF Ledger, Extra
    <2>2. Shown(b)
      BY <1>1, <1>3 DEF Shown, Alike, Returned
    <2>3. Typed(b)
      BY <1>1, <1>3 DEF Typed, Alike, Stages
    <2> QED BY <1>3, <2>1, <2>2, <2>3 DEF Sound, Alike
  <1> QED BY <1>1, <1>4, <1>5, <1>6, DisturbedRaised

LEMMA ConversationSound == ASSUME SoundInv, Conversation PROVE Sound(turn')
  <1> DEFINE calls == [c \in {"history", "memory"} |-> "running"]
             a == [turn EXCEPT !.pc = "context", !.active = TRUE, !.calls = calls]
  <1>1. /\ turn.pc = "conversation" /\ Whole(turn) /\ Ledger(turn) /\ Shown(turn) /\ Typed(turn)
        /\ turn.verdict \in Verdicts \cup {NoVerdict, Unavailable}
    BY Unjudged DEF Conversation
  <1>2. \A c \in DOMAIN calls : calls[c] = "running"
    OBVIOUS
  <1>3. turn' = a \/ \E e : turn' = Raise(Disturbed(turn), e)
    BY DEF Conversation
  <1> HIDE DEF calls
  <1>4. /\ Alike(a, turn, {"pc", "active", "calls"})
        /\ a.pc = "context" /\ a.calls = calls /\ a.active = TRUE
    BY <1>1 DEF Whole, Alike
  <1> HIDE DEF a
  <1>5. Sound(a)
    <2>1. Ledger(a)
      BY <1>1, <1>4, LedgerKept DEF Alike, Going, Extra
    <2>2. Shown(a)
      BY <1>1, <1>2, <1>4 DEF Shown, Alike, Returned
    <2>3. Typed(a)
      <3>1. \A c \in DOMAIN a.calls : a.calls[c] \in CallStates
        BY <1>2, <1>4 DEF CallStates
      <3>2. /\ a.text = turn.text /\ a.verdict = turn.verdict /\ a.final = turn.final
            /\ a.saved = turn.saved /\ a.todo = turn.todo /\ a.reply = turn.reply
            /\ a.records = turn.records /\ a.status = turn.status
        BY <1>4 DEF Alike
      <3>3. a.pc \in Stages /\ a.active \in BOOLEAN
        BY <1>4 DEF Stages
      <3> QED BY <1>1, <3>1, <3>2, <3>3 DEF Typed
    <2> QED BY <1>4, <2>1, <2>2, <2>3 DEF Sound, Alike
  <1> QED BY <1>1, <1>3, <1>5, DisturbedRaised

LEMMA SessionEndsSound == ASSUME SoundInv, SessionEnds PROVE Sound(turn')
  <1>1. /\ turn.pc = "save" /\ Whole(turn) /\ Ledger(turn) /\ Shown(turn) /\ Typed(turn)
        /\ turn' = [turn EXCEPT !.active = FALSE]
    BY DEF SoundInv, Sound, SessionEnds
  <1>2. Alike(turn', turn, {"active"}) /\ turn'.active = FALSE
    BY <1>1 DEF Whole, Alike
  <1>3. Ledger(turn')
    <2>1. turn'.pc = "save" /\ Alike(turn', turn, Going)
      BY <1>1, <1>2 DEF Alike, Going
    <2>2. Extra(turn'.pc) = 3 /\ Extra(turn.pc) = 3
      BY <1>1, <2>1 DEF Extra
    <2>3. Extra(turn.pc) <= Extra(turn'.pc)
      BY <2>2
    <2>4. turn.pc \notin {"llm_error", "replied", "end"} /\ turn'.pc \notin {"llm_error", "replied"}
      BY <1>1, <2>1
    <2> QED BY <1>1, <2>1, <2>3, <2>4, LedgerKept
  <1>4. Shown(turn')
    BY <1>1, <1>2 DEF Shown, Alike, Returned
  <1>5. Typed(turn')
    BY <1>1, <1>2 DEF Typed, Alike
  <1> QED BY <1>2, <1>3, <1>4, <1>5 DEF Sound, Alike

LEMMA SuccessfulRuns == \A t, c : c \in Successes(t) <=> <<c, "success">> \in t.runs
  <1>1. \A c : <<c, "success">>[1] = c
    OBVIOUS
  <1> QED BY <1>1 DEF Successes

\* A call that ends is recorded with what it is to the prompt.
LEMMA RecordedAlike ==
  ASSUME NEW t, Whole(t), NEW c, NEW status, NEW u, u = Recorded(t, c, status)
  PROVE  /\ Alike(u, t, {"runs"})
         /\ u.runs = IF t.pc = "context" THEN t.runs ELSE t.runs \cup {<<c, status>>}
  BY DEF Recorded, Alike, Whole

LEMMA CallSound ==
  ASSUME SoundInv, NEW c \in DOMAIN turn.calls, CallReturns(c) \/ CallFails(c)
  PROVE  Sound(turn')
  <1>1. /\ turn.pc \in {"context", "fetch"} /\ Whole(turn) /\ Ledger(turn) /\ Shown(turn) /\ Typed(turn)
    BY DEF SoundInv, Sound, IInv, CallReturns, CallFails, Good, NoneRunning
  <1>2. ASSUME NEW e \in CallStates, NEW status, (e = "ok") <=> (status = "success"),
               LET x == [turn EXCEPT !.calls[c] = e]
               IN turn' = Recorded(x, c, status) \/ turn' = Recorded(Disturbed(x), c, status),
               turn.calls[c] = "running"
        PROVE  Sound(turn')
    <2> DEFINE calls == [turn.calls EXCEPT ![c] = e]
               x == [turn EXCEPT !.calls = calls]
    <2>1. turn' = Recorded(x, c, status) \/ turn' = Recorded(Disturbed(x), c, status)
      BY <1>2
    <2>2. /\ DOMAIN calls = DOMAIN turn.calls /\ calls[c] = e
          /\ \A d \in DOMAIN calls \ {c} : calls[d] = turn.calls[d]
      OBVIOUS
    <2> HIDE DEF calls
    <2>3. Alike(x, turn, {"calls"}) /\ x.calls = calls
      BY <1>1 DEF Whole, Alike
    <2> HIDE DEF x
    <2>4. /\ Alike(Disturbed(x), turn, {"calls", "disturbed"}) /\ Disturbed(x).calls = calls
          /\ Disturbed(x).pc = turn.pc /\ Disturbed(x).runs = turn.runs
      BY <2>3, DisturbedAlike DEF Alike
    <2>5. /\ Alike(turn', turn, {"calls", "disturbed", "runs"}) /\ turn'.calls = calls
          /\ turn'.runs = IF turn.pc = "context" THEN turn.runs ELSE turn.runs \cup {<<c, status>>}
      <3>1. CASE turn' = Recorded(x, c, status)
        <4>1. Whole(x) /\ x.pc = turn.pc /\ x.runs = turn.runs
          BY <2>3 DEF Alike
        <4>2. /\ Alike(turn', x, {"runs"})
              /\ turn'.runs = IF turn.pc = "context" THEN turn.runs ELSE turn.runs \cup {<<c, status>>}
          BY <3>1, <4>1, RecordedAlike
        <4> QED BY <2>3, <4>2 DEF Alike
      <3>2. CASE turn' = Recorded(Disturbed(x), c, status)
        <4> DEFINE y == Disturbed(x)
        <4>1. Alike(y, turn, {"calls", "disturbed"}) /\ y.calls = calls /\ y.pc = turn.pc
              /\ y.runs = turn.runs /\ Whole(y)
          BY <2>4 DEF Alike
        <4>2. turn' = Recorded(y, c, status)
          BY <3>2
        <4> HIDE DEF y
        <4>3. /\ Alike(turn', y, {"runs"})
              /\ turn'.runs = IF turn.pc = "context" THEN turn.runs ELSE turn.runs \cup {<<c, status>>}
          BY <4>1, <4>2, RecordedAlike
        <4> QED BY <4>1, <4>3 DEF Alike
      <3> QED BY <2>1, <3>1, <3>2
    <2>6. Ledger(turn')
      BY <1>1, <2>5, LedgerKept DEF Alike, Going, Extra
    <2>7. Typed(turn')
      <3>1. turn'.pc \in Stages /\ \A d \in DOMAIN turn'.calls : turn'.calls[d] \in CallStates
        BY <1>1, <1>2, <2>2, <2>5 DEF Alike, Typed
      <3> QED BY <1>1, <2>5, <3>1, TypesKept DEF Alike
    <2>8. Shown(turn')
      <3>1. CASE turn.pc = "context"
        BY <1>1, <2>5, <3>1 DEF Shown, Alike
      <3>2. CASE turn.pc = "fetch"
        <4>1. /\ turn'.pc = "fetch" /\ turn'.seen = turn.seen /\ turn'.agent = turn.agent
              /\ turn'.step = turn.step /\ turn'.runs = turn.runs \cup {<<c, status>>}
          BY <2>5, <3>2 DEF Alike, Fields
        <4>2. Returned(turn') = IF e = "ok" THEN Returned(turn) \cup {c} ELSE Returned(turn)
          BY <1>2, <2>2, <2>5 DEF Returned
        <4>3. \A d : <<d, "success">> \in turn'.runs <=>
                       <<d, "success">> \in turn.runs \/ (d = c /\ e = "ok")
          BY <1>2, <4>1
        <4>4. Successes(turn') = IF e = "ok" THEN Successes(turn) \cup {c} ELSE Successes(turn)
          <5>1. \A d : d \in Successes(turn') <=> d \in Successes(turn) \/ (d = c /\ e = "ok")
            BY <4>3, SuccessfulRuns
          <5> QED BY <5>1
        <4>5. /\ Successes(turn) = (turn.seen \ Recall) \cup Returned(turn)
              /\ turn.seen \cap Recall \subseteq Recalled(turn.agent)
              /\ Successes(turn) \subseteq Consulted(turn.agent)
              /\ turn.step \in Nat /\ DOMAIN turn.calls \subseteq Consulted(turn.agent)
          BY <1>1, <3>2 DEF Shown
        <4>6. c \in Consulted(turn.agent) /\ DOMAIN turn'.calls \subseteq Consulted(turn.agent)
          BY <2>2, <2>5, <4>5
        <4> QED BY <4>1, <4>2, <4>4, <4>5, <4>6 DEF Shown
      <3> QED BY <1>1, <3>1, <3>2
    <2> QED BY <2>5, <2>6, <2>7, <2>8 DEF Sound, Alike
  <1>3. CASE CallReturns(c)
    BY <1>2, <1>3 DEF CallReturns, CallStates
  <1>4. CASE CallFails(c)
    <2>1. CallErrors(c) \subseteq CallStates \ {"ok"}
      BY DEF CallErrors, CallStates
    <2> QED BY <1>2, <1>4, <2>1 DEF CallFails
  <1> QED BY <1>3, <1>4

LEMMA RaiseGatheredSound ==
  ASSUME NEW t, Whole(t), t.verdict \in Verdicts \cup {NoVerdict, Unavailable}
  PROVE  Sound(RaiseGathered(t))
  BY RaiseSound DEF RaiseGathered

\* No memory and no message is taken for a consultation.
LEMMA NoRecall == \A agent : Consulted(agent) \cap Recall = {}
  BY DEF Consulted, Recall

LEMMA Unrecalled ==
  \A agent : Recalled(agent) \subseteq Recall
  BY DEF Recalled, Recall

\* In both modes: a node asks for nothing else, and hands all of it to the Judge
\* or leaves it to the tool runs.
LEMMA Consultations ==
  ASSUME NEW agent
  PROVE  LET node == AgentNode(agent) IN
         /\ Len(node.groups) \in Nat
         /\ \A i \in 1 .. Len(node.groups) : node.groups[i] \subseteq Consulted(agent)
         /\ node.tools \subseteq Consulted(agent)
         /\ node.grounding = {} \/ node.grounding = Consulted(agent)
  <1>1. CASE agent = "funcionario"
    <2>1. CASE native
      BY <1>1, <2>1 DEF AgentNode, Funcionario, FuncionarioNative, Node, Consulted
    <2>2. CASE ~native
      BY <1>1, <2>2 DEF AgentNode, Funcionario, FuncionarioLegacy, Node, Consulted
    <2> QED BY <2>1, <2>2
  <1>2. CASE agent = "dono"
    <2>1. CASE native
      BY <1>2, <2>1 DEF AgentNode, Dono, DonoNative, Node, Consulted
    <2>2. CASE ~native
      BY <1>2, <2>2 DEF AgentNode, Dono, DonoLegacy, Node, Consulted
    <2> QED BY <2>1, <2>2
  <1>3. CASE agent = "motor_preditivo"
    BY <1>3 DEF AgentNode, Motor, Node, Consulted
  <1>4. CASE agent \notin {"funcionario", "dono", "motor_preditivo"}
    BY <1>4 DEF AgentNode, RagChat, Node, Consulted
  <1> QED BY <1>1, <1>2, <1>3, <1>4

\* The turn before its next group of calls.
Prepared(t) ==
    /\ Whole(t) /\ Ledger(t) /\ Typed(t)
    /\ t.pc \notin {"llm_error", "replied", "end"} /\ Extra(t.pc) = 0
    /\ Successes(t) = t.seen \ Recall /\ Returned(t) = {}
    /\ t.seen \cap Recall \subseteq Recalled(t.agent)
    /\ Successes(t) \subseteq Consulted(t.agent) /\ t.step \in Nat

LEMMA NextGroupSound == ASSUME NEW t, Prepared(t) PROVE Sound(NextGroup(t))
  <1> DEFINE groups == AgentNode(t.agent).groups
             calls == [c \in groups[t.step + 1] |-> "running"]
             a == [t EXCEPT !.pc = "model", !.seen = @ \cup Recalled(t.agent)]
             b == [t EXCEPT !.pc = "fetch", !.step = @ + 1, !.calls = calls]
  <1>1. /\ NextGroup(t) = IF t.step < Len(groups) THEN b ELSE a
        /\ t.step < Len(groups) => DOMAIN calls \subseteq Consulted(t.agent)
    <2>1. Len(groups) \in Nat /\ \A i \in 1 .. Len(groups) : groups[i] \subseteq Consulted(t.agent)
      BY Consultations
    <2>2. NextGroup(t) = IF t.step < Len(groups) THEN b ELSE a
      BY DEF NextGroup
    <2> HIDE DEF groups
    <2>3. t.step < Len(groups) => t.step + 1 \in 1 .. Len(groups)
      BY <2>1 DEF Prepared
    <2> QED BY <2>1, <2>2, <2>3
  <1>2. \A c \in DOMAIN calls : calls[c] = "running"
    OBVIOUS
  <1> HIDE DEF calls
  <1>3. Whole(t) /\ Ledger(t) /\ Typed(t) /\ t.pc \notin {"llm_error", "replied", "end"}
        /\ Extra(t.pc) = 0 /\ Successes(t) = t.seen \ Recall /\ Returned(t) = {}
        /\ t.seen \cap Recall \subseteq Recalled(t.agent)
        /\ Successes(t) \subseteq Consulted(t.agent) /\ t.step \in Nat
    BY DEF Prepared
  <1>4. Alike(a, t, {"pc", "seen"}) /\ a.pc = "model" /\ a.seen = t.seen \cup Recalled(t.agent)
    BY <1>3 DEF Whole, Alike
  <1>5. Alike(b, t, {"pc", "step", "calls"}) /\ b.pc = "fetch" /\ b.calls = calls /\ b.step = t.step + 1
    BY <1>3 DEF Whole, Alike
  <1> HIDE DEF a, b, groups
  <1>6. Sound(a)
    <2>1. Ledger(a)
      BY <1>3, <1>4, LedgerKept DEF Alike, Going, Extra
    <2>2. Typed(a)
      BY <1>3, <1>4, TypesKept DEF Alike, Typed, Stages
    <2>3. Returned(a) = {} /\ Successes(a) = Successes(t) /\ a.agent = t.agent
      BY <1>3, <1>4 DEF Alike, Returned, Successes
    <2>4. a.seen \ Recall = t.seen \ Recall /\ a.seen \cap Recall \subseteq Recalled(t.agent)
      BY <1>3, <1>4, Unrecalled
    <2> QED BY <1>3, <1>4, <2>1, <2>2, <2>3, <2>4 DEF Sound, Alike, Shown
  <1>7. ASSUME t.step < Len(groups) PROVE Sound(b)
    <2>1. Ledger(b)
      BY <1>3, <1>5, LedgerKept DEF Alike, Going, Extra
    <2>2. Typed(b)
      BY <1>2, <1>3, <1>5, TypesKept DEF Alike, CallStates, Stages
    <2>3. Returned(b) = {} /\ Successes(b) = Successes(t) /\ b.seen = t.seen /\ b.agent = t.agent
      BY <1>2, <1>3, <1>5 DEF Alike, Returned, Successes
    <2>4. b.step \in Nat /\ DOMAIN b.calls \subseteq Consulted(t.agent)
      BY <1>1, <1>3, <1>5, <1>7
    <2> QED BY <1>3, <1>5, <2>1, <2>2, <2>3, <2>4 DEF Sound, Alike, Shown
  <1> QED BY <1>1, <1>6, <1>7

LEMMA LoadContextSound == ASSUME SoundInv, LoadContext PROVE Sound(turn')
  <1> DEFINE a == [turn EXCEPT !.pc = "supervisor", !.calls = <<>>]
  <1>1. /\ turn.pc = "context" /\ Whole(turn) /\ Ledger(turn) /\ Shown(turn) /\ Typed(turn)
        /\ turn.verdict \in Verdicts \cup {NoVerdict, Unavailable}
    BY Unjudged DEF LoadContext
  <1>2. turn' = a \/ turn' = RaiseGathered(turn)
    BY DEF LoadContext
  <1>3. Alike(a, turn, {"pc", "calls"}) /\ a.pc = "supervisor" /\ a.calls = <<>>
    BY <1>1 DEF Whole, Alike
  <1> HIDE DEF a
  <1>4. Ledger(a)
    BY <1>1, <1>3, LedgerKept DEF Alike, Going, Extra
  <1>5. Shown(a)
    BY <1>1, <1>3 DEF Shown, Alike, Returned
  <1>6. Typed(a)
    BY <1>1, <1>3, TypesKept DEF Alike, Stages
  <1> QED BY <1>1, <1>2, <1>3, <1>4, <1>5, <1>6, RaiseGatheredSound DEF Sound, Alike

LEMMA FetchedSound == ASSUME SoundInv, Fetched PROVE Sound(turn')
  <1> DEFINE x == Inlined(turn)
             y == [x EXCEPT !.step = @ + 1]
  <1>1. /\ turn.pc = "fetch" /\ Whole(turn) /\ Ledger(turn) /\ Shown(turn) /\ Typed(turn)
        /\ turn.verdict \in Verdicts \cup {NoVerdict, Unavailable}
    BY Unjudged DEF Fetched
  <1>2. /\ Alike(x, turn, {"seen", "calls"})
        /\ x.seen = turn.seen \cup Returned(turn) /\ x.calls = <<>>
    BY <1>1 DEF Inlined, Whole, Alike, Returned
  <1>3. turn' = RaiseGathered(turn) \/ turn' = NextGroup(x) \/ turn' = NextGroup(y)
    BY DEF Fetched
  <1> HIDE DEF x
  <1>4. /\ Alike(y, turn, {"seen", "calls", "step"}) /\ y.seen = x.seen /\ y.calls = x.calls
        /\ y.step = x.step + 1
    BY <1>2 DEF Whole, Alike
  <1> HIDE DEF y
  <1>5. ASSUME NEW u, u = x \/ u = y PROVE Prepared(u)
    <2>1. /\ Alike(u, turn, {"seen", "calls", "step"})
          /\ u.seen = turn.seen \cup Returned(turn) /\ u.calls = <<>>
      BY <1>2, <1>4, <1>5 DEF Alike
    <2>2. Ledger(u) /\ u.pc = "fetch"
      BY <1>1, <2>1, LedgerKept DEF Alike, Going, Extra
    <2>3. Typed(u)
      BY <1>1, <2>1, TypesKept DEF Alike, Stages
    <2>4. /\ Returned(u) = {} /\ Successes(u) = Successes(turn) /\ u.agent = turn.agent
      BY <2>1 DEF Alike, Returned, Successes
    <2>5. /\ Successes(turn) = (turn.seen \ Recall) \cup Returned(turn)
          /\ turn.seen \cap Recall \subseteq Recalled(turn.agent)
          /\ Successes(turn) \subseteq Consulted(turn.agent)
          /\ Returned(turn) \subseteq Consulted(turn.agent) /\ turn.step \in Nat
      BY <1>1 DEF Shown, Returned
    <2>6. u.seen \ Recall = Successes(turn) /\ u.seen \cap Recall = turn.seen \cap Recall
      BY <2>1, <2>5, NoRecall
    <2>7. u.step \in Nat
      BY <1>2, <1>4, <1>5, <2>5 DEF Alike
    <2> QED BY <2>1, <2>2, <2>3, <2>4, <2>5, <2>6, <2>7 DEF Prepared, Alike, Extra
  <1> QED BY <1>1, <1>3, <1>5, RaiseGatheredSound, NextGroupSound

LEMMA RoutedSound ==
  ASSUME NEW t, Prepared(t), t.seen = {}, t.runs = {}, NEW intents
  PROVE  Sound(Routed(t, intents))
  <1> DEFINE found == IF t.role \in DOMAIN RoleToIntentAgents
                      THEN MatchIntent(t.role, t.text, intents) ELSE {}
             agent == IF found = {} THEN RoleToDefaultAgent[t.role] ELSE CHOOSE a \in found : TRUE
             u == [t EXCEPT !.text = "routed", !.agent = agent]
  <1>1. Routed(t, intents) = NextGroup(u)
    BY DEF Routed
  <1> HIDE DEF agent
  <1>2. Alike(u, t, {"text", "agent"}) /\ u.text = "routed"
    BY DEF Prepared, Whole, Alike
  <1> HIDE DEF u
  <1>3. Ledger(u)
    BY <1>2, LedgerKept DEF Prepared, Alike, Going
  <1>4. Typed(u)
    BY <1>2 DEF Prepared, Typed, Alike, Texts
  <1>5. Returned(u) = {} /\ Successes(u) = {} /\ u.seen = {}
    BY <1>2 DEF Prepared, Alike, Returned, Successes
  <1>6. Prepared(u)
    BY <1>2, <1>3, <1>4, <1>5 DEF Prepared, Alike
  <1> QED BY <1>1, <1>6, NextGroupSound

LEMMA RoutingSound == ASSUME SoundInv, SupervisorRoute \/ GetActiveIntents PROVE Sound(turn')
  <1> DEFINE a == [turn EXCEPT !.pc = "lookup"]
  <1>1. /\ turn.pc \in {"supervisor", "lookup"} /\ Whole(turn) /\ Ledger(turn) /\ Shown(turn)
        /\ Typed(turn)
    BY Unjudged DEF SupervisorRoute, GetActiveIntents
  <1>2. Alike(a, turn, {"pc"}) /\ a.pc = "lookup"
    BY <1>1 DEF Whole, Alike
  <1>3. turn' = a \/ \E intents : turn' = Routed(turn, intents)
    BY DEF SupervisorRoute, GetActiveIntents
  <1> HIDE DEF a
  <1>4. Sound(a)
    <2>1. Ledger(a)
      BY <1>1, <1>2, LedgerKept DEF Alike, Going, Extra
    <2>2. Shown(a)
      BY <1>1, <1>2 DEF Shown, Alike, Returned
    <2>3. Typed(a)
      BY <1>1, <1>2 DEF Typed, Alike, Stages
    <2> QED BY <1>2, <2>1, <2>2, <2>3 DEF Sound, Alike
  <1>5. Prepared(turn) /\ turn.seen = {} /\ turn.runs = {}
    BY <1>1 DEF Prepared, Shown, Extra, Successes
  <1> QED BY <1>3, <1>4, <1>5, RoutedSound

-----------------------------------------------------------------------------
(* The same for the model, the Judge, the saves and the records *)

LEMMA BilledAlike ==
  ASSUME NEW t, Whole(t)
  PROVE  /\ Alike(Billed(t), t, {"billed", "usage"})
         /\ Billed(t).billed = t.billed + 1 /\ Billed(t).usage = t.usage + 1
  BY DEF Billed, Alike, Whole

\* A model call is billed to the stage it leads to.
LEMMA LedgerBilled ==
  ASSUME NEW t, Ledger(t), t.pc \notin {"llm_error", "replied", "end"}, NEW u,
         Alike(u, t, Going \cup {"billed", "usage", "rounds"}),
         u.pc \notin {"llm_error", "replied", "end"},
         u.usage = u.billed, u.billed \in {t.billed, t.billed + 1},
         u.rounds \in 0 .. MaxIterations, u.rounds >= t.rounds,
         u.rounds + Extra(u.pc) >= t.rounds + Extra(t.pc) + 1
  PROVE  Ledger(u)
  <1>1. /\ u.final = t.final /\ u.rejected = t.rejected /\ u.records = t.records
    BY DEF Alike, Going
  <1>2. Extra(t.pc) \in Nat /\ Extra(u.pc) \in Nat
    BY DEF Extra
  <1>3. u.billed \in Nat /\ u.billed <= u.rounds + Extra(u.pc)
    BY <1>2, ChatAssumption DEF Ledger
  <1> QED BY <1>1, <1>3 DEF Ledger

LEMMA AskModelSound == ASSUME SoundInv, AskModel PROVE Sound(turn')
  <1> DEFINE x == Billed(turn)
  <1>1. /\ turn.pc = "model" /\ Whole(turn) /\ Ledger(turn) /\ Shown(turn) /\ Typed(turn)
        /\ turn.verdict \in Verdicts \cup {NoVerdict, Unavailable}
    BY Unjudged DEF AskModel
  <1>2. /\ Alike(x, turn, {"billed", "usage"}) /\ Whole(x)
        /\ x.billed = turn.billed + 1 /\ x.usage = turn.usage + 1 /\ x.rounds = turn.rounds
    BY <1>1, BilledAlike DEF Alike
  <1>3. \/ turn' = [x EXCEPT !.pc = "juiz"]
        \/ /\ turn.rounds < MaxIterations
           /\ \E asked \in SUBSET (Consulted(turn.agent) \cup {"unknown"}) :
                turn' = [x EXCEPT !.pc = "tools", !.rounds = @ + 1, !.asked = asked]
        \/ \E e : turn' = Raise(Disturbed(turn), e)
    BY Consultations DEF AskModel
  <1> HIDE DEF x
  <1>4. ASSUME \/ turn' = [x EXCEPT !.pc = "juiz"]
               \/ /\ turn.rounds < MaxIterations
                  /\ \E asked \in SUBSET (Consulted(turn.agent) \cup {"unknown"}) :
                       turn' = [x EXCEPT !.pc = "tools", !.rounds = @ + 1, !.asked = asked]
        PROVE  Sound(turn')
    <2>1. /\ Alike(turn', x, {"pc", "rounds", "asked"})
          /\ \/ turn'.pc = "juiz" /\ turn'.rounds = x.rounds
             \/ /\ turn'.pc = "tools" /\ turn'.rounds = x.rounds + 1 /\ turn.rounds < MaxIterations
                /\ turn'.asked \subseteq Consulted(turn.agent) \cup {"unknown"}
      BY <1>2, <1>4 DEF Whole, Alike
    <2>2. /\ Alike(turn', turn, {"pc", "rounds", "asked", "billed", "usage"})
          /\ turn'.billed = turn.billed + 1 /\ turn'.usage = turn.usage + 1
          /\ \/ turn'.pc = "juiz" /\ turn'.rounds = turn.rounds
             \/ /\ turn'.pc = "tools" /\ turn'.rounds = turn.rounds + 1 /\ turn.rounds < MaxIterations
                /\ turn'.asked \subseteq Consulted(turn.agent) \cup {"unknown"}
      BY <1>2, <2>1 DEF Alike
    <2>3. Ledger(turn')
      <3>1. Alike(turn', turn, Going \cup {"billed", "usage", "rounds"})
        BY <2>2 DEF Alike, Going
      <3>2. turn'.usage = turn'.billed /\ turn'.billed \in {turn.billed, turn.billed + 1}
        BY <1>1, <2>2 DEF Ledger
      <3>3. /\ turn'.rounds \in 0 .. MaxIterations /\ turn'.rounds >= turn.rounds
            /\ turn'.rounds + Extra(turn'.pc) >= turn.rounds + Extra(turn.pc) + 1
        BY <1>1, <2>2, ChatAssumption DEF Ledger, Extra
      <3> QED BY <1>1, <2>2, <3>1, <3>2, <3>3, LedgerBilled
    <2>4. Shown(turn')
      BY <1>1, <2>2 DEF Shown, Alike, Returned, Successes
    <2>5. Typed(turn')
      <3>1. turn'.pc \in Stages /\ turn'.calls = turn.calls
        BY <2>2 DEF Alike, Stages
      <3>2. \A c \in DOMAIN turn'.calls : turn'.calls[c] \in CallStates
        BY <1>1, <3>1 DEF Typed
      <3>3. Alike(turn', turn, {"pc", "calls", "step", "agent", "role", "seen", "runs",
              "ran", "rounds", "asked", "billed", "usage", "rejected", "disturbed", "tokens"})
        BY <2>2 DEF Alike
      <3> QED BY <1>1, <3>1, <3>2, <3>3, TypesKept
    <2> QED BY <2>2, <2>3, <2>4, <2>5 DEF Sound, Alike
  <1>5. CASE \E e : turn' = Raise(Disturbed(turn), e)
    BY <1>1, <1>5, DisturbedRaised
  <1> QED BY <1>3, <1>4, <1>5

\* What a tool returned goes to the model and into the tool runs, or to neither.
LEMMA RunToolSound == ASSUME SoundInv, NEW c \in turn.asked, RunTool(c) PROVE Sound(turn')
  <1> DEFINE rest == [turn EXCEPT !.asked = @ \ {c},
                                  !.pc = IF turn.asked = {c} THEN "model" ELSE "tools"]
             more == [rest EXCEPT !.seen = @ \cup {c}]
             ill == Disturbed(rest)
  <1>1. /\ turn.pc = "tools" /\ Whole(turn) /\ Ledger(turn) /\ Shown(turn) /\ Typed(turn)
    BY Unjudged DEF RunTool
  <1>2. \/ turn' = rest
        \/ c # "unknown" /\ turn' = Recorded(more, c, "success")
        \/ turn' = Recorded(ill, c, "error")
    BY DEF RunTool
  <1>3. /\ Alike(rest, turn, {"asked", "pc"}) /\ Whole(rest) /\ rest.pc \in {"model", "tools"}
        /\ rest.seen = turn.seen /\ rest.runs = turn.runs /\ rest.asked \subseteq turn.asked
    BY <1>1 DEF Whole, Alike
  <1> HIDE DEF rest
  <1>4. /\ Alike(more, turn, {"asked", "pc", "seen"}) /\ Whole(more) /\ more.pc = rest.pc
        /\ more.seen = turn.seen \cup {c} /\ more.runs = turn.runs /\ more.asked = rest.asked
    BY <1>3 DEF Whole, Alike
  <1> HIDE DEF more
  <1>5. /\ Alike(ill, turn, {"asked", "pc", "disturbed"}) /\ Whole(ill) /\ ill.pc = rest.pc
        /\ ill.seen = turn.seen /\ ill.runs = turn.runs /\ ill.asked = rest.asked
    BY <1>3, DisturbedAlike DEF Alike
  <1> HIDE DEF ill
  <1>6. /\ Alike(turn', turn, {"asked", "pc", "seen", "runs", "disturbed"})
        /\ turn'.pc \in {"model", "tools"} /\ turn'.asked \subseteq turn.asked
        /\ \/ turn'.seen = turn.seen /\ turn'.runs = turn.runs
           \/ /\ turn'.seen = turn.seen \cup {c} /\ turn'.runs = turn.runs \cup {<<c, "success">>}
              /\ c # "unknown"
           \/ turn'.seen = turn.seen /\ turn'.runs = turn.runs \cup {<<c, "error">>}
    <2>1. CASE turn' = rest
      BY <1>3, <2>1 DEF Alike
    <2>2. CASE c # "unknown" /\ turn' = Recorded(more, c, "success")
      <3>1. Alike(turn', more, {"runs"}) /\ turn'.runs = turn.runs \cup {<<c, "success">>}
        <4>1. /\ Alike(turn', more, {"runs"})
              /\ turn'.runs = IF more.pc = "context" THEN more.runs ELSE more.runs \cup {<<c, "success">>}
          BY <1>4, <2>2, RecordedAlike
        <4> QED BY <1>3, <1>4, <4>1
      <3> QED BY <1>3, <1>4, <2>2, <3>1 DEF Alike
    <2>3. CASE turn' = Recorded(ill, c, "error")
      <3>1. Alike(turn', ill, {"runs"}) /\ turn'.runs = turn.runs \cup {<<c, "error">>}
        <4>1. /\ Alike(turn', ill, {"runs"})
              /\ turn'.runs = IF ill.pc = "context" THEN ill.runs ELSE ill.runs \cup {<<c, "error">>}
          BY <1>5, <2>3, RecordedAlike
        <4> QED BY <1>3, <1>5, <4>1
      <3> QED BY <1>3, <1>5, <3>1 DEF Alike
    <2> QED BY <1>2, <2>1, <2>2, <2>3
  <1>7. Ledger(turn')
    BY <1>1, <1>6, LedgerKept DEF Alike, Going, Extra
  <1>8. Typed(turn')
    <2>1. turn'.pc \in Stages /\ turn'.calls = turn.calls
      BY <1>6 DEF Alike, Stages
    <2>2. \A d \in DOMAIN turn'.calls : turn'.calls[d] \in CallStates
      BY <1>1, <2>1 DEF Typed
    <2>3. Alike(turn', turn, {"pc", "calls", "step", "agent", "role", "seen", "runs",
            "ran", "rounds", "asked", "billed", "usage", "rejected", "disturbed", "tokens"})
      BY <1>6 DEF Alike
    <2> QED BY <1>1, <2>1, <2>2, <2>3, TypesKept
  <1>9. Shown(turn')
    <2>1. /\ Returned(turn') = {} /\ Returned(turn) = {} /\ Successes(turn) = turn.seen \ Recall
          /\ turn.seen \cap Recall \subseteq Recalled(turn.agent)
          /\ Successes(turn) \subseteq Consulted(turn.agent)
          /\ turn.asked \subseteq Consulted(turn.agent) \cup {"unknown"}
          /\ turn'.agent = turn.agent
      BY <1>1, <1>6 DEF Shown, Alike, Returned
    <2>2. \A d : <<d, "success">> \in turn'.runs <=>
                   <<d, "success">> \in turn.runs \/ (d = c /\ <<c, "success">> \in turn'.runs)
      BY <1>6
    <2>3. /\ Successes(turn') = turn'.seen \ Recall
          /\ turn'.seen \cap Recall = turn.seen \cap Recall
          /\ Successes(turn') \subseteq Consulted(turn.agent)
      <3>1. CASE turn'.seen = turn.seen /\ turn'.runs = turn.runs
        BY <2>1, <3>1 DEF Successes
      <3>2. CASE /\ turn'.seen = turn.seen \cup {c} /\ turn'.runs = turn.runs \cup {<<c, "success">>}
                 /\ c # "unknown"
        <4>1. \A d : d \in Successes(turn') <=> d \in Successes(turn) \/ d = c
          BY <2>2, <3>2, SuccessfulRuns
        <4>2. c \in Consulted(turn.agent) /\ c \notin Recall
          BY <2>1, <3>2, NoRecall
        <4> QED BY <2>1, <3>2, <4>1, <4>2
      <3>3. CASE turn'.seen = turn.seen /\ turn'.runs = turn.runs \cup {<<c, "error">>}
        <4>1. \A d : <<d, "success">> # <<c, "error">>
          OBVIOUS
        <4>2. \A d : d \in Successes(turn') <=> d \in Successes(turn)
          BY <3>3, <4>1, SuccessfulRuns
        <4> QED BY <2>1, <3>3, <4>2
      <3> QED BY <1>6, <3>1, <3>2, <3>3
    <2>4. turn'.asked \subseteq Consulted(turn.agent) \cup {"unknown"}
      BY <1>6, <2>1
    <2> QED BY <1>6, <2>1, <2>3, <2>4 DEF Shown
  <1> QED BY <1>6, <1>7, <1>8, <1>9 DEF Sound, Alike

LEMMA AdoptedAlike ==
  ASSUME NEW t, Whole(t), NEW v
  PROVE  /\ Alike(Adopted(t, v), t, {"verdict", "pc", "seen", "runs", "ran"})
         /\ Adopted(t, v).verdict = v /\ Adopted(t, v).pc = "evaluated"
  BY DEF Adopted, Alike, Whole

\* An evaluation is billed once at most, and of what the Judge accepts.
LEMMA EvaluationsAlike ==
  ASSUME NEW t, Whole(t), Ledger(t), NEW e \in Evaluations(t)
  PROVE  /\ Alike(e.t, t, {"billed", "usage", "disturbed"})
         /\ e.t.usage = e.t.billed /\ e.t.billed \in {t.billed, t.billed + 1}
         /\ e.v \in Verdicts \cup {NoVerdict, Unavailable}
  <1>1. /\ e.v \in Verdicts \cup {NoVerdict, Unavailable}
        /\ e.t = Billed(t) \/ e.t = Disturbed(t) \/ e.t = Disturbed(Billed(t))
    BY DEF Evaluations
  <1> DEFINE b == Billed(t)
  <1>2. /\ Alike(b, t, {"billed", "usage"}) /\ Whole(b)
        /\ b.billed = t.billed + 1 /\ b.usage = t.usage + 1
    BY BilledAlike DEF Alike
  <1> HIDE DEF b
  <1>3. Alike(Disturbed(t), t, {"disturbed"}) /\ Alike(Disturbed(b), b, {"disturbed"})
    BY <1>2, DisturbedAlike
  <1>4. e.t = b \/ e.t = Disturbed(t) \/ e.t = Disturbed(b)
    BY <1>1 DEF b
  <1>5. t.usage = t.billed
    BY DEF Ledger
  <1> QED BY <1>1, <1>2, <1>3, <1>4, <1>5 DEF Alike

LEMMA EvaluationSound == ASSUME SoundInv, FirstEvaluation \/ SecondEvaluation PROVE Sound(turn')
  <1>1. /\ turn.pc \in {"juiz", "juiz_retry"} /\ Whole(turn) /\ Ledger(turn) /\ Shown(turn)
        /\ Typed(turn) /\ turn.verdict \in Verdicts \cup {NoVerdict, Unavailable}
    BY Unjudged DEF FirstEvaluation, SecondEvaluation
  <1>2. PICK e \in Evaluations(turn) :
          \/ \E v \in {e.v, turn.verdict} : turn' = Adopted(e.t, v)
          \/ turn' = [e.t EXCEPT !.verdict = e.v, !.pc = "juiz_retry"] /\ turn.pc = "juiz"
    BY DEF FirstEvaluation, SecondEvaluation
  <1> DEFINE s == e.t
             w == e.v
  <1>3. /\ Alike(s, turn, {"billed", "usage", "disturbed"}) /\ Whole(s)
        /\ s.usage = s.billed /\ s.billed \in {turn.billed, turn.billed + 1}
        /\ w \in Verdicts \cup {NoVerdict, Unavailable}
    BY <1>1, EvaluationsAlike DEF Alike
  <1>4. \/ \E v \in {w, turn.verdict} : turn' = Adopted(s, v)
        \/ turn' = [s EXCEPT !.verdict = w, !.pc = "juiz_retry"] /\ turn.pc = "juiz"
    BY <1>2
  <1> HIDE DEF s, w
  <1>5. /\ Alike(turn', s, {"verdict", "pc", "seen", "runs", "ran"})
        /\ turn'.verdict \in Verdicts \cup {NoVerdict, Unavailable}
        /\ \/ turn'.pc = "evaluated"
           \/ turn'.pc = "juiz_retry" /\ turn.pc = "juiz" /\ turn'.seen = s.seen /\ turn'.runs = s.runs
    <2>1. CASE \E v \in {w, turn.verdict} : turn' = Adopted(s, v)
      BY <1>1, <1>3, <2>1, AdoptedAlike
    <2>2. CASE turn' = [s EXCEPT !.verdict = w, !.pc = "juiz_retry"] /\ turn.pc = "juiz"
      BY <1>3, <2>2 DEF Alike, Whole
    <2> QED BY <1>4, <2>1, <2>2
  <1>6. /\ Alike(turn', turn, {"verdict", "pc", "seen", "runs", "ran", "billed", "usage", "disturbed"})
        /\ turn'.usage = turn'.billed /\ turn'.billed \in {turn.billed, turn.billed + 1}
        /\ \/ turn'.pc = "evaluated"
           \/ /\ turn'.pc = "juiz_retry" /\ turn.pc = "juiz"
              /\ turn'.seen = turn.seen /\ turn'.runs = turn.runs
    BY <1>3, <1>5 DEF Alike
  <1>7. Ledger(turn')
    <2>1. Alike(turn', turn, Going \cup {"billed", "usage", "rounds"}) /\ turn'.rounds = turn.rounds
      BY <1>6 DEF Alike, Going
    <2>2. /\ turn'.rounds \in 0 .. MaxIterations /\ turn'.rounds >= turn.rounds
          /\ turn'.rounds + Extra(turn'.pc) >= turn.rounds + Extra(turn.pc) + 1
      BY <1>1, <1>6, <2>1, ChatAssumption DEF Ledger, Extra
    <2> QED BY <1>1, <1>6, <2>1, <2>2, LedgerBilled
  <1>8. Shown(turn')
    BY <1>1, <1>6 DEF Shown, Alike, Returned, Successes
  <1>9. Typed(turn')
    <2>1. /\ turn'.text = turn.text /\ turn'.calls = turn.calls /\ turn'.final = turn.final
          /\ turn'.active = turn.active /\ turn'.saved = turn.saved /\ turn'.todo = turn.todo
          /\ turn'.reply = turn.reply /\ turn'.records = turn.records /\ turn'.status = turn.status
      BY <1>6 DEF Alike
    <2>2. turn'.pc \in Stages
      BY <1>6 DEF Stages
    <2> QED BY <1>1, <1>5, <2>1, <2>2 DEF Typed
  <1> QED BY <1>6, <1>7, <1>8, <1>9 DEF Sound, Alike

\* What leads to the answer, and every later stage, adds nothing to the bill.
LEMMA LedgerSettled ==
  ASSUME NEW t, Ledger(t), t.pc \notin {"llm_error", "replied"}, NEW u,
         Alike(u, t, Going \cup {"final", "rejected"}), u.pc \notin {"llm_error", "replied"},
         Extra(t.pc) <= Extra(u.pc), ~u.rejected, u.final # "refusal"
  PROVE  Ledger(u)
  <1>1. /\ u.usage = t.usage /\ u.billed = t.billed /\ u.rounds = t.rounds /\ u.records = t.records
    BY DEF Alike, Going
  <1>2. Extra(t.pc) \in Nat /\ Extra(u.pc) \in Nat
    BY DEF Extra
  <1> QED BY <1>1, <1>2, ChatAssumption DEF Ledger

\* Behind the Judge the calls and tool runs are done.
LEMMA ShownLate ==
  ASSUME NEW t, Shown(t), t.pc \notin {"context", "fetch"}, NEW u, u.calls = t.calls,
         u.pc \in {"evaluated", "guardrail_saida", "save", "end", "replied", "llm_error"}
  PROVE  Shown(u)
  BY DEF Shown, Returned

LEMMA SaveEvaluationSound == ASSUME SoundInv, SaveEvaluation PROVE Sound(turn')
  <1> DEFINE final == IF Approved(turn.verdict) THEN "answer" ELSE "fallback"
             a == [turn EXCEPT !.pc = "guardrail_saida", !.saved = <<"evaluation">>, !.final = final]
  <1>1. /\ turn.pc = "evaluated" /\ Whole(turn) /\ Ledger(turn) /\ Shown(turn) /\ Typed(turn)
        /\ turn.verdict \in Verdicts \cup {NoVerdict, Unavailable}
    BY Unjudged DEF SaveEvaluation
  <1>2. turn' = a \/ turn' = Raise(turn, "other")
    BY DEF SaveEvaluation
  <1>3. final \in {"answer", "fallback"}
    OBVIOUS
  <1> HIDE DEF final
  <1>4. /\ Alike(a, turn, {"pc", "saved", "final"}) /\ a.pc = "guardrail_saida" /\ a.final = final
        /\ a.saved = <<"evaluation">>
    BY <1>1 DEF Whole, Alike
  <1> HIDE DEF a
  <1>5. Sound(a)
    <2>1. Ledger(a)
      BY <1>1, <1>3, <1>4, LedgerSettled DEF Ledger, Alike, Going, Extra
    <2>2. Shown(a)
      BY <1>1, <1>4, ShownLate DEF Alike
    <2>3. Typed(a)
      <3>1. <<"evaluation">> \in Seq(Writes)
        BY DEF Writes
      <3>2. a.saved \in Seq(Writes)
        BY <1>4, <3>1
      <3> QED BY <1>1, <1>3, <1>4, <3>2 DEF Typed, Alike, Stages
    <2> QED BY <1>4, <2>1, <2>2, <2>3 DEF Sound, Alike
  <1> QED BY <1>1, <1>2, <1>5, RaiseSound

LEMMA NodeGuardrailSaidaSound == ASSUME SoundInv, NodeGuardrailSaida PROVE Sound(turn')
  <1>1. /\ turn.pc = "guardrail_saida" /\ Whole(turn) /\ Ledger(turn) /\ Shown(turn) /\ Typed(turn)
    BY DEF SoundInv, Sound, NodeGuardrailSaida
  <1>2. PICK out, todo : /\ out \in GuardrailSaida(turn.final)
                         /\ turn' = [turn EXCEPT !.pc = "save", !.final = out, !.todo = todo]
    BY DEF NodeGuardrailSaida
  <1>3. Alike(turn', turn, {"pc", "final", "todo"}) /\ turn'.pc = "save" /\ turn'.final = out
    BY <1>1, <1>2 DEF Whole, Alike
  <1>4. out \in {turn.final, "fallback"}
    BY <1>2 DEF GuardrailSaida
  <1>5. turn'.saved \in Seq(Writes) /\ turn'.todo \in Seq(Writes)
    BY <1>3, NodeGuardrailSaidaStep DEF SoundInv, IInv, Good, Backed
  <1>6. Ledger(turn')
    BY <1>1, <1>3, <1>4, LedgerSettled DEF Ledger, Alike, Going, Extra
  <1>7. Shown(turn')
    BY <1>1, <1>3, ShownLate DEF Alike
  <1>8. turn'.todo \in Seq(Writes \cup Tasks)
    BY <1>5
  <1>9. Typed(turn')
    <2>1. /\ turn'.text = turn.text /\ turn'.calls = turn.calls /\ turn'.verdict = turn.verdict
          /\ turn'.reply = turn.reply /\ turn'.records = turn.records /\ turn'.status = turn.status
          /\ turn'.active = turn.active
      BY <1>3 DEF Alike
    <2>2. turn'.final \in {"none", "refusal", "answer", "fallback"}
      BY <1>1, <1>3, <1>4 DEF Typed
    <2> QED BY <1>1, <1>3, <1>5, <1>8, <2>1, <2>2 DEF Typed, Stages
  <1> QED BY <1>3, <1>6, <1>7, <1>9 DEF Sound, Alike

LEMMA SaveSound == ASSUME SoundInv, SaveMessage \/ UpdateMemory \/ Saved PROVE Sound(turn')
  <1>1. /\ turn.pc = "save" /\ Whole(turn) /\ Ledger(turn) /\ Shown(turn) /\ Typed(turn)
    BY DEF SoundInv, Sound, SaveMessage, UpdateMemory, Saved
  <1>2. /\ Alike(turn', turn, {"pc", "saved", "todo"})
        /\ \/ turn'.pc = "save"
           \/ turn'.pc = "end" /\ turn'.saved = turn.saved /\ turn'.todo = turn.todo
    <2>1. CASE SaveMessage \/ UpdateMemory
      <3>1. PICK saved : turn' = [turn EXCEPT !.saved = saved, !.todo = Tail(@)]
        BY <2>1 DEF SaveMessage, UpdateMemory
      <3> QED BY <1>1, <3>1 DEF Whole, Alike
    <2>2. CASE Saved
      BY <1>1, <2>2 DEF Saved, Whole, Alike
    <2> QED BY <2>1, <2>2
  <1>3. turn'.saved \in Seq(Writes) /\ turn'.todo \in Seq(Writes \cup Tasks)
    <2>1. CASE turn'.pc = "save"
      <3>1. turn'.saved \in Seq(Writes) /\ turn'.todo \in Seq(Writes)
        BY <2>1, SaveStep, SavedStep DEF SoundInv, IInv, Good, Backed
      <3> QED BY <3>1
    <2>2. CASE turn'.pc # "save"
      BY <1>1, <1>2, <2>2 DEF Typed
    <2> QED BY <2>1, <2>2
  <1>4. Ledger(turn')
    BY <1>1, <1>2, LedgerKept DEF Alike, Going, Extra
  <1>5. Shown(turn')
    <2>1. turn'.calls = turn.calls
      BY <1>2 DEF Alike
    <2>2. Shown(turn) /\ turn.pc = "save" /\ turn'.pc \in {"save", "end"}
      BY <1>1, <1>2
    <2> QED BY <2>1, <2>2, ShownLate
  <1>6. Typed(turn')
    <2>1. /\ turn'.text = turn.text /\ turn'.calls = turn.calls /\ turn'.verdict = turn.verdict
          /\ turn'.final = turn.final /\ turn'.reply = turn.reply /\ turn'.records = turn.records
          /\ turn'.status = turn.status /\ turn'.active = turn.active
      BY <1>2 DEF Alike
    <2>2. turn'.pc \in Stages
      BY <1>2 DEF Stages
    <2> QED BY <1>1, <1>3, <2>1, <2>2 DEF Typed
  <1> QED BY <1>2, <1>4, <1>5, <1>6 DEF Sound, Alike

LEMMA FailureSound == ASSUME SoundInv, WriteFails \/ ChatTimeout PROVE Sound(turn')
  <1> DEFINE x == Disturbed(turn)
             y == [x EXCEPT !.calls = <<>>]
  <1>1. Whole(turn) /\ turn.verdict \in Verdicts \cup {NoVerdict, Unavailable}
    BY DEF SoundInv, Sound, Typed
  <1>2. Whole(x) /\ x.verdict = turn.verdict
    BY <1>1, DisturbedAlike DEF Alike
  <1>3. turn' = Raise(x, "other") \/ turn' = Raise(y, "timeout")
    BY DEF WriteFails, ChatTimeout
  <1> HIDE DEF x
  <1>4. Whole(y) /\ y.verdict = turn.verdict
    BY <1>2 DEF Whole
  <1> HIDE DEF y
  <1> QED BY <1>1, <1>2, <1>3, <1>4, RaiseSound

LEMMA ReplySound == ASSUME SoundInv, Reply PROVE Sound(turn')
  <1> DEFINE todo == <<"execution", "metrics", "tool_runs", "routing", "policy">>
  <1>1. /\ turn.pc = "end" /\ Whole(turn) /\ Ledger(turn) /\ Shown(turn) /\ Typed(turn)
        /\ turn' = [turn EXCEPT !.pc = "replied", !.reply = 200, !.todo = todo]
    BY DEF SoundInv, Sound, Reply
  <1>2. todo \in Seq(Writes \cup Tasks)
    BY DEF Tasks
  <1> HIDE DEF todo
  <1>3. /\ Alike(turn', turn, {"pc", "reply", "todo"})
        /\ turn'.pc = "replied" /\ turn'.reply = 200 /\ turn'.todo = todo
    BY <1>1 DEF Whole, Alike
  <1>4. Ledger(turn')
    <2>1. /\ turn'.usage = turn.usage /\ turn'.billed = turn.billed /\ turn'.rounds = turn.rounds
          /\ turn'.final = turn.final /\ turn'.rejected = turn.rejected /\ turn'.records = turn.records
      BY <1>3 DEF Alike
    <2> QED BY <1>1, <1>3, <2>1 DEF Ledger, Extra
  <1>5. Shown(turn')
    <2>1. turn'.calls = turn.calls
      BY <1>3 DEF Alike
    <2>2. Shown(turn) /\ turn.pc = "end" /\ turn'.pc = "replied"
      BY <1>1, <1>3
    <2> QED BY <2>1, <2>2, ShownLate
  <1>6. Typed(turn')
    BY <1>1, <1>2, <1>3 DEF Typed, Alike, Stages
  <1> QED BY <1>3, <1>4, <1>5, <1>6 DEF Sound, Alike

\* A turn that failed at the provider reaches its 503 with metrics of an error
\* or none, and leaves nothing to be recorded.
LEMMA LlmErrorSound == ASSUME SoundInv, LlmError PROVE Sound(turn')
  <1>1. /\ turn.pc = "llm_error" /\ Whole(turn) /\ Ledger(turn) /\ Shown(turn) /\ Typed(turn)
    BY DEF SoundInv, Sound, LlmError
  <1>2. \/ Head(turn.todo) = "execution" /\ Tail(turn.todo) = <<"metrics">>
        \/ Head(turn.todo) = "metrics" /\ Tail(turn.todo) = <<>>
    <2>1. turn.todo = <<"execution", "metrics">> \/ turn.todo = <<"metrics">>
      BY <1>1 DEF Ledger
    <2>2. /\ Head(<<"execution", "metrics">>) = "execution"
          /\ Tail(<<"execution", "metrics">>) = <<"metrics">>
      OBVIOUS
    <2>3. Head(<<"metrics">>) = "metrics" /\ Tail(<<"metrics">>) = <<>>
      OBVIOUS
    <2> QED BY <2>1, <2>2, <2>3, Zenon
  <1>3. /\ Alike(turn', turn, {"pc", "reply", "todo", "records", "status", "tokens"})
        /\ turn'.records \subseteq Tasks /\ turn'.status \in {"none", "error", "completed"}
        /\ \/ /\ turn'.pc = "llm_error" /\ turn'.reply = turn.reply /\ turn'.todo = <<"metrics">>
              /\ "metrics" \notin turn'.records
           \/ /\ turn'.pc = "replied" /\ turn'.reply \in {500, 503} /\ turn'.todo = <<>>
              /\ "metrics" \in turn'.records => turn'.status = "error"
    <2>1. /\ "metrics" \notin turn.records /\ turn.records \subseteq Tasks
          /\ turn.status \in {"none", "error", "completed"}
      BY <1>1 DEF Ledger, Typed
    <2>2. CASE /\ Head(turn.todo) = "execution"
               /\ turn' = [turn EXCEPT !.records = @ \cup {"execution"}, !.todo = Tail(@)]
      <3>1. /\ Alike(turn', turn, {"records", "todo"})
            /\ turn'.records = turn.records \cup {"execution"} /\ turn'.todo = Tail(turn.todo)
        BY <1>1, <2>2 DEF Whole, Alike
      <3>2. turn'.todo = <<"metrics">>
        BY <1>2, <2>2, <3>1
      <3> QED BY <1>1, <2>1, <3>1, <3>2 DEF Alike, Tasks
    <2>3. CASE /\ Head(turn.todo) = "metrics"
               /\ turn' = [Metrics(turn, "error", 0) EXCEPT !.pc = "replied", !.reply = StatusOf("llm")]
      <3>1. /\ Alike(turn', turn, {"pc", "reply", "todo", "records", "status", "tokens"})
            /\ turn'.pc = "replied" /\ turn'.reply = StatusOf("llm") /\ turn'.todo = Tail(turn.todo)
            /\ turn'.records = turn.records \cup {"metrics"} /\ turn'.status = "error"
        BY <1>1, <2>3 DEF Metrics, Whole, Alike
      <3>2. StatusOf("llm") = 503
        BY DEF StatusOf
      <3>3. turn'.todo = <<>>
        BY <1>2, <2>3, <3>1
      <3> QED BY <2>1, <3>1, <3>2, <3>3 DEF Tasks
    <2>4. CASE turn' = [turn EXCEPT !.pc = "replied", !.reply = StatusOf("other"), !.todo = <<>>]
      <3>1. /\ Alike(turn', turn, {"pc", "reply", "todo"})
            /\ turn'.pc = "replied" /\ turn'.reply = StatusOf("other") /\ turn'.todo = <<>>
        BY <1>1, <2>4 DEF Whole, Alike
      <3>2. StatusOf("other") = 500
        BY DEF StatusOf
      <3> QED BY <2>1, <3>1, <3>2 DEF Alike
    <2> QED BY <2>2, <2>3, <2>4 DEF LlmError
  <1>4. Ledger(turn')
    <2>1. /\ turn'.usage = turn.usage /\ turn'.billed = turn.billed /\ turn'.rounds = turn.rounds
          /\ turn'.final = turn.final /\ turn'.rejected = turn.rejected
      BY <1>3 DEF Alike
    <2>2. /\ turn'.billed \in Nat /\ turn'.rounds \in 0 .. MaxIterations
          /\ turn'.billed <= turn'.rounds + Extra(turn'.pc)
      BY <1>1, <1>3, <2>1, ChatAssumption DEF Ledger, Extra
    <2>3. ~turn'.rejected /\ turn'.final # "refusal" /\ turn'.usage = turn'.billed
      BY <1>1, <2>1 DEF Ledger
    <2> QED BY <1>3, <2>2, <2>3 DEF Ledger
  <1>5. Shown(turn')
    BY <1>1, <1>3, ShownLate DEF Alike
  <1>6. Typed(turn')
    <2>1. <<"metrics">> \in Seq(Writes \cup Tasks) /\ <<>> \in Seq(Writes \cup Tasks)
      BY DEF Tasks
    <2>2. turn'.todo \in Seq(Writes \cup Tasks)
      <3>1. turn'.todo = <<"metrics">> \/ turn'.todo = <<>>
        BY <1>3
      <3> QED BY <2>1, <3>1, Zenon
    <2>3. turn'.pc \in Stages /\ turn'.reply \in {0, 200, 403, 409, 500, 503, 504}
      BY <1>1, <1>3 DEF Stages, Typed
    <2>4. /\ turn'.text = turn.text /\ turn'.calls = turn.calls /\ turn'.verdict = turn.verdict
          /\ turn'.final = turn.final /\ turn'.saved = turn.saved
          /\ turn'.active = turn.active
      BY <1>3 DEF Alike
    <2> QED BY <1>1, <1>3, <2>2, <2>3, <2>4 DEF Typed
  <1> QED BY <1>3, <1>4, <1>5, <1>6 DEF Sound, Alike

\* Only behind a reply of 200 there is something to record, and the metrics are
\* those of the turn.
LEMMA BackgroundSound == ASSUME SoundInv, Background PROVE Sound(turn')
  <1>1. /\ turn.pc = "replied" /\ turn.todo # <<>>
        /\ Whole(turn) /\ Ledger(turn) /\ Shown(turn) /\ Typed(turn)
    BY DEF SoundInv, Sound, Background
  <1>2. turn.reply = 200
    BY <1>1 DEF Ledger
  <1>3. /\ Alike(turn', turn, {"todo", "records", "status", "tokens"})
        /\ turn'.todo = Tail(turn.todo) \/ turn'.todo = <<>>
        /\ \/ /\ turn'.status = turn.status /\ turn'.tokens = turn.tokens
              /\ \E task \in Tasks \ {"metrics"} : turn'.records \in {turn.records, turn.records \cup {task}}
           \/ /\ turn'.status = (IF turn.rejected THEN "error" ELSE "completed")
              /\ turn'.tokens = turn.usage /\ turn'.records = turn.records \cup {"metrics"}
    <2>1. ASSUME turn' = Lost(turn)
          PROVE  /\ Alike(turn', turn, {"todo"}) /\ turn'.todo = <<>>
      BY <1>1, <2>1 DEF Lost, Whole, Alike
    <2>2. ASSUME NEW task \in Tasks \ {"metrics"}, NEW records \in {turn.records, turn.records \cup {task}},
                 turn' = [turn EXCEPT !.records = records, !.todo = Tail(@)]
          PROVE  /\ Alike(turn', turn, {"todo", "records"}) /\ turn'.todo = Tail(turn.todo)
                 /\ turn'.records \in {turn.records, turn.records \cup {task}}
      BY <1>1, <2>2 DEF Whole, Alike
    <2>3. CASE turn' = RecordMetrics
      BY <1>1, <2>3 DEF RecordMetrics, Metrics, Whole, Alike
    <2>4. CASE turn' = Lost(turn)
      <3>1. \E task : task \in Tasks \ {"metrics"}
        BY DEF Tasks
      <3> QED BY <2>1, <2>4, <3>1 DEF Alike
    <2>5. CASE \E task \in Tasks \ {"metrics"} : \E records \in {turn.records, turn.records \cup {task}} :
                 turn' = [turn EXCEPT !.records = records, !.todo = Tail(@)]
      BY <2>2, <2>5 DEF Alike
    <2>6. \/ turn' = Lost(turn) \/ turn' = RecordMetrics
          \/ \E task \in Tasks \ {"metrics"} : \E records \in {turn.records, turn.records \cup {task}} :
               turn' = [turn EXCEPT !.records = records, !.todo = Tail(@)]
      BY DEF Background, RecordExecution, RecordToolRuns, RecordRoutingLog, RunControleAcesso, Tasks
    <2> QED BY <2>3, <2>4, <2>5, <2>6
  <1>4. /\ turn'.usage = turn.usage /\ turn'.billed = turn.billed /\ turn'.rounds = turn.rounds
        /\ turn'.final = turn.final /\ turn'.rejected = turn.rejected /\ turn'.reply = turn.reply
        /\ turn'.pc = turn.pc
    BY <1>3 DEF Alike
  <1>5. Ledger(turn')
    <2>1. "metrics" \in turn'.records =>
            /\ turn'.status = "completed" <=> turn'.reply = 200 /\ turn'.final # "refusal"
            /\ turn'.status = "completed" => turn'.tokens = turn'.billed
      <3>1. CASE /\ turn'.status = turn.status /\ turn'.tokens = turn.tokens
                 /\ "metrics" \in turn'.records => "metrics" \in turn.records
        BY <1>1, <1>4, <3>1 DEF Ledger
      <3>2. CASE /\ turn'.status = (IF turn.rejected THEN "error" ELSE "completed")
                 /\ turn'.tokens = turn.usage
        BY <1>1, <1>2, <1>4, <3>2 DEF Ledger
      <3> QED BY <1>3, <3>1, <3>2
    <2> QED BY <1>1, <1>2, <1>4, <2>1 DEF Ledger
  <1>6. Shown(turn')
    BY <1>1, <1>3, ShownLate DEF Alike
  <1>7. Typed(turn')
    <2>1. Tail(turn.todo) \in Seq(Writes \cup Tasks) /\ <<>> \in Seq(Writes \cup Tasks)
      BY <1>1 DEF Typed
    <2>2. turn'.todo \in Seq(Writes \cup Tasks)
      BY <1>3, <2>1
    <2>3. turn'.records \subseteq Tasks /\ turn'.status \in {"none", "error", "completed"}
      BY <1>1, <1>3 DEF Typed, Tasks
    <2>4. /\ turn'.text = turn.text /\ turn'.calls = turn.calls /\ turn'.verdict = turn.verdict
          /\ turn'.final = turn.final /\ turn'.saved = turn.saved
          /\ turn'.active = turn.active
      BY <1>3 DEF Alike
    <2> QED BY <1>1, <1>4, <2>2, <2>3, <2>4 DEF Typed
  <1> QED BY <1>3, <1>5, <1>6, <1>7 DEF Sound, Alike

LEMMA SoundStep == SoundInv /\ [Next]_vars => SoundInv'
  <1> SUFFICES ASSUME SoundInv, [Next]_vars PROVE Sound(turn')
    BY NextIInv DEF SoundInv
  <1>1. ASSUME NEW role \in Roles, NEW text \in Texts \ {"routed"}, Receive(role, text)
        PROVE  Sound(turn')
    BY <1>1, ReceiveSound
  <1>2. CASE GraphStep
    BY <1>2, NodeGuardrailEntradaSound, ConversationSound, SessionEndsSound, LoadContextSound, RoutingSound,
       FetchedSound, AskModelSound, EvaluationSound, SaveEvaluationSound, NodeGuardrailSaidaSound,
       SaveSound, FailureSound, ReplySound, CallSound, RunToolSound DEF GraphStep
  <1>3. CASE ChatTimeout \/ LlmError \/ Background
    BY <1>3, FailureSound, LlmErrorSound, BackgroundSound
  <1>4. CASE CacheExpires \/ UNCHANGED vars
    BY <1>4 DEF CacheExpires, vars, SoundInv
  <1> QED BY <1>1, <1>2, <1>3, <1>4 DEF Next

LEMMA AlwaysSound == Spec => []SoundInv
  <1>1. Init => SoundInv
    BY UnbegunGood, UnbegunSound DEF Init, SoundInv, IInv
  <1> QED BY <1>1, SoundStep, PTL DEF Spec

\* The metrics of a turn are recorded as completed only behind an answer or a
\* fallback, with every token that was billed, for any number of tool rounds and
\* whatever fails (chat, insert_agent_metrics).
THEOREM MetricsAreTrue == Spec => []MetricsTellTheTurn
  <1>1. SoundInv => MetricsTellTheTurn
    BY DEF SoundInv, Sound, Ledger, MetricsTellTheTurn
  <1> QED BY <1>1, AlwaysSound, PTL

\* The Judge is shown the consulted data that the model had, inlined or through
\* its tools, and no failed call; what it is not shown beside them is the memory and
\* the customer's older messages (grounding_context, tool_runs, evaluation_input).
THEOREM EvidenceIsTrue == Spec => []JudgeSeesTheData
  <1>1. ASSUME SoundInv PROVE JudgeSeesTheData
    <2> DEFINE grounding == AgentNode(turn.agent).grounding
    <2> SUFFICES ASSUME turn.pc \in {"juiz", "juiz_retry"}
                 PROVE  /\ Evidence(turn) = turn.seen \ {"memory", "recent", "older"}
                        /\ turn.seen \ EvaluationInput(turn) \subseteq
                             IF turn.agent = "cliente" THEN {"memory", "older"} ELSE {"memory"}
      BY DEF JudgeSeesTheData
    <2>1. /\ Successes(turn) = turn.seen \ Recall
          /\ turn.seen \cap Recall \subseteq Recalled(turn.agent)
          /\ Successes(turn) \subseteq Consulted(turn.agent)
      BY <1>1 DEF SoundInv, Sound, Shown
    <2>2. grounding = {} \/ grounding = Consulted(turn.agent)
      BY Consultations
    <2>3. Evidence(turn) = IF grounding # {} THEN grounding \cap Successes(turn) ELSE Successes(turn)
      BY DEF Evidence
    <2> HIDE DEF grounding
    <2>4. Evidence(turn) = turn.seen \ Recall
      BY <2>1, <2>2, <2>3
    <2>5. turn.seen \ EvaluationInput(turn) \subseteq Recalled(turn.agent) \ {"recent"}
      BY <2>1, <2>4 DEF EvaluationInput
    <2>6. Recalled(turn.agent) \ {"recent"} \subseteq
            IF turn.agent = "cliente" THEN {"memory", "older"} ELSE {"memory"}
      BY DEF Recalled
    <2> QED BY <2>4, <2>5, <2>6 DEF Recall
  <1> QED BY <1>1, AlwaysSound, PTL

\* The turn and what outlives it keep their types, and no turn bills more than its
\* rounds of tools, one answer and two evaluations.
THEOREM TypeCorrect == Spec => []TypeOK
  <1> DEFINE Caches == native \in BOOLEAN /\ cache \in Catalogues \cup {Cold, FallbackIntents}
  <1>1. Init => Caches
    BY DEF Init
  <1>2. Caches /\ [Next]_vars => Caches'
    BY DEF Next, vars, shared, GraphStep, Receive, ChatTimeout, LlmError, Background, CacheExpires,
       NodeGuardrailEntrada, Conversation, SessionEnds, LoadContext, SupervisorRoute,
       GetActiveIntents, Fetched,
       AskModel, FirstEvaluation, SecondEvaluation, SaveEvaluation, NodeGuardrailSaida,
       SaveMessage, UpdateMemory, Saved,
       WriteFails, Reply, CallReturns, CallFails, RunTool
  <1>3. ASSUME SoundInv, Caches PROVE TypeOK
    <2>1. /\ MayReach(turn.role, turn.agent) /\ Ledger(turn) /\ Typed(turn)
      BY <1>3 DEF SoundInv, IInv, Good, Sound
    <2>2. turn.role \in Roles
          /\ turn.agent \in {"", "funcionario", "dono", "cliente", "faq", "motor_preditivo"}
      BY <2>1 DEF MayReach, Roles
    <2>3. turn.rounds \in 0 .. MaxIterations /\ turn.billed \in 0 .. MaxIterations + 3
          /\ turn.usage \in 0 .. turn.billed
      BY <2>1, ChatAssumption DEF Ledger, Extra
    <2>4. /\ \A i \in DOMAIN turn.saved : turn.saved[i] \in Writes
          /\ \A i \in DOMAIN turn.todo : turn.todo[i] \in Writes \cup Tasks
      BY <2>1 DEF Typed
    <2> QED BY <1>3, <2>1, <2>2, <2>3, <2>4 DEF Typed, TypeOK
  <1> QED BY <1>1, <1>2, <1>3, AlwaysSound, PTL DEF Spec
=============================================================================
