------------------------------- MODULE ChatTurn -------------------------------
(***************************************************************************)
(* One chat message (POST /chat, interfaces/api/main.py) on its way through *)
(* the LangGraph graph of app/agents/supervisor.py: input guardrail,        *)
(* conversation, routing, data and model calls of the agent, Judge, output  *)
(* guardrail, saves; then the reply and the records written behind it.      *)
(*                                                                         *)
(* Turns follow one another and share the process's cache of the intent     *)
(* catalogue.  What a query returns is named by the query; a model response *)
(* costs one token.  Concurrent turns meet in Sessions, ProviderPacing and  *)
(* RagKnowledge.                                                            *)
(***************************************************************************)
EXTENDS Integers, FiniteSets, Sequences

CONSTANTS Catalogues,     \* what the operator may have left in intent_catalog
          MaxIterations,  \* agent_tool_calling_max_iterations
          MaxAsked,       \* bound: different tools asked for at once
          Cold            \* no catalogue in the cache, or one past its TTL

ASSUME ChatAssumption ==
    /\ MaxIterations \in Nat /\ MaxAsked \in Nat \ {0}
    /\ Cold \notin Catalogues

VARIABLES turn,    \* the turn being served
          native,  \* settings.native_tool_calling_enabled
          cache    \* _cache of the process

vars == <<turn, native, cache>>

shared == <<native, cache>>

Roles == {"ESTOQUISTA", "DONO", "CLIENTE"}

\* What a message is to the text matching: blank or an injection, a forecast
\* question, a FAQ question, or a word that only an operator would list.  After
\* the routing it makes no difference any more.
Texts == {"blocked", "forecast", "faq", "special", "routed"}

-----------------------------------------------------------------------------
(* The agents: the groups of calls a node makes in order, each concurrent    *)
(* within; the failures it survives; the tools it offers to the model; the   *)
(* calls whose results it hands to the Judge as grounding_context, or none   *)
(* when it leaves the Judge to the tool runs.                                *)

Node(groups, soft, tools, grounding) ==
    [groups |-> groups, soft |-> soft, tools |-> tools, grounding |-> grounding]

\* Bug: the knowledge base goes into the prompt only.
FuncionarioOpsOnly == Node(
    <<{"alerts", "inventory", "expiring", "inbox", "vision", "rag"}>>, {}, {},
    {"alerts", "inventory", "expiring", "inbox", "vision"})

FuncionarioLegacy == Node(
    <<{"alerts", "inventory", "expiring", "inbox", "vision", "rag"}>>, {}, {},
    {"alerts", "inventory", "expiring", "inbox", "vision", "rag"})

FuncionarioNative == Node(
    <<{"inbox", "vision"}>>, {}, {"alerts", "inventory", "expiring", "rag"}, {})

DonoLegacy == Node(<<{"kpis", "sales", "alerts", "stores", "rag"}>>, {}, {},
                   {"kpis", "sales", "alerts", "stores", "rag"})

DonoNative == Node(<<>>, {}, {"kpis", "sales", "alerts", "stores", "rag"}, {})

RagChat == Node(<<{"rag"}, {"public"}>>, {<<"public", "sql">>}, {}, {"rag", "public"})

Motor == Node(<<{"expiring"}, {"sales"}, {"alerts"}, {"series"}, {"weather"}>>,
              {<<"weather", "other">>}, {}, {"expiring", "sales", "alerts", "series", "weather"})

Funcionario == IF native THEN FuncionarioNative ELSE FuncionarioLegacy

Dono == IF native THEN DonoNative ELSE DonoLegacy

AgentNode(agent) ==
    CASE agent = "funcionario" -> Funcionario
      [] agent = "dono" -> Dono
      [] agent = "motor_preditivo" -> Motor
      [] OTHER -> RagChat

\* What else goes into the prompt: the user's memory and the last 8 of the 20
\* messages loaded, 10 for the customer's agent.  The predictive engine asks
\* without either.
Recalled(agent) ==
    CASE agent = "motor_preditivo" -> {}
      [] agent = "cliente" -> {"memory", "recent", "older"}
      [] OTHER -> {"memory", "recent"}

\* How a call can fail.  Permission and publication errors come from the
\* consultations of PostgreSQL.
CallErrors(c) ==
    CASE c = "inbox" -> {"redis"}
      [] c = "public" -> {"sql", "other"}
      [] c \in {"history", "memory", "vision", "rag", "weather"} -> {"other"}
      [] OTHER -> {"permission", "unpublished", "other"}

CallStates == {"running", "ok", "redis", "sql", "permission", "unpublished", "other"}

-----------------------------------------------------------------------------
(* The turn *)

NoVerdict == [approved |-> FALSE, scope |-> FALSE, grounding |-> FALSE, score |-> "none"]

\* What _run_judge_evaluation accepts.  "zero" and "one" are the integers that
\* JSON writes for the extreme scores; "low" and "high" are below and from 0.7.
Verdicts == [approved : BOOLEAN, scope : BOOLEAN, grounding : BOOLEAN,
             score : {"zero", "low", "high", "one"}]

\* A technical failure of the Judge: a score of 0.0 and nothing approved.
Unavailable == [NoVerdict EXCEPT !.score = "unavailable"]

Unbegun == [pc |-> "replied", role |-> "CLIENTE", text |-> "routed", agent |-> "",
            step |-> 0, calls |-> <<>>, seen |-> {}, runs |-> {}, ran |-> FALSE, rounds |-> 0, asked |-> {},
            billed |-> 0, usage |-> 0, verdict |-> NoVerdict, rejected |-> FALSE,
            final |-> "none", active |-> FALSE, saved |-> <<>>, todo |-> <<>>, disturbed |-> FALSE,
            reply |-> 0, records |-> {}, status |-> "none", tokens |-> 0]

Init ==
    /\ turn = Unbegun
    /\ native \in BOOLEAN
    /\ cache = Cold

\* The graph is running, under the deadline of the route.
InGraph == turn.pc \notin {"llm_error", "replied"}

Running == \E c \in DOMAIN turn.calls : turn.calls[c] = "running"

\* The route: single exceptions keep their type, everything else is a 500.
StatusOf(error) ==
    CASE error = "timeout" -> 504
      [] error = "ownership" -> 403
      [] error = "expired" -> 409
      [] error \in {"llm", "redis", "unpublished"} -> 503
      [] error = "permission" -> 403
      [] OTHER -> 500

\* An exception leaves the graph, whose state is lost.  Provider errors are
\* recorded before the reply; all others reply at once and leave no record.
\* A call that is still running would go on unobserved.
Raise(t, error) ==
    LET lost == [Unbegun EXCEPT !.disturbed = t.disturbed, !.role = t.role, !.verdict = t.verdict,
                    !.calls = [c \in {d \in DOMAIN t.calls : t.calls[d] = "running"} |-> "running"]]
    IN IF error = "llm"
       THEN [lost EXCEPT !.pc = "llm_error", !.todo = <<"execution", "metrics">>]
       ELSE [lost EXCEPT !.reply = StatusOf(error)]

Disturbed(t) == [t EXCEPT !.disturbed = TRUE]

Receive(role, text) ==
    /\ turn.pc = "replied" /\ turn.todo = <<>>
    /\ turn' = [Unbegun EXCEPT !.pc = "guardrail_entrada", !.role = role, !.text = text]
    /\ UNCHANGED shared

\* check_rate_limit admits, denies, or Redis fails; blocked text never gets there.
GuardrailEntrada(text) == IF text = "blocked" THEN {"rejected"} ELSE {"allowed", "rejected", "redis"}

\* A rejection sets error and final_response; the graph ends at once.
NodeGuardrailEntrada ==
    /\ turn.pc = "guardrail_entrada"
    /\ \E result \in GuardrailEntrada(turn.text) : turn' =
         CASE result = "allowed" -> [turn EXCEPT !.pc = "conversation"]
           [] result = "rejected" -> [turn EXCEPT !.rejected = TRUE, !.final = "refusal", !.pc = "end"]
           [] OTHER -> Raise(Disturbed(turn), "redis")
    /\ UNCHANGED shared

\* get_or_create_conversation, then history and memory together.
Conversation ==
    /\ turn.pc = "conversation"
    /\ \/ turn' = [turn EXCEPT !.pc = "context", !.active = TRUE,
                       !.calls = [c \in {"history", "memory"} |-> "running"]]
       \/ \E e \in {"ownership", "expired", "other"} : turn' = Raise(Disturbed(turn), e)
    /\ UNCHANGED shared

\* The user closes the session, or another turn finds it expired.  Nothing
\* asks for it before the saves.
SessionEnds ==
    /\ turn.pc = "save" /\ turn.active
    /\ turn' = [turn EXCEPT !.active = FALSE]
    /\ UNCHANGED shared

-----------------------------------------------------------------------------
(* Concurrent calls *)

\* timed_tool_call: every call of an agent leaves a tool run, whatever its end.
Recorded(t, c, status) ==
    IF t.pc = "context" THEN t ELSE [t EXCEPT !.runs = @ \cup {<<c, status>>}]

CallReturns(c) ==
    /\ turn.calls[c] = "running"
    /\ turn' = Recorded([turn EXCEPT !.calls[c] = "ok"], c, "success")
    /\ UNCHANGED shared

CallFails(c) ==
    /\ turn.calls[c] = "running"
    /\ \E e \in CallErrors(c) :
         turn' = Recorded(Disturbed([turn EXCEPT !.calls[c] = e]), c, "error")
    /\ UNCHANGED shared

Failures(t) == {c \in DOMAIN t.calls : /\ t.calls[c] \notin {"running", "ok"}
                                       /\ t.pc = "fetch" => <<c, t.calls[c]>> \notin AgentNode(t.agent).soft}

\* Bug: asyncio.gather raises the first failure while the others go on.
GatheredAtFailure(t) == Failures(t) # {} \/ \A c \in DOMAIN t.calls : t.calls[c] # "running"

\* gather_or_raise waits for all; a single failure keeps its type.
Gathered(t) == \A c \in DOMAIN t.calls : t.calls[c] # "running"

RaiseGathered(t) ==
    Raise(t, IF Cardinality(Failures(t)) = 1
             THEN t.calls[CHOOSE c \in Failures(t) : TRUE] ELSE "group")

\* The data of the calls that succeeded goes into the prompt.
Inlined(t) == [t EXCEPT !.seen = @ \cup {c \in DOMAIN t.calls : t.calls[c] = "ok"}, !.calls = <<>>]

LoadContext ==
    /\ turn.pc = "context" /\ Gathered(turn)
    /\ turn' = IF Failures(turn) = {} THEN [turn EXCEPT !.pc = "supervisor", !.calls = <<>>]
               ELSE RaiseGathered(turn)
    /\ UNCHANGED shared

\* The next group of an agent's calls; after the last one, the prompt.
NextGroup(t) ==
    LET groups == AgentNode(t.agent).groups IN
    IF t.step < Len(groups)
    THEN [t EXCEPT !.pc = "fetch", !.step = @ + 1,
                   !.calls = [c \in groups[t.step + 1] |-> "running"]]
    ELSE [t EXCEPT !.pc = "model", !.seen = @ \cup Recalled(t.agent)]

\* The predictive engine asks for no daily series when nothing was sold.
Fetched ==
    /\ turn.pc = "fetch" /\ Gathered(turn)
    /\ IF Failures(turn) # {} THEN turn' = RaiseGathered(turn)
       ELSE \/ turn' = NextGroup(Inlined(turn))
            \/ /\ "alerts" \in DOMAIN turn.calls /\ turn.agent = "motor_preditivo"
               /\ turn' = NextGroup([Inlined(turn) EXCEPT !.step = @ + 1])
    /\ UNCHANGED shared

-----------------------------------------------------------------------------
(* Routing *)

Intent(agent, words) == [agent |-> agent, words |-> words]

FallbackIntents == {Intent("motor_preditivo", {"forecast"}), Intent("faq", {"faq"})}

RoleToIntentAgents == [r \in {"DONO", "CLIENTE"} |-> IF r = "DONO" THEN {"motor_preditivo"} ELSE {"faq"}]

RoleToDefaultAgent == [r \in Roles |-> CASE r = "ESTOQUISTA" -> "funcionario"
                                         [] r = "DONO" -> "dono" [] OTHER -> "cliente"]

\* Bug: any intent that matches routes the message.
MatchAnyIntent(role, text, intents) == {i.agent : i \in {j \in intents : text \in j.words}}

\* Only intents of an agent the role may reach count, whatever the catalogue says.
MatchIntent(role, text, intents) ==
    {i.agent : i \in {j \in intents : j.agent \in RoleToIntentAgents[role] /\ text \in j.words}}

Routed(t, intents) ==
    LET found == IF t.role \in DOMAIN RoleToIntentAgents
                 THEN MatchIntent(t.role, t.text, intents) ELSE {}
    IN NextGroup([t EXCEPT !.text = "routed", !.agent = IF found = {} THEN RoleToDefaultAgent[t.role]
                                     ELSE CHOOSE a \in found : TRUE])

\* Employees skip the lookup; a young cache answers it.
SupervisorRoute ==
    /\ turn.pc = "supervisor"
    /\ turn' = IF turn.role \notin DOMAIN RoleToIntentAgents \/ cache # Cold
               THEN Routed(turn, cache) ELSE [turn EXCEPT !.pc = "lookup"]
    /\ UNCHANGED shared

\* The operator may have edited the documents at any time before.  An error, a
\* slow answer or no document at all: the built-in intents.
GetActiveIntents ==
    /\ turn.pc = "lookup"
    /\ \E found \in Catalogues \cup {{}} :
         cache' = IF found = {} THEN FallbackIntents ELSE found
    /\ turn' = Routed(turn, cache')
    /\ UNCHANGED native

-----------------------------------------------------------------------------
(* The model *)

Billed(t) == [t EXCEPT !.billed = @ + 1, !.usage = @ + 1]

\* Bug: the loop has no ceiling.
AskModelForever ==
    /\ turn.pc = "model" /\ turn.rounds <= MaxIterations
    /\ \/ turn' = [Billed(turn) EXCEPT !.pc = "juiz"]
       \/ /\ AgentNode(turn.agent).tools # {}
          /\ \E c \in AgentNode(turn.agent).tools :
               turn' = [Billed(turn) EXCEPT !.pc = "tools", !.rounds = @ + 1, !.asked = {c}]
    /\ UNCHANGED shared

\* run_agent_with_tools, or the only call of a node without tools: the model
\* answers, asks for tools while rounds are left, or the provider fails.
AskModel ==
    /\ turn.pc = "model"
    /\ \/ turn' = [Billed(turn) EXCEPT !.pc = "juiz"]
       \/ /\ turn.rounds < MaxIterations /\ AgentNode(turn.agent).tools # {}
          /\ \E a \in SUBSET (AgentNode(turn.agent).tools \cup {"unknown"}) :
               /\ Cardinality(a) \in 1 .. MaxAsked
               /\ turn' = [Billed(turn) EXCEPT !.pc = "tools", !.rounds = @ + 1, !.asked = a]
       \/ \E e \in {"llm", "timeout"} : turn' = Raise(Disturbed(turn), e)
    /\ UNCHANGED shared

\* The text of a failed or unknown tool is an answer for the model like any
\* other, and no data.
RunTool(c) ==
    /\ turn.pc = "tools"
    /\ LET rest == [turn EXCEPT !.asked = @ \ {c},
                                !.pc = IF turn.asked = {c} THEN "model" ELSE "tools"]
       IN \/ c = "unknown" /\ turn' = rest
          \/ /\ c # "unknown"
             /\ turn' = Recorded([rest EXCEPT !.seen = @ \cup {c}], c, "success")
          \/ /\ c # "unknown"
             /\ turn' = Recorded(Disturbed(rest), c, "error")
    /\ UNCHANGED shared

-----------------------------------------------------------------------------
(* The Judge *)

Successes(t) == {c \in {run[1] : run \in t.runs} : <<c, "success">> \in t.runs}

\* Bug: failed calls are listed like the others.
EvidenceOfAllRuns(t) ==
    LET grounding == AgentNode(t.agent).grounding
    IN IF grounding # {} THEN grounding \cap Successes(t) ELSE {run[1] : run \in t.runs}

\* What the Judge is shown as consulted data: the agent's grounding_context, or
\* the output of the successful tool runs.
Evidence(t) ==
    LET grounding == AgentNode(t.agent).grounding
    IN IF grounding # {} THEN grounding \cap Successes(t) ELSE Successes(t)

\* The Judge gets the last 8 messages beside it, and no memory.
EvaluationInput(t) == Evidence(t) \cup {"recent"}

\* Bug: the model's own verdict is trusted.
ApprovedByFlag(v) == v.approved

Approved(v) == v.approved /\ v.scope /\ v.grounding /\ v.score \in {"high", "one"}

\* Bug: the tokens are counted after the JSON was validated.
EvaluationsUncounted(t) ==
    {[t |-> Billed(t), v |-> v] : v \in Verdicts}
      \cup {[t |-> [Disturbed(t) EXCEPT !.billed = @ + 1], v |-> Unavailable]}

\* A provider error costs nothing, a response that is no valid JSON is billed.
Evaluations(t) ==
    {[t |-> Billed(t), v |-> v] : v \in Verdicts}
      \cup {[t |-> Disturbed(x), v |-> Unavailable] : x \in {t, Billed(t)}}

\* Of the tool runs it matters from here on whether there are any.
Adopted(t, v) == [t EXCEPT !.verdict = v, !.pc = "evaluated",
                           !.seen = {}, !.runs = {}, !.ran = (t.runs # {})]

FirstEvaluation ==
    /\ turn.pc = "juiz"
    /\ \E e \in Evaluations(turn) : turn' =
         IF Approved(e.v) THEN Adopted(e.t, e.v) ELSE [e.t EXCEPT !.verdict = e.v, !.pc = "juiz_retry"]
    /\ UNCHANGED shared

\* One independent evaluation more; it replaces a rejection only by an
\* approval, and an unavailable Judge by any verdict.
SecondEvaluation ==
    /\ turn.pc = "juiz_retry"
    /\ \E e \in Evaluations(turn) : turn' =
         IF Approved(e.v) \/ (turn.verdict = Unavailable /\ e.v # Unavailable)
         THEN Adopted(e.t, e.v) ELSE Adopted(e.t, turn.verdict)
    /\ UNCHANGED shared

\* The schema of prompt_evaluations takes a score of type double only.
StorableScore(v) == v.score \notin {"zero", "one"}

\* node_agente_juiz: the answer or a fixed text, after the evaluation is saved.
SaveEvaluation ==
    /\ turn.pc = "evaluated"
    /\ IF StorableScore(turn.verdict)
       THEN turn' = [turn EXCEPT !.pc = "guardrail_saida", !.saved = <<"evaluation">>,
                        !.final = IF Approved(turn.verdict) THEN "answer" ELSE "fallback"]
       ELSE turn' = Raise(turn, "other")
    /\ UNCHANGED shared

-----------------------------------------------------------------------------
(* Output guardrail, saves, reply *)

\* An approved answer may still be blocked or too long.
GuardrailSaida(text) == IF text = "answer" THEN {"answer", "fallback"} ELSE {text}

\* Bug: the answer is saved first.
AnswerSavedFirst ==
    /\ turn.pc = "guardrail_saida"
    /\ \E out \in GuardrailSaida(turn.final) :
         turn' = [turn EXCEPT !.pc = "save", !.final = out,
                     !.todo = <<"assistant", "user", "last_agent">>]
    /\ UNCHANGED shared

\* Question, answer, last agent; then what the message says about the user.
NodeGuardrailSaida ==
    /\ turn.pc = "guardrail_saida"
    /\ \E out \in GuardrailSaida(turn.final),
          remembered \in {<<>>, <<"preference">>, <<"fact">>, <<"preference", "fact">>} :
         turn' = [turn EXCEPT !.pc = "save", !.final = out,
                     !.todo = <<"user", "assistant", "last_agent">> \o remembered]
    /\ UNCHANGED shared

\* save_message finds an active conversation, or returns without a word.
SaveMessage ==
    /\ turn.pc = "save" /\ turn.todo # <<>> /\ Head(turn.todo) \in {"user", "assistant"}
    /\ turn' = [turn EXCEPT !.saved = IF turn.active THEN Append(@, Head(turn.todo)) ELSE @,
                            !.todo = Tail(@)]
    /\ UNCHANGED shared

\* The memory belongs to the user and outlives the session.
UpdateMemory ==
    /\ turn.pc = "save" /\ turn.todo # <<>> /\ Head(turn.todo) \notin {"user", "assistant"}
    /\ turn' = [turn EXCEPT !.saved = Append(@, Head(turn.todo)), !.todo = Tail(@)]
    /\ UNCHANGED shared

Saved ==
    /\ turn.pc = "save" /\ turn.todo = <<>>
    /\ turn' = [turn EXCEPT !.pc = "end"]
    /\ UNCHANGED shared

\* A MongoDB write of the Judge or of the saves fails.
WriteFails ==
    /\ turn.pc \in {"evaluated", "save"}
    /\ turn' = Raise(Disturbed(turn), "other")
    /\ UNCHANGED shared

\* Bug: the deadline covers the model calls only.
TimeoutOfModel ==
    /\ turn.pc = "model"
    /\ turn' = Raise(Disturbed(turn), "timeout")
    /\ UNCHANGED shared

\* wait_for cancels the graph and with it every call it still waits for.
ChatTimeout ==
    /\ InGraph
    /\ turn' = Raise([Disturbed(turn) EXCEPT !.calls = <<>>], "timeout")
    /\ UNCHANGED shared

\* final_response is set on every path that ends the graph, so the error
\* branch of the route is not taken: a rejection is replied 200 as well.
Reply ==
    /\ turn.pc = "end"
    /\ turn' = [turn EXCEPT !.pc = "replied", !.reply = 200,
                   !.todo = <<"execution", "metrics", "tool_runs", "routing", "policy">>]
    /\ UNCHANGED shared
-----------------------------------------------------------------------------
(* Records *)

Metrics(t, status, tokens) == [t EXCEPT !.status = status, !.tokens = tokens,
                                        !.records = @ \cup {"metrics"}, !.todo = Tail(@)]

\* Before the 503: nothing of what the provider billed is known any more.
LlmError ==
    /\ turn.pc = "llm_error"
    /\ \/ /\ Head(turn.todo) = "execution"
          /\ turn' = [turn EXCEPT !.records = @ \cup {"execution"}, !.todo = Tail(@)]
       \/ /\ Head(turn.todo) = "metrics"
          /\ turn' = [Metrics(turn, "error", 0) EXCEPT !.pc = "replied", !.reply = StatusOf("llm")]
       \/ turn' = [turn EXCEPT !.pc = "replied", !.reply = StatusOf("other"), !.todo = <<>>]
    /\ UNCHANGED shared

\* A background task that raises takes the ones behind it along.
Lost(t) == [t EXCEPT !.todo = <<>>]

RecordExecution == [turn EXCEPT !.records = @ \cup {"execution"}, !.todo = Tail(@)]

RecordMetrics == Metrics(turn, IF turn.rejected THEN "error" ELSE "completed", turn.usage)

RecordToolRuns == [turn EXCEPT !.records = IF turn.ran THEN @ \cup {"tool_runs"} ELSE @,
                               !.todo = Tail(@)]

\* routing_logs requires a conversation, which a rejected turn has not got.
RecordRoutingLog ==
    IF turn.rejected THEN Lost(turn)
    ELSE [turn EXCEPT !.records = @ \cup {"routing"}, !.todo = Tail(@)]

\* A violation is written without a conversation, which conversation_events
\* requires: only a check that finds none ends well.
RunControleAcesso == [turn EXCEPT !.records = @ \cup {"policy"}, !.todo = Tail(@)]

Background ==
    /\ turn.pc = "replied" /\ turn.todo # <<>>
    /\ \/ LET task == Head(turn.todo) IN
          turn' = CASE task = "execution" -> RecordExecution
                    [] task = "metrics" -> RecordMetrics
                    [] task = "tool_runs" -> RecordToolRuns
                    [] task = "routing" -> RecordRoutingLog
                    [] OTHER -> RunControleAcesso
       \/ turn' = Lost(turn)
    /\ UNCHANGED shared

-----------------------------------------------------------------------------
\* CACHE_TTL_SECONDS have passed.
CacheExpires == cache' = Cold /\ UNCHANGED <<turn, native>>

GraphStep ==
    \/ NodeGuardrailEntrada \/ Conversation \/ SessionEnds \/ LoadContext \/ SupervisorRoute \/ GetActiveIntents
    \/ Fetched \/ AskModel \/ FirstEvaluation \/ SecondEvaluation \/ SaveEvaluation
    \/ NodeGuardrailSaida \/ SaveMessage \/ UpdateMemory \/ Saved \/ WriteFails \/ Reply
    \/ \E c \in DOMAIN turn.calls : CallReturns(c) \/ CallFails(c)
    \/ \E c \in turn.asked : RunTool(c)

Next ==
    \/ \E role \in Roles, text \in Texts \ {"routed"} : Receive(role, text)
    \/ GraphStep \/ ChatTimeout \/ LlmError \/ Background \/ CacheExpires

Spec == Init /\ [][Next]_vars

\* The event loop fires the deadline; MongoDB answers or fails.
FairSpec == Spec /\ WF_vars(ChatTimeout) /\ WF_vars(LlmError)

-----------------------------------------------------------------------------
(* Properties *)

Stages == {"guardrail_entrada", "conversation", "context", "supervisor", "lookup", "fetch", "model",
           "tools", "juiz", "juiz_retry", "evaluated", "guardrail_saida", "save", "end",
           "llm_error", "replied"}

Writes == {"evaluation", "user", "assistant", "last_agent", "preference", "fact"}

Tasks == {"execution", "metrics", "tool_runs", "routing", "policy"}

\* Every part of the turn keeps its type; usage never exceeds what was billed.
TypeOK ==
    /\ turn.pc \in Stages /\ turn.role \in Roles /\ turn.text \in Texts
    /\ turn.agent \in {"", "funcionario", "dono", "cliente", "faq", "motor_preditivo"}
    /\ \A c \in DOMAIN turn.calls : turn.calls[c] \in CallStates
    /\ turn.rounds \in 0 .. MaxIterations
    /\ turn.billed \in 0 .. MaxIterations + 3 /\ turn.usage \in 0 .. turn.billed
    /\ turn.verdict \in Verdicts \cup {NoVerdict, Unavailable}
    /\ turn.final \in {"none", "refusal", "answer", "fallback"}
    /\ turn.active \in BOOLEAN
    /\ \A i \in DOMAIN turn.saved : turn.saved[i] \in Writes
    /\ \A i \in DOMAIN turn.todo : turn.todo[i] \in Writes \cup Tasks
    /\ turn.reply \in {0, 200, 403, 409, 500, 503, 504}
    /\ turn.records \subseteq Tasks /\ turn.status \in {"none", "error", "completed"}
    /\ native \in BOOLEAN /\ cache \in Catalogues \cup {Cold, FallbackIntents}

Stored(w) == \E i \in DOMAIN turn.saved : turn.saved[i] = w

\* A user who reads an agent's own answer reads one that an evaluation of this
\* turn approved in every respect.  The evaluation and the last agent are
\* stored; the answer is never stored without its question, and a message is
\* missing only from a session that ended before the reply, as save_message
\* then drops it and says nothing (node_agente_juiz, node_guardrail_saida).
AnswerIsBacked ==
    turn.reply = 200 /\ turn.final = "answer" =>
        /\ turn.verdict.approved /\ turn.verdict.scope /\ turn.verdict.grounding
        /\ turn.verdict.score \in {"high", "one"}
        /\ Stored("evaluation") /\ Stored("last_agent")
        /\ Stored("assistant") => Stored("user")
        /\ turn.active => Stored("assistant")

\* The Judge is shown exactly the consulted data that the model had: whatever
\* was inlined into the prompt or returned by a tool, and no failed call.  What
\* the model had beyond that and the recent messages is the user's memory and,
\* for the customer's agent, the two messages before them: on these the Judge
\* cannot check an answer (grounding_context of the agents, tool_runs of the
\* tool loop, evaluation_input).
JudgeSeesTheData ==
    turn.pc \in {"juiz", "juiz_retry"} =>
        /\ Evidence(turn) = turn.seen \ {"memory", "recent", "older"}
        /\ turn.seen \ EvaluationInput(turn) \subseteq
               IF turn.agent = "cliente" THEN {"memory", "older"} ELSE {"memory"}

\* A turn that ended, for whatever reason, leaves no query running behind it
\* (gather_or_raise: fan-out must not leave awaitables in the background).
NoStrayCalls == ~InGraph => ~Running

\* The metrics of a turn call it completed only if the user got an answer or a
\* fallback with status 200, and then count every token the provider billed,
\* those of rejected and unreadable evaluations too.
MetricsTellTheTurn ==
    "metrics" \in turn.records =>
        /\ turn.status = "completed" <=> turn.reply = 200 /\ turn.final # "refusal"
        /\ turn.status = "completed" => turn.tokens = turn.billed

\* No edit of the intent catalogue leads a role to an agent it may not reach:
\* employees and customers never get to the owner's agents (supervisor.py).
RolesStayInTheirAgents ==
    /\ turn.role = "ESTOQUISTA" => turn.agent \in {"", "funcionario"}
    /\ turn.role = "CLIENTE" => turn.agent \in {"", "cliente", "faq"}
    /\ turn.role = "DONO" => turn.agent \in {"", "dono", "motor_preditivo"}

\* Every message is answered with some status, whatever hangs or fails
\* (chat_timeout_seconds of the route).
EveryTurnAnswered == turn.pc = "guardrail_entrada" ~> turn.pc = "replied" /\ turn.reply # 0

\* A turn in which no dependency failed is answered with 200: an evaluation
\* that was accepted is saved and the rejected answer replaced by a safe one
\* (node_agente_juiz).
UndisturbedTurnIsAnswered == turn.reply \notin {0, 200} => turn.disturbed

=============================================================================
