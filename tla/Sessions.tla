------------------------------- MODULE Sessions -------------------------------
(***************************************************************************)
(* app/memory/short_term.py: conversations in MongoDB, as the chat graph    *)
(* (app/agents/supervisor.py) and the close route use them.  A chat turn    *)
(* resumes or creates the conversation, lets an agent work and then saves   *)
(* the user's message and the answer, each by find, insert and renewal.     *)
(* Every MongoDB call is a step, so turns, closings and the clock           *)
(* interleave between any two of them.                                      *)
(***************************************************************************)
EXTENDS Integers, FiniteSets

CONSTANTS Turns,        \* POST /chat requests
          Sessions,     \* session identifiers, chosen by clients
          Users,
          SessionOf,    \* the session and the authenticated user of each turn
          UserOf,
          Timeout,      \* settings.session_timeout_minutes
          MaxTime,      \* bound: the clock stops here
          NoUser        \* the owner of a conversation that does not exist

ASSUME SessionsAssumption ==
    /\ SessionOf \in [Turns -> Sessions]
    /\ UserOf \in [Turns -> Users]
    /\ Timeout \in Nat /\ MaxTime \in Nat
    /\ NoUser \notin Users

VARIABLES now,      \* the clock
          owner,    \* conversations.usuarioId (with empresaId)
          status,   \* conversations.status
          last,     \* conversations.lastInteraction
          pc,       \* where each turn stands
          role,     \* which of its two messages a turn is saving
          stamp,    \* the time a turn read before the write it is doing
          saved     \* messages, as the turn and role that wrote them

vars == <<now, owner, status, last, pc, role, stamp, saved>>

Roles == {"user", "assistant"}

Working == {"find", "create", "expire", "agent", "save", "insert", "renew",
            "memory"}

Init ==
    /\ now = 0
    /\ owner = [s \in Sessions |-> NoUser]
    /\ status = [s \in Sessions |-> "none"]
    /\ last = [s \in Sessions |-> 0]
    /\ pc = [t \in Turns |-> "idle"]
    /\ role = [t \in Turns |-> "user"]
    /\ stamp = [t \in Turns |-> 0]
    /\ saved = {}

-----------------------------------------------------------------------------
Goto(t, label) == pc' = [pc EXCEPT ![t] = label]

\* _utcnow(), read once before the write.
Stamp(t) == stamp' = [stamp EXCEPT ![t] = now]

Conv(t) == SessionOf[t]

\* lastInteraction < now - timeout
Stale(s) == last[s] < now - Timeout

\* get_or_create_conversation reads the clock for the document it may insert ...
Start(t) ==
    /\ pc[t] = "idle"
    /\ Stamp(t)
    /\ Goto(t, "find")
    /\ UNCHANGED <<now, owner, status, last, role, saved>>

\* ... and the conversation: this one read decides everything that follows.
Find(t) ==
    /\ pc[t] = "find"
    /\ \/ /\ status[Conv(t)] = "none"
          /\ Goto(t, "create")
       \/ /\ status[Conv(t)] # "none"
          /\ owner[Conv(t)] # UserOf[t]
          /\ Goto(t, "denied")
       \/ /\ owner[Conv(t)] = UserOf[t]
          /\ status[Conv(t)] \in {"closed", "expired"}
          /\ Goto(t, "expired")
       \/ /\ owner[Conv(t)] = UserOf[t]
          /\ status[Conv(t)] = "active"
          /\ Goto(t, IF Stale(Conv(t)) THEN "expire" ELSE "agent")
    /\ UNCHANGED <<now, owner, status, last, role, stamp, saved>>

\* Bug: no unique index on sessionId, the last insert wins.
CreateAgain(t) ==
    /\ pc[t] = "create"
    /\ owner' = [owner EXCEPT ![Conv(t)] = UserOf[t]]
    /\ status' = [status EXCEPT ![Conv(t)] = "active"]
    /\ last' = [last EXCEPT ![Conv(t)] = stamp[t]]
    /\ Goto(t, "agent")
    /\ UNCHANGED <<now, role, stamp, saved>>

\* insert_one, with the unique index on sessionId: of two turns that both found
\* no conversation the second gets a duplicate key error.
Create(t) ==
    /\ pc[t] = "create"
    /\ \/ /\ status[Conv(t)] = "none"
          /\ owner' = [owner EXCEPT ![Conv(t)] = UserOf[t]]
          /\ status' = [status EXCEPT ![Conv(t)] = "active"]
          /\ last' = [last EXCEPT ![Conv(t)] = stamp[t]]
          /\ Goto(t, "agent")
       \/ /\ status[Conv(t)] # "none"
          /\ Goto(t, "failed")
          /\ UNCHANGED <<owner, status, last>>
    /\ UNCHANGED <<now, role, stamp, saved>>

\* update_one({_id}, status: expired): nothing is checked again.  The reply may
\* be lost.
Expire(t) ==
    /\ pc[t] = "expire"
    /\ status' = [status EXCEPT ![Conv(t)] = "expired"]
    /\ \E end \in {"expired", "failed"} : Goto(t, end)
    /\ UNCHANGED <<now, owner, last, role, stamp, saved>>

\* The agent, the Judge and the output guardrail have produced an answer.
AgentDone(t) ==
    /\ pc[t] = "agent"
    /\ Goto(t, "save")
    /\ UNCHANGED <<now, owner, status, last, role, stamp, saved>>

\* save_message of the user's text is followed by that of the answer, and that
\* by the long-term memory.
AfterSave(t) ==
    /\ role' = [role EXCEPT ![t] = "assistant"]
    /\ Goto(t, IF role[t] = "user" THEN "save" ELSE "memory")

CanSave(t) == owner[Conv(t)] = UserOf[t] /\ status[Conv(t)] = "active"

\* Bug: the answer is saved without asking whether the session is active.
SaveAnswerAnyway(t) ==
    /\ pc[t] = "save"
    /\ CanSave(t) \/ role[t] = "assistant"
    /\ Stamp(t)
    /\ Goto(t, "insert")
    /\ UNCHANGED <<now, owner, status, last, role, saved>>

\* Bug: a session renewed in the meantime drops the message.
SkipsRenewed(t) ==
    /\ pc[t] = "save"
    /\ ~CanSave(t) \/ last[Conv(t)] > stamp[t]
    /\ AfterSave(t)
    /\ UNCHANGED <<now, owner, status, last, stamp, saved>>

\* save_message finds the active conversation of this user and reads the clock
\* for the writes to come ...
SaveFinds(t) ==
    /\ pc[t] = "save"
    /\ CanSave(t)
    /\ Stamp(t)
    /\ Goto(t, "insert")
    /\ UNCHANGED <<now, owner, status, last, role, saved>>

\* ... or silently returns.
SaveSkips(t) ==
    /\ pc[t] = "save"
    /\ ~CanSave(t)
    /\ AfterSave(t)
    /\ UNCHANGED <<now, owner, status, last, stamp, saved>>

Insert(t) ==
    /\ pc[t] = "insert"
    /\ saved' = saved \cup {<<t, role[t]>>}
    /\ Goto(t, "renew")
    /\ UNCHANGED <<now, owner, status, last, role, stamp>>

\* update_one({_id}, lastInteraction), whatever the status is by now.
Renew(t) ==
    /\ pc[t] = "renew"
    /\ last' = [last EXCEPT ![Conv(t)] = stamp[t]]
    /\ AfterSave(t)
    /\ UNCHANGED <<now, owner, status, stamp, saved>>

\* update_memory, in a collection of its own; then the turn is answered.
Remember(t) ==
    /\ pc[t] = "memory"
    /\ Goto(t, "answered")
    /\ UNCHANGED <<now, owner, status, last, role, stamp, saved>>

\* The guardrails or a provider refuse, MongoDB fails, the chat timeout cancels
\* the graph: the turn ends where it stands.
Abort(t) ==
    /\ pc[t] \in Working
    /\ Goto(t, "failed")
    /\ UNCHANGED <<now, owner, status, last, role, stamp, saved>>

\* close_conversation: one guarded update.
Close(s) ==
    /\ status[s] = "active"
    /\ status' = [status EXCEPT ![s] = "closed"]
    /\ UNCHANGED <<now, owner, last, pc, role, stamp, saved>>

Tick ==
    /\ now < MaxTime
    /\ now' = now + 1
    /\ UNCHANGED <<owner, status, last, pc, role, stamp, saved>>

Next ==
    \/ Tick
    \/ \E s \in Sessions : Close(s)
    \/ \E t \in Turns :
        \/ Start(t) \/ Find(t) \/ Create(t) \/ Expire(t) \/ AgentDone(t) \/ Abort(t)
        \/ SaveFinds(t) \/ SaveSkips(t) \/ Insert(t) \/ Renew(t) \/ Remember(t)

Spec == Init /\ [][Next]_vars

-----------------------------------------------------------------------------
(* Properties *)

\* Messages are written only by turns of the user the conversation belongs to,
\* also when two users race to create the same session.
MessagesAreTheOwners == \A m \in saved :
    owner[SessionOf[m[1]]] = UserOf[m[1]]

\* No answer is stored without the question it answers.
QuestionBeforeAnswer == \A t \in Turns :
    <<t, "assistant">> \in saved => <<t, "user">> \in saved

\* A turn that was answered in a session that is still active has left both of
\* its messages there: save_message drops silently only what comes after the
\* session has ended.
AnsweredIsSaved == \A t \in Turns :
    pc[t] = "answered" /\ status[SessionOf[t]] = "active" =>
        {t} \X Roles \subseteq saved

=============================================================================
