---------------------------- MODULE ProviderPacing ----------------------------
(***************************************************************************)
(* app/agents/runtime.py: ProviderRunnable.ainvoke(), the retry layer every *)
(* model call goes through.  The process shares one _provider_ready_at: a   *)
(* 429 moves it by the Retry-After of the answer, a Groq success by the     *)
(* tokens it used.  With Groq the calls also share a lock from before the   *)
(* wait to the last retry; with another provider they do not.               *)
(***************************************************************************)
EXTENDS Integers, FiniteSets

CONSTANTS Calls,
          Groq,             \* settings.llm_provider = "groq"
          RetryAfters,      \* seconds a 429 may ask for
          Paces,            \* 60 * tokens / llm_tokens_per_minute of an answer;
                            \* empty if the setting is 0
          MaxAttempts,      \* settings.llm_max_retries
          Deadline,         \* settings.llm_request_timeout_seconds
          MaxTime,          \* bound: no call starts that would end later
          Nobody

ASSUME PacingAssumption ==
    /\ Groq \in BOOLEAN
    /\ RetryAfters \subseteq Nat /\ Paces \subseteq Nat
    /\ MaxAttempts \in Nat \ {0} /\ Deadline \in Nat \ {0} /\ MaxTime \in Nat
    /\ Nobody \notin Calls

VARIABLES now,          \* time.monotonic()
          readyAt,      \* _provider_ready_at
          holder,       \* the owner of _provider_lock
          pc,
          wakeAt,       \* when the sleep or the backoff of a call ends
          started,      \* when its current attempt was sent
          attempts,     \* attempts it has made
          dueAt,        \* its deadline
          announced     \* history: the latest time a 429 asked to wait for

vars == <<now, readyAt, holder, pc, wakeAt, started, attempts, dueAt, announced>>

Inside == {"attempt", "sleep", "calling", "backoff"}

Ended == {"answered", "failed", "timeout"}

TypeOK ==
    /\ now \in Nat
    /\ readyAt \in Nat
    /\ holder \in Calls \cup {Nobody}
    /\ pc \in [Calls -> {"idle", "queue"} \cup Inside \cup Ended]
    /\ wakeAt \in [Calls -> Nat]
    /\ started \in [Calls -> Nat]
    /\ attempts \in [Calls -> 0 .. MaxAttempts]
    /\ dueAt \in [Calls -> Nat]
    /\ announced \in Nat

Init ==
    /\ now = 0
    /\ readyAt = 0
    /\ holder = Nobody
    /\ pc = [c \in Calls |-> "idle"]
    /\ wakeAt = [c \in Calls |-> 0]
    /\ started = [c \in Calls |-> 0]
    /\ attempts = [c \in Calls |-> 0]
    /\ dueAt = [c \in Calls |-> 0]
    /\ announced = 0

-----------------------------------------------------------------------------
Goto(c, label) == pc' = [pc EXCEPT ![c] = label]

Later(a, b) == IF a < b THEN b ELSE a

\* Leaving the "async with" of the lock, if this call is inside it.
LeaveLock(c) == holder' = IF holder = c THEN Nobody ELSE holder

\* asyncio.timeout starts before the lock is asked for.
Start(c) ==
    /\ pc[c] = "idle"
    /\ now + Deadline <= MaxTime
    /\ dueAt' = [dueAt EXCEPT ![c] = now + Deadline]
    /\ Goto(c, IF Groq THEN "queue" ELSE "attempt")
    /\ UNCHANGED <<now, readyAt, holder, wakeAt, started, attempts, announced>>

TakeLock(c) ==
    /\ pc[c] = "queue"
    /\ holder = Nobody
    /\ holder' = c
    /\ Goto(c, "attempt")
    /\ UNCHANGED <<now, readyAt, wakeAt, started, attempts, dueAt, announced>>

\* Bug: every attempt is sent at once, as the first one of an idle process.
SendAtOnce(c) ==
    /\ pc[c] = "attempt"
    /\ started' = [started EXCEPT ![c] = now]
    /\ Goto(c, "calling")
    /\ UNCHANGED <<now, readyAt, holder, wakeAt, attempts, dueAt, announced>>

\* No delay: the request is sent in the same step.
Send(c) ==
    /\ pc[c] = "attempt"
    /\ readyAt <= now
    /\ started' = [started EXCEPT ![c] = now]
    /\ Goto(c, "calling")
    /\ UNCHANGED <<now, readyAt, holder, wakeAt, attempts, dueAt, announced>>

\* The delay is computed once, from _provider_ready_at as it is now.
Sleep(c) ==
    /\ pc[c] = "attempt"
    /\ readyAt > now
    /\ wakeAt' = [wakeAt EXCEPT ![c] = readyAt]
    /\ Goto(c, "sleep")
    /\ UNCHANGED <<now, readyAt, holder, started, attempts, dueAt, announced>>

\* After the sleep the request is sent without another look.
SendAfterSleep(c) ==
    /\ pc[c] = "sleep"
    /\ now >= wakeAt[c]
    /\ started' = [started EXCEPT ![c] = now]
    /\ Goto(c, "calling")
    /\ UNCHANGED <<now, readyAt, holder, wakeAt, attempts, dueAt, announced>>

\* The attempt failed with a transient error: a jittered backoff, or the last
\* error is raised.
Retry(c) ==
    /\ attempts' = [attempts EXCEPT ![c] = @ + 1]
    /\ IF attempts[c] + 1 < MaxAttempts
       THEN /\ Goto(c, "backoff")
            /\ wakeAt' = [wakeAt EXCEPT ![c] = now + 1]
            /\ UNCHANGED holder
       ELSE /\ Goto(c, "failed")
            /\ LeaveLock(c)
            /\ UNCHANGED wakeAt

\* 429 with a Retry-After header (1 if it is missing or malformed).
Limited(c) ==
    /\ pc[c] = "calling"
    /\ \E d \in RetryAfters :
        /\ readyAt' = now + d
        /\ announced' = Later(announced, now + d)
    /\ Retry(c)
    /\ UNCHANGED <<now, started, dueAt>>

Transient(c) ==
    /\ pc[c] = "calling"
    /\ Retry(c)
    /\ UNCHANGED <<now, readyAt, started, dueAt, announced>>

\* wait_exponential_jitter: at least initial=1, here one unit of the clock.
BackoffEnds(c) ==
    /\ pc[c] = "backoff"
    /\ now >= wakeAt[c]
    /\ Goto(c, "attempt")
    /\ UNCHANGED <<now, readyAt, holder, wakeAt, started, attempts, dueAt, announced>>

\* A Groq answer reserves the time its tokens are worth.
Answer(c) ==
    /\ pc[c] = "calling"
    /\ IF Groq /\ Paces # {}
       THEN \E p \in Paces : readyAt' = started[c] + p
       ELSE UNCHANGED readyAt
    /\ Goto(c, "answered")
    /\ LeaveLock(c)
    /\ UNCHANGED <<now, wakeAt, started, attempts, dueAt, announced>>

\* An error that is not retried.
Raise(c) ==
    /\ pc[c] = "calling"
    /\ Goto(c, "failed")
    /\ LeaveLock(c)
    /\ UNCHANGED <<now, readyAt, wakeAt, started, attempts, dueAt, announced>>

\* Bug: the deadline does not cover the wait for the lock and the retries.
TimeoutOfRequest(c) ==
    /\ pc[c] = "calling"
    /\ now >= dueAt[c]
    /\ Goto(c, "timeout")
    /\ LeaveLock(c)
    /\ UNCHANGED <<now, readyAt, wakeAt, started, attempts, dueAt, announced>>

\* One deadline for the wait, the attempts and the backoffs.
TimedOut(c) ==
    /\ pc[c] \in {"queue"} \cup Inside
    /\ now >= dueAt[c]
    /\ Goto(c, "timeout")
    /\ LeaveLock(c)
    /\ UNCHANGED <<now, readyAt, wakeAt, started, attempts, dueAt, announced>>

Running(c) == pc[c] \in {"queue"} \cup Inside

\* Time passes, but the event loop fires a deadline that is due.
Tick ==
    /\ now < MaxTime
    /\ \A c \in Calls : Running(c) => now < dueAt[c]
    /\ now' = now + 1
    /\ UNCHANGED <<readyAt, holder, pc, wakeAt, started, attempts, dueAt, announced>>

Moves(c) ==
    \/ TakeLock(c) \/ Send(c) \/ Sleep(c) \/ SendAfterSleep(c) \/ BackoffEnds(c)
    \/ TimedOut(c)

Provider(c) == Limited(c) \/ Transient(c) \/ Answer(c) \/ Raise(c)

Next == Tick \/ \E c \in Calls : Start(c) \/ Moves(c) \/ Provider(c)

Spec == Init /\ [][Next]_vars

\* The event loop runs what is due and the clock goes on; the provider owes
\* nothing, the deadline covers its silence.
FairSpec == Spec /\ WF_vars(Tick) /\ \A c \in Calls : WF_vars(Moves(c))

-----------------------------------------------------------------------------
(* Properties *)

\* README.md, LLM_TOKENS_PER_MINUTE: "O runtime respeita `Retry-After` em
\* respostas 429": no request is sent before the time any 429 asked to wait for.
RespectsRetryAfter == [][\A c \in Calls :
    pc[c] # "calling" /\ pc'[c] = "calling" => now >= announced]_vars

\* An answer or a 429 never takes back time that was reserved before it.
ReadyNeverEarlier == [][readyAt' >= readyAt]_vars

\* Whatever the provider does, and however long the queue is, a call ends.
CallsEnd == \A c \in Calls : pc[c] # "idle" ~> pc[c] \in Ended
=============================================================================
