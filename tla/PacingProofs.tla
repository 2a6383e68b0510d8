----------------------------- MODULE PacingProofs -----------------------------
(***************************************************************************)
(* Proofs about ProviderPacing with Groq, for any number of calls, any      *)
(* Retry-After and any number of attempts.  Both rest on the lock: without  *)
(* it an older answer takes back what a later 429 reserved.                 *)
(***************************************************************************)
EXTENDS ProviderPacing, TLAPS

\* The call inside the lock is the only one that reads or moves readyAt: a
\* sleeping call wakes at readyAt itself, and a request in flight was sent at
\* or after it.  A call that has not ended has an attempt left.
PaceInv ==
    /\ announced <= readyAt
    /\ \A c \in Calls :
        /\ pc[c] \in Inside => holder = c
        /\ pc[c] \notin Ended => attempts[c] < MaxAttempts
        /\ pc[c] = "sleep" => wakeAt[c] = readyAt
        /\ pc[c] = "calling" => readyAt <= started[c] /\ started[c] <= now

IInv == TypeOK /\ PaceInv

LEMMA InitIInv == Init => IInv
  BY PacingAssumption DEF Init, IInv, TypeOK, PaceInv, Inside, Ended

\* A failed attempt, whatever it does to the reservation within its bound: no
\* other call is inside the lock, so none sleeps or waits for an answer.
LEMMA RetryKeepsIInv ==
  ASSUME Groq, IInv, NEW c \in Calls, pc[c] = "calling", Retry(c),
         UNCHANGED <<now, started, dueAt>>,
         readyAt' \in Nat, announced' \in Nat, announced' <= readyAt'
  PROVE  IInv'
  <1> USE PacingAssumption DEF IInv, TypeOK, PaceInv, Inside, Ended, Goto, LeaveLock
  <1>1. holder = c /\ \A o \in Calls : o # c => pc[o] \notin Inside
    OBVIOUS
  <1>2. attempts[c] \in Nat /\ attempts[c] < MaxAttempts
    OBVIOUS
  <1>3. CASE attempts[c] + 1 < MaxAttempts
    <2>1. /\ attempts' = [attempts EXCEPT ![c] = attempts[c] + 1]
          /\ pc' = [pc EXCEPT ![c] = "backoff"]
          /\ wakeAt' = [wakeAt EXCEPT ![c] = now + 1]
          /\ holder' = c
      BY <1>1, <1>3 DEF Retry
    <2>2. TypeOK'
      BY <1>2, <1>3, <2>1
    <2>3. PaceInv'
      BY <1>1, <1>2, <1>3, <2>1
    <2> QED BY <2>2, <2>3
  <1>4. CASE ~(attempts[c] + 1 < MaxAttempts)
    <2>1. /\ attempts' = [attempts EXCEPT ![c] = attempts[c] + 1]
          /\ pc' = [pc EXCEPT ![c] = "failed"]
          /\ wakeAt' = wakeAt
          /\ holder' = Nobody
      BY <1>1, <1>4 DEF Retry
    <2>2. attempts[c] + 1 \in 0 .. MaxAttempts
      BY ONLY <1>2, <1>4, PacingAssumption
    <2>3. TypeOK'
      BY <2>1, <2>2
    <2>4. PaceInv'
      BY <1>1, <2>1
    <2> QED BY <2>3, <2>4
  <1> QED BY <1>3, <1>4

LEMMA NextIInv == Groq /\ IInv /\ [Next]_vars => IInv'
  <1> SUFFICES ASSUME Groq, IInv, [Next]_vars PROVE IInv'
    OBVIOUS
  <1> USE PacingAssumption
      DEF IInv, TypeOK, PaceInv, Inside, Ended, Goto, LeaveLock, Later
  <1>0. CASE UNCHANGED vars
    BY <1>0 DEF vars
  <1>1. CASE Tick
    BY <1>1 DEF Tick
  <1>2. ASSUME NEW c \in Calls, Start(c) PROVE IInv'
    BY <1>2 DEF Start
  <1>3. ASSUME NEW c \in Calls, Moves(c) PROVE IInv'
    <2>1. CASE TakeLock(c)
      BY <2>1 DEF TakeLock
    <2>2. CASE Send(c)
      BY <2>2 DEF Send
    <2>3. CASE Sleep(c)
      BY <2>3 DEF Sleep
    <2>4. CASE SendAfterSleep(c)
      BY <2>4 DEF SendAfterSleep
    <2>5. CASE BackoffEnds(c)
      BY <2>5 DEF BackoffEnds
    <2>6. CASE TimedOut(c)
      BY <2>6 DEF TimedOut
    <2> QED BY <1>3, <2>1, <2>2, <2>3, <2>4, <2>5, <2>6 DEF Moves
  <1>4. ASSUME NEW c \in Calls, Provider(c) PROVE IInv'
    <2>1. CASE Limited(c)
      <3>1. PICK d \in RetryAfters : readyAt' = now + d /\ announced' = Later(announced, now + d)
        BY <2>1 DEF Limited
      <3>2. readyAt' \in Nat /\ announced' \in Nat /\ announced' <= readyAt'
        BY <2>1, <3>1 DEF Limited
      <3> QED BY ONLY <2>1, <3>2, Groq, IInv, RetryKeepsIInv DEF Limited
    <2>2. CASE Transient(c)
      <3>1. readyAt' \in Nat /\ announced' \in Nat /\ announced' <= readyAt'
        BY <2>2 DEF Transient
      <3> QED BY ONLY <2>2, <3>1, Groq, IInv, RetryKeepsIInv DEF Transient
    <2>3. CASE Answer(c)
      BY <2>3 DEF Answer
    <2>4. CASE Raise(c)
      BY <2>4 DEF Raise
    <2> QED BY <1>4, <2>1, <2>2, <2>3, <2>4 DEF Provider
  <1> QED BY <1>0, <1>1, <1>2, <1>3, <1>4 DEF Next

THEOREM Invariance == ASSUME Groq PROVE Spec => []IInv
  BY InitIInv, NextIInv, PTL DEF Spec

\* The variables of ainvoke() keep their types.
THEOREM TypeCorrect == ASSUME Groq PROVE Spec => []TypeOK
  BY Invariance, PTL DEF IInv

\* With Groq no request is sent before the time any 429 asked to wait for.
THEOREM RetryAfterRespected == ASSUME Groq PROVE Spec => RespectsRetryAfter
  <1>1. IInv /\ [Next]_vars =>
            \A c \in Calls : pc[c] # "calling" /\ pc'[c] = "calling" => now >= announced
    <2> SUFFICES ASSUME IInv, [Next]_vars, NEW c \in Calls,
                        pc[c] # "calling", pc'[c] = "calling"
                 PROVE  now >= announced
      OBVIOUS
    <2>1. Send(c) \/ SendAfterSleep(c)
      BY DEF IInv, TypeOK, Next, Start, Moves, Provider, TakeLock, Send, Sleep,
             SendAfterSleep, BackoffEnds, TimedOut, Limited, Transient, Retry,
             Answer, Raise, Tick, Goto, vars
    <2>2. readyAt <= now
      BY <2>1 DEF Send, SendAfterSleep, IInv, PaceInv
    <2> QED BY <2>2 DEF IInv, TypeOK, PaceInv
  <1> QED BY <1>1, Invariance, PTL DEF Spec, RespectsRetryAfter

\* With Groq the reserved time only grows.
THEOREM ReservationKept == ASSUME Groq PROVE Spec => ReadyNeverEarlier
  <1>1. IInv /\ [Next]_vars => readyAt' >= readyAt
    <2> SUFFICES ASSUME IInv, [Next]_vars PROVE readyAt' >= readyAt
      OBVIOUS
    <2> USE PacingAssumption DEF IInv, TypeOK, PaceInv
    <2>1. ASSUME NEW c \in Calls, Limited(c) PROVE readyAt' >= readyAt
      BY <2>1 DEF Limited
    <2>2. ASSUME NEW c \in Calls, Answer(c) PROVE readyAt' >= readyAt
      BY <2>2 DEF Answer
    <2>3. CASE ~\E c \in Calls : Limited(c) \/ Answer(c)
      BY <2>3 DEF Next, Start, Moves, Provider, TakeLock, Send, Sleep,
             SendAfterSleep, BackoffEnds, TimedOut, Transient, Raise, Tick, vars
    <2> QED BY <2>1, <2>2, <2>3
  <1> QED BY <1>1, Invariance, PTL DEF Spec, ReadyNeverEarlier
=============================================================================
