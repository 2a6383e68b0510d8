---------------------------- MODULE SessionsProofs ----------------------------
(***************************************************************************)
(* Proofs about Sessions: whose messages a conversation holds and in which  *)
(* pairs, for any number of turns, users and sessions, and any times.       *)
(***************************************************************************)
EXTENDS Sessions, TLAPS

Ended == {"closed", "expired"}

Types ==
    /\ owner \in [Sessions -> Users \cup {NoUser}]
    /\ status \in [Sessions -> Ended \cup {"none", "active"}]
    /\ pc \in [Turns -> Working \cup {"idle", "denied", "expired", "failed", "answered"}]
    /\ role \in [Turns -> Roles]
    /\ saved \subseteq Turns \X Roles

\* A conversation exists if it has an owner, and whoever works in one, or wrote
\* there, is that owner: nothing ever gives it to another user.
OwnerInv ==
    /\ \A s \in Sessions : status[s] = "none" <=> owner[s] = NoUser
    /\ \A t \in Turns :
         pc[t] \in (Working \ {"find", "create"}) \cup {"answered"} => owner[Conv(t)] = UserOf[t]
    /\ \A t \in Turns, m \in Roles : <<t, m>> \in saved => owner[Conv(t)] = UserOf[t]

\* What turn t has saved where it stands.  A question is dropped only by a
\* session that has ended, and an ended session never becomes active again.
Paired(t) ==
    /\ pc[t] \in {"idle", "find", "create", "expire", "agent"} => role[t] = "user"
    /\ pc[t] = "renew" => <<t, role[t]>> \in saved
    /\ role[t] = "assistant" =>
         \/ <<t, "user">> \in saved
         \/ status[Conv(t)] \in Ended /\ pc[t] \notin {"insert", "renew"}
    /\ pc[t] \in {"memory", "answered"} =>
         role[t] = "assistant" /\ (<<t, "assistant">> \in saved \/ status[Conv(t)] \in Ended)
    /\ <<t, "assistant">> \in saved => <<t, "user">> \in saved

PairInv == \A t \in Turns : Paired(t)

IInv == Types /\ OwnerInv /\ PairInv

LEMMA ConvIsSession == \A t \in Turns : Conv(t) \in Sessions /\ UserOf[t] \in Users
  BY SessionsAssumption DEF Conv

LEMMA InitIInv == Init => IInv
  BY ConvIsSession, SessionsAssumption
     DEF Init, IInv, Types, OwnerInv, PairInv, Paired, Ended, Working, Roles

-----------------------------------------------------------------------------
\* A turn that only moves on keeps everything but its place.
LEMMA MovingIInv ==
  ASSUME IInv, NEW t \in Turns,
         Start(t) \/ Find(t) \/ AgentDone(t) \/ Abort(t) \/ SaveFinds(t) \/ Remember(t)
  PROVE  IInv'
  <1> USE ConvIsSession, SessionsAssumption
  <1>1. UNCHANGED <<owner, status, role, saved>>
    BY DEF Start, Find, AgentDone, Abort, SaveFinds, Remember
  <1>2. PICK label \in Working \cup {"denied", "expired", "failed", "answered"} :
          pc' = [pc EXCEPT ![t] = label]
    BY DEF Start, Find, AgentDone, Abort, SaveFinds, Remember, Goto, Working
  <1>3. Types'
    BY <1>1, <1>2 DEF IInv, Types
  <1>4. OwnerInv'
    BY <1>1, <1>2 DEF IInv, Types, OwnerInv, Start, Find, AgentDone, Abort, SaveFinds, Remember,
       Goto, CanSave, Working, Ended, Conv
  <1>5. ASSUME NEW u \in Turns PROVE Paired(u)'
    <2>1. Paired(u)
      BY DEF IInv, PairInv
    <2>2. CASE u # t
      BY <1>1, <1>2, <2>1, <2>2 DEF IInv, Types, Paired, Conv
    <2>3. ASSUME u = t PROVE Paired(t)'
      <3>1. pc'[t] = label /\ Paired(t) /\ Conv(t)' = Conv(t)
        BY <1>2, <2>1, <2>3 DEF IInv, Types, Conv
      <3>2. CASE Start(t) \/ Find(t) \/ AgentDone(t)
        BY <1>1, <3>1, <3>2 DEF IInv, Types, Paired, Start, Find, AgentDone, Goto
      <3>3. CASE Abort(t)
        BY <1>1, <3>1, <3>3 DEF IInv, Types, Paired, Abort, Goto
      <3>4. CASE SaveFinds(t)
        BY <1>1, <3>1, <3>4 DEF IInv, Types, Paired, SaveFinds, CanSave, Goto, Ended
      <3>5. CASE Remember(t)
        BY <1>1, <3>1, <3>5 DEF IInv, Types, Paired, Remember, Goto
      <3> QED BY <3>2, <3>3, <3>4, <3>5
    <2> QED BY <2>2, <2>3
  <1> QED BY <1>3, <1>4, <1>5 DEF IInv, PairInv

\* The first of the turns that found no conversation gives it its owner.
LEMMA CreateIInv ==
  ASSUME IInv, NEW t \in Turns, Create(t)
  PROVE  IInv'
  <1> USE ConvIsSession, SessionsAssumption
  <1>1. Types'
    BY DEF IInv, Types, Create, Goto, Working, Ended
  <1>2. OwnerInv'
    BY DEF IInv, Types, OwnerInv, Create, Goto, Working, Ended
  <1>3. ASSUME NEW u \in Turns PROVE Paired(u)'
    <2>1. Paired(u) /\ Conv(u) \in Sessions /\ Conv(u)' = Conv(u)
      BY DEF IInv, PairInv, Conv
    <2>2. status[Conv(u)] \in Ended => status'[Conv(u)] = status[Conv(u)]
      BY <2>1 DEF IInv, Types, Create, Ended
    <2>3. CASE u # t
      <3>1. UNCHANGED <<role, saved>> /\ pc'[u] = pc[u]
        BY <2>3 DEF IInv, Types, Create, Goto
      <3> QED BY <2>1, <2>2, <3>1 DEF Paired
    <2>4. CASE u = t
      <3>1. UNCHANGED <<role, saved>> /\ pc[u] = "create" /\ pc'[u] \in {"agent", "failed"}
        BY <2>4 DEF IInv, Types, Create, Goto
      <3> QED BY <2>1, <3>1 DEF Paired
    <2> QED BY <2>3, <2>4
  <1> QED BY <1>1, <1>2, <1>3 DEF IInv, PairInv

\* A conversation ends: what held for an active one need not hold any more.
LEMMA EndingIInv ==
  ASSUME IInv, (\E s \in Sessions : Close(s)) \/ (\E t \in Turns : Expire(t))
  PROVE  IInv'
  <1> USE ConvIsSession, SessionsAssumption
  <1>1. ASSUME NEW s \in Sessions, Close(s) PROVE IInv'
    <2>1. Types' /\ UNCHANGED <<owner, pc, role, saved>> /\ status[s] = "active"
      BY <1>1 DEF IInv, Types, Close, Ended
    <2>2. status' = [status EXCEPT ![s] = "closed"]
      BY <1>1 DEF Close
    <2>3. OwnerInv'
      BY <2>1, <2>2 DEF IInv, Types, OwnerInv, Conv
    <2>4. PairInv'
      BY <2>1, <2>2 DEF IInv, Types, PairInv, Paired, Conv, Ended
    <2> QED BY <2>1, <2>3, <2>4 DEF IInv
  <1>2. ASSUME NEW t \in Turns, Expire(t) PROVE IInv'
    <2>1. Types'
      BY <1>2 DEF IInv, Types, Expire, Goto, Working, Ended
    <2>2. OwnerInv'
      BY <1>2 DEF IInv, Types, OwnerInv, Expire, Goto, Working, Ended
    <2>3. ASSUME NEW u \in Turns PROVE Paired(u)'
      <3>1. /\ Paired(u) /\ Conv(u) \in Sessions /\ Conv(u)' = Conv(u)
            /\ UNCHANGED <<role, saved>>
        BY <1>2 DEF IInv, PairInv, Conv, Expire
      <3>2. status[Conv(u)] \in Ended => status'[Conv(u)] \in Ended
        BY <1>2, <3>1 DEF IInv, Types, Expire, Ended
      <3>3. CASE u # t
        <4>1. pc'[u] = pc[u]
          BY <1>2, <3>3 DEF IInv, Types, Expire, Goto
        <4> QED BY <3>1, <3>2, <4>1 DEF Paired
      <3>4. CASE u = t
        <4>1. pc[u] = "expire" /\ pc'[u] \in {"expired", "failed"}
          BY <1>2, <3>4 DEF IInv, Types, Expire, Goto
        <4> QED BY <3>1, <4>1 DEF Paired
      <3> QED BY <3>3, <3>4
    <2> QED BY <2>1, <2>2, <2>3 DEF IInv, PairInv
  <1> QED BY <1>1, <1>2

\* A message is inserted, and the turn goes on to the next one.
LEMMA SavingIInv ==
  ASSUME IInv, NEW t \in Turns, SaveSkips(t) \/ Insert(t) \/ Renew(t)
  PROVE  IInv'
  <1> USE ConvIsSession, SessionsAssumption
  <1>1. CASE SaveSkips(t)
    <2>1. status[Conv(t)] \in Ended
      BY <1>1 DEF SaveSkips, CanSave, IInv, Types, OwnerInv, Working
    <2>2. Types'
      BY <1>1 DEF IInv, Types, SaveSkips, AfterSave, Goto, Working, Roles
    <2>3. OwnerInv'
      BY <1>1 DEF IInv, Types, OwnerInv, SaveSkips, AfterSave, Goto, Working, Conv
    <2>4. PairInv'
      BY <1>1, <2>1 DEF IInv, Types, PairInv, Paired, SaveSkips, AfterSave, Goto, Roles, Conv
    <2> QED BY <2>2, <2>3, <2>4 DEF IInv
  <1>2. CASE Insert(t)
    <2>1. Types'
      BY <1>2 DEF IInv, Types, Insert, Goto, Working
    <2>2. OwnerInv'
      BY <1>2 DEF IInv, Types, OwnerInv, Insert, Goto, Working, Conv
    <2>3. PairInv'
      BY <1>2 DEF IInv, Types, PairInv, Paired, Insert, Goto, Roles, Conv
    <2> QED BY <2>1, <2>2, <2>3 DEF IInv
  <1>3. CASE Renew(t)
    <2>1. Types'
      BY <1>3 DEF IInv, Types, Renew, AfterSave, Goto, Working, Roles
    <2>2. OwnerInv'
      BY <1>3 DEF IInv, Types, OwnerInv, Renew, AfterSave, Goto, Working, Conv
    <2>3. PairInv'
      BY <1>3 DEF IInv, Types, PairInv, Paired, Renew, AfterSave, Goto, Roles, Conv
    <2> QED BY <2>1, <2>2, <2>3 DEF IInv
  <1> QED BY <1>1, <1>2, <1>3

LEMMA NextIInv == IInv /\ [Next]_vars => IInv'
  <1> SUFFICES ASSUME IInv, [Next]_vars PROVE IInv'
    OBVIOUS
  <1>1. CASE Tick
    BY <1>1 DEF Tick, IInv, Types, OwnerInv, PairInv, Paired, Conv
  <1>2. ASSUME NEW s \in Sessions, Close(s) PROVE IInv'
    BY <1>2, EndingIInv
  <1>3. ASSUME NEW t \in Turns,
               \/ Start(t) \/ Find(t) \/ Create(t) \/ Expire(t) \/ AgentDone(t) \/ Abort(t)
               \/ SaveFinds(t) \/ SaveSkips(t) \/ Insert(t) \/ Renew(t) \/ Remember(t)
        PROVE  IInv'
    BY <1>3, MovingIInv, CreateIInv, EndingIInv, SavingIInv
  <1>4. CASE UNCHANGED vars
    BY <1>4 DEF vars, IInv, Types, OwnerInv, PairInv, Paired, Conv
  <1> QED BY <1>1, <1>2, <1>3, <1>4 DEF Next

LEMMA AlwaysIInv == Spec => []IInv
  BY InitIInv, NextIInv, PTL DEF Spec

-----------------------------------------------------------------------------
\* A conversation holds messages of its owner's turns only, also when several
\* users race to create it (get_or_create_conversation).
THEOREM OwnersOnly == Spec => []MessagesAreTheOwners
  <1>1. IInv => MessagesAreTheOwners
    BY DEF IInv, Types, OwnerInv, MessagesAreTheOwners, Conv
  <1> QED BY <1>1, AlwaysIInv, PTL

\* No answer stands in the history without its question, wherever turns, their
\* failures and closings interleave with the saves (save_message).
THEOREM QuestionsComeFirst == Spec => []QuestionBeforeAnswer
  <1>1. IInv => QuestionBeforeAnswer
    BY DEF IInv, PairInv, Paired, QuestionBeforeAnswer
  <1> QED BY <1>1, AlwaysIInv, PTL

\* A turn answered in a session that is still active has stored both of its
\* messages (save_message drops one only when the session has ended).
THEOREM AnswersAreStored == Spec => []AnsweredIsSaved
  <1>1. IInv => AnsweredIsSaved
    <2> SUFFICES ASSUME IInv, NEW t \in Turns, pc[t] = "answered",
                        status[SessionOf[t]] = "active"
                 PROVE  {t} \X Roles \subseteq saved
      BY DEF AnsweredIsSaved
    <2>1. status[Conv(t)] \notin Ended
      BY DEF Conv, Ended
    <2>2. <<t, "assistant">> \in saved /\ <<t, "user">> \in saved
      BY <2>1 DEF IInv, PairInv, Paired
    <2> QED BY <2>2 DEF Roles
  <1> QED BY <1>1, AlwaysIInv, PTL
=============================================================================
