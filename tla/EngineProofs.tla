----------------------------- MODULE EngineProofs -----------------------------
(***************************************************************************)
(* Proofs about PredictiveEngine, for any number of overlapping analyses,   *)
(* of alerts and of publications, whatever fails: what the webhook's        *)
(* markers and deliveries say of each other, and of which days an answer is *)
(***************************************************************************)
EXTENDS PredictiveEngine, TLAPS

\* All that the webhook needs to know of a run.
Record(s) == "pc" \in DOMAIN s /\ "left" \in DOMAIN s /\ s.left \subseteq Alerts

Types ==
    /\ marked \subseteq Alerts /\ excused \subseteq Alerts
    /\ delivered \in [Alerts -> 0 .. 2]
    /\ DOMAIN run = Runs /\ \A r \in Runs : Record(run[r])

Notifying(s) == s.pc \in {"post", "mark"}

\* Run r has looked for the marker of alert a and not yet set it.
Holds(r, a) == Notifying(run[r]) /\ First(run[r].left) = a

\* As long as nothing excuses a repetition: the one run that holds an alert
\* found no marker, and a delivered alert has its marker or is about to get it.
HookInv ==
    /\ \A r \in Runs : Notifying(run[r]) => run[r].left # {}
    /\ \A r \in Runs : run[r].pc = "mark" => delivered[First(run[r].left)] > 0
    /\ \A a \in marked : delivered[a] > 0
    /\ \A a \in Alerts \ excused :
         /\ delivered[a] <= 1
         /\ delivered[a] > 0 => a \in marked \/ \E r \in Runs : run[r].pc = "mark" /\ Holds(r, a)
         /\ \A r \in Runs : Holds(r, a) =>
              a \notin marked /\ \A s \in Runs \ {r} : ~Holds(s, a)

IInv == Types /\ HookInv

LEMMA FirstIsOne == \A S : S # {} => First(S) \in S
  BY DEF First

LEMMA InitIInv == Init => IInv
  <1> SUFFICES ASSUME Init PROVE IInv
    OBVIOUS
  <1>1. Record(Unbegun) /\ Unbegun.pc = "idle"
    BY DEF Unbegun, Record
  <1>2. DOMAIN run = Runs /\ \A r \in Runs : Record(run[r]) /\ run[r].pc = "idle"
    BY <1>1 DEF Init
  <1>3. Types
    BY <1>2 DEF Init, Types
  <1>4. HookInv
    BY <1>2 DEF Init, HookInv, Holds, Notifying
  <1> QED BY <1>3, <1>4 DEF IInv

\* A step that leaves the webhook alone, and every run at its place in it.
LEMMA SilentStep ==
  ASSUME HookInv, UNCHANGED hook,
         \A r \in Runs : Notifying(run[r]) \/ Notifying(run'[r])
            => run'[r].pc = run[r].pc /\ run'[r].left = run[r].left
  PROVE  HookInv'
  BY DEF HookInv, Holds, Notifying, hook

LEMMA EndedType ==
  ASSUME NEW s, Record(s), NEW status, NEW fault
  PROVE  Record(Ended(s, status, fault)) /\ Ended(s, status, fault).pc = "ended"
  <1> DEFINE t == IF status = 200 THEN s ELSE Unbegun
  <1>1. Record(t)
    BY DEF Record, Unbegun
  <1>2. Ended(s, status, fault) = [t EXCEPT !.pc = "ended", !.status = status, !.fault = fault]
    BY DEF Ended
  <1> HIDE DEF t
  <1> QED BY <1>1, <1>2 DEF Record

\* What becomes of the runs when one of them changes.
LEMMA BecomeType ==
  ASSUME Types, NEW r \in Runs, NEW s, Record(s), Become(r, s)
  PROVE  /\ DOMAIN run' = Runs /\ \A o \in Runs : Record(run'[o])
         /\ \A o \in Runs : run'[o] = IF o = r THEN s ELSE run[o]
  BY DEF Types, Become

\* One run changes, and is not in the middle of the webhook before or after.
LEMMA QuietRun ==
  ASSUME IInv, NEW r \in Runs, NEW s, Record(s), Become(r, s), UNCHANGED hook,
         ~Notifying(run[r]), ~Notifying(s)
  PROVE  IInv'
  <1>1. /\ DOMAIN run' = Runs /\ \A o \in Runs : Record(run'[o])
        /\ \A o \in Runs : run'[o] = IF o = r THEN s ELSE run[o]
    BY BecomeType DEF IInv
  <1>2. Types'
    BY <1>1 DEF IInv, Types, hook
  <1>3. HookInv'
    BY <1>1, SilentStep DEF IInv
  <1> QED BY <1>2, <1>3 DEF IInv

-----------------------------------------------------------------------------
(* The steps outside the webhook *)

LEMMA TriggerStep == ASSUME IInv, NEW r \in Runs, Trigger(r) PROVE IInv'
  <1> DEFINE s == [run[r] EXCEPT !.pc = "expiring"]
  <1>1. Record(run[r])
    BY DEF IInv, Types
  <1>2. Record(s) /\ s.pc = "expiring"
    BY <1>1 DEF Record
  <1>3. Become(r, s) /\ UNCHANGED hook /\ run[r].pc = "idle"
    BY DEF Trigger
  <1> HIDE DEF s
  <1> QED BY <1>2, <1>3, QuietRun DEF Notifying

\* A run that is reading, and gets an answer that keeps what the webhook needs.
LEMMA ReadStep ==
  ASSUME IInv, NEW r \in Runs, NEW c \in Reads, Reading(r, c), NEW s, Record(s), ~Notifying(s),
         Become(r, s)
  PROVE  IInv'
  <1>1. run[r].pc \in Reads /\ UNCHANGED hook
    BY DEF Reading
  <1>2. ~Notifying(run[r])
    BY <1>1 DEF Notifying, Reads
  <1> QED BY <1>1, <1>2, QuietRun

LEMMA ReadKeeps ==
  ASSUME Types, NEW r \in Runs, NEW c, NEW s \in Read(r, c)
  PROVE  Record(s)
  BY DEF Types, Record, Read

LEMMA ExpiringStep == ASSUME IInv, NEW r \in Runs, GetExpiringBatches(r) PROVE IInv'
  <1>1. PICK s \in Read(r, "expiring") : Become(r, [s EXCEPT !.pc = "sales"])
    BY DEF GetExpiringBatches
  <1>2. Record(s)
    BY ReadKeeps DEF IInv
  <1>3. Record([s EXCEPT !.pc = "sales"]) /\ ~Notifying([s EXCEPT !.pc = "sales"])
    BY <1>2 DEF Record, Notifying
  <1>4. Reading(r, "expiring") /\ "expiring" \in Reads
    BY DEF GetExpiringBatches, Reads
  <1> QED BY <1>1, <1>3, <1>4, ReadStep

LEMMA SalesStep == ASSUME IInv, NEW r \in Runs, GetSalesSummary(r) PROVE IInv'
  <1>1. PICK s \in Read(r, "sales") : Become(r, [s EXCEPT !.pc = "alerts"])
    BY DEF GetSalesSummary
  <1>2. Record(s)
    BY ReadKeeps DEF IInv
  <1>3. Record([s EXCEPT !.pc = "alerts"]) /\ ~Notifying([s EXCEPT !.pc = "alerts"])
    BY <1>2 DEF Record, Notifying
  <1>4. Reading(r, "sales") /\ "sales" \in Reads
    BY DEF GetSalesSummary, Reads
  <1> QED BY <1>1, <1>3, <1>4, ReadStep

LEMMA AlertsStep == ASSUME IInv, NEW r \in Runs, GetStockAlerts(r) PROVE IInv'
  <1>1. PICK s \in Read(r, "alerts"), critical \in SUBSET Alerts :
          Become(r, [s EXCEPT !.left = critical, !.pc = "notify"])
    BY DEF GetStockAlerts
  <1> DEFINE t == [s EXCEPT !.left = critical, !.pc = "notify"]
  <1>2. Record(s)
    BY ReadKeeps DEF IInv
  <1>3. Record(t) /\ ~Notifying(t)
    BY <1>2 DEF Record, Notifying
  <1>4. Reading(r, "alerts") /\ "alerts" \in Reads
    BY DEF GetStockAlerts, Reads
  <1> HIDE DEF t
  <1>5. Become(r, t)
    BY <1>1 DEF t
  <1> QED BY <1>3, <1>4, <1>5, ReadStep

LEMMA SeriesStep == ASSUME IInv, NEW r \in Runs, GetDailySalesSeries(r) PROVE IInv'
  <1> DEFINE day == run[r].dates["sales"]
             f == Forecasts(BuildDailySeries(publication, day), day)
             t == [run[r] EXCEPT !.dates["series"] = publication, !.pc = "weather", !.forecast = f]
  <1>1. Reading(r, "series") /\ Become(r, t) /\ "series" \in Reads
    BY DEF GetDailySalesSeries, Reads
  <1>2. Record(run[r])
    BY DEF IInv, Types
  <1> HIDE DEF f
  <1>3. Record(t) /\ ~Notifying(t)
    BY <1>2 DEF Record, Notifying
  <1> HIDE DEF t
  <1> QED BY <1>1, <1>3, ReadStep

\* An analysis that ends without a call of the webhook under way.
LEMMA EndStep ==
  ASSUME IInv, NEW r \in Runs, ~Notifying(run[r]), NEW status, NEW fault,
         Become(r, Ended(run[r], status, fault)), UNCHANGED hook
  PROVE  IInv'
  <1>1. Record(run[r])
    BY DEF IInv, Types
  <1>2. Record(Ended(run[r], status, fault)) /\ ~Notifying(Ended(run[r], status, fault))
    BY <1>1, EndedType DEF Notifying
  <1> QED BY <1>2, QuietRun

LEMMA ReadFailsStep ==
  ASSUME IInv, NEW r \in Runs, ReadFails(r) \/ InvalidSnapshot(r)
  PROVE  IInv'
  <1>1. UNCHANGED hook /\ \E status, fault : Become(r, Ended(run[r], status, fault))
    BY DEF ReadFails, InvalidSnapshot, Reading
  <1>2. ~Notifying(run[r])
    BY DEF ReadFails, InvalidSnapshot, Reading, Notifying, Reads
  <1> QED BY <1>1, <1>2, EndStep

LEMMA ModelStep == ASSUME IInv, NEW r \in Runs, Model(r) PROVE IInv'
  <1>1. UNCHANGED hook /\ \E status, fault : Become(r, Ended(run[r], status, fault))
    BY DEF Model
  <1>2. ~Notifying(run[r])
    BY DEF Model, Notifying
  <1> QED BY <1>1, <1>2, EndStep

\* A step that moves a run from one place outside the webhook to another.
LEMMA MoveStep ==
  ASSUME IInv, NEW r \in Runs, ~Notifying(run[r]), NEW pc, pc \notin {"post", "mark"},
         Become(r, [run[r] EXCEPT !.pc = pc]), UNCHANGED hook
  PROVE  IInv'
  <1> DEFINE s == [run[r] EXCEPT !.pc = pc]
  <1>1. Record(run[r])
    BY DEF IInv, Types
  <1>2. Record(s) /\ ~Notifying(s)
    BY <1>1 DEF Record, Notifying
  <1> HIDE DEF s
  <1>3. Become(r, s)
    BY DEF s
  <1> QED BY <1>2, <1>3, QuietRun

LEMMA NotifiedStep == ASSUME IInv, NEW r \in Runs, Notified(r) PROVE IInv'
  <1> DEFINE pc == IF run[r].dates["sales"] # 0 THEN "series" ELSE "weather"
  <1>1. Become(r, [run[r] EXCEPT !.pc = pc]) /\ UNCHANGED hook
    BY DEF Notified
  <1>2. ~Notifying(run[r]) /\ pc \notin {"post", "mark"}
    BY DEF Notified, Notifying
  <1> HIDE DEF pc
  <1> QED BY <1>1, <1>2, MoveStep

LEMMA WeatherStep == ASSUME IInv, NEW r \in Runs, Weather(r) PROVE IInv'
  BY MoveStep DEF Weather, Notifying

LEMMA PublishStep == ASSUME IInv, Publish PROVE IInv'
  <1>1. UNCHANGED hook /\ DOMAIN run' = Runs
    BY DEF Publish, IInv, Types
  <1>2. \A r \in Runs : Record(run'[r]) /\ run'[r].pc = run[r].pc /\ run'[r].left = run[r].left
    BY DEF Publish, IInv, Types, Record
  <1>3. Types'
    BY <1>1, <1>2 DEF IInv, Types, hook
  <1>4. HookInv'
    BY <1>1, <1>2, SilentStep DEF IInv
  <1> QED BY <1>3, <1>4 DEF IInv

-----------------------------------------------------------------------------
(* The steps of the webhook *)

LEMMA PassedType ==
  ASSUME Types, NEW r \in Runs
  PROVE  Record(Passed(r)) /\ Passed(r).pc = "notify"
  BY DEF Types, Record, Passed

LEMMA CurrentIsAlert ==
  ASSUME Types, NEW r \in Runs, run[r].left # {}
  PROVE  Current(r) \in Alerts
  BY FirstIsOne DEF Types, Record, Current

\* A run leaves the webhook, as s: the marker of its alert is set or not, and if
\* not what was delivered is excused, as it is when its reply was lost.
Leaves(r, s, a) ==
    /\ Notifying(run[r]) /\ a = Current(r) /\ Become(r, s)
    /\ marked' \in {marked, marked \cup {a}} /\ excused' \in {excused, excused \cup {a}}
    /\ delivered' = delivered \/ (Deliver(a) /\ a \in excused')
    /\ run[r].pc = "mark" => a \in marked' \cup excused'
    /\ a \in marked' => a \in marked \/ run[r].pc = "mark"

LEMMA LeaveStep ==
  ASSUME IInv, NEW r \in Runs, NEW s, Record(s), ~Notifying(s), NEW a, Leaves(r, s, a)
  PROVE  IInv'
  <1>1. Types /\ HookInv /\ run[r].left # {}
    BY DEF IInv, HookInv, Leaves
  <1>2. a \in Alerts /\ Holds(r, a)
    BY <1>1, CurrentIsAlert DEF Current, Holds, Leaves
  <1>3. /\ DOMAIN run' = Runs /\ \A o \in Runs : Record(run'[o])
        /\ \A o \in Runs : run'[o] = IF o = r THEN s ELSE run[o]
    BY <1>1, BecomeType DEF Leaves
  <1>4. /\ delivered' \in [Alerts -> 0 .. 2]
        /\ \A b \in Alerts \ {a} : delivered'[b] = delivered[b]
        /\ \A b \in Alerts : delivered[b] > 0 => delivered'[b] > 0
        /\ a \notin excused' => delivered' = delivered
    BY <1>1, <1>2 DEF Types, Deliver, Leaves
  <1>5. Types'
    BY <1>1, <1>2, <1>3, <1>4 DEF Types, Leaves
  <1>6. \A o \in Runs \ {r} : \A b : Holds(o, b)' <=> Holds(o, b)
    BY <1>3 DEF Holds, Notifying
  <1>7. \A b : ~Holds(r, b)'
    BY <1>3 DEF Holds, Notifying
  <1>8. \A o \in Runs : Notifying(run[o])' => o # r /\ run'[o] = run[o]
    BY <1>3 DEF Notifying
  <1>9. \A o \in Runs : Notifying(run[o]) => First(run[o].left) \in Alerts
    BY <1>1, FirstIsOne DEF HookInv, Types, Record
  <1>10. \A o \in Runs : run'[o].pc = "mark" => delivered'[First(run'[o].left)] > 0
    BY <1>1, <1>4, <1>8, <1>9 DEF HookInv, Notifying
  <1>11. \A b \in marked' : delivered'[b] > 0
    BY <1>1, <1>2, <1>4 DEF HookInv, Types, Current, Leaves
  <1>12. \A b \in Alerts \ excused' :
           /\ delivered'[b] <= 1
           /\ delivered'[b] > 0 =>
                b \in marked' \/ \E o \in Runs : run'[o].pc = "mark" /\ Holds(o, b)'
    <2> SUFFICES ASSUME NEW b \in Alerts \ excused'
                 PROVE  /\ delivered'[b] <= 1
                        /\ delivered'[b] > 0 =>
                             b \in marked' \/ \E o \in Runs : run'[o].pc = "mark" /\ Holds(o, b)'
      OBVIOUS
    <2>1. b \notin excused /\ delivered'[b] = delivered[b]
      BY <1>4 DEF Leaves
    <2>2. delivered[b] <= 1
      BY <1>1, <2>1 DEF HookInv
    <2>3. ASSUME NEW o \in Runs, run[o].pc = "mark", Holds(o, b)
          PROVE  b \in marked' \/ (run'[o].pc = "mark" /\ Holds(o, b)')
      BY <1>2, <1>3, <1>6, <2>3 DEF Holds, Leaves
    <2> QED BY <1>1, <2>1, <2>2, <2>3 DEF HookInv, Leaves
  <1>13. \A b \in Alerts \ excused' : \A o \in Runs : Holds(o, b)' =>
           b \notin marked' /\ \A q \in Runs \ {o} : ~Holds(q, b)'
    <2> SUFFICES ASSUME NEW b \in Alerts \ excused', NEW o \in Runs, Holds(o, b)'
                 PROVE  b \notin marked' /\ \A q \in Runs \ {o} : ~Holds(q, b)'
      OBVIOUS
    <2>1. b \notin excused /\ o # r /\ Holds(o, b)
      BY <1>6, <1>7 DEF Leaves
    <2>2. b \notin marked /\ \A q \in Runs \ {o} : ~Holds(q, b)
      BY <1>1, <2>1 DEF HookInv
    <2>3. b # a
      BY <1>2, <2>1, <2>2
    <2> QED BY <1>6, <1>7, <2>2, <2>3 DEF Leaves
  <1>14. \A o \in Runs : Notifying(run[o])' => run'[o].left # {}
    BY <1>1, <1>8 DEF HookInv
  <1> QED BY <1>5, <1>10, <1>11, <1>12, <1>13, <1>14 DEF HookInv, IInv

LEMMA ExistsStep == ASSUME IInv, NEW r \in Runs, Exists(r) PROVE IInv'
  <1> PICK a : a = Current(r)
    OBVIOUS
  <1> DEFINE s == [run[r] EXCEPT !.pc = "post"]
  <1>1. Types /\ HookInv /\ Record(run[r])
    BY DEF IInv, Types
  <1>2. run[r].pc = "notify" /\ run[r].left # {} /\ UNCHANGED <<marked, delivered>>
    BY DEF Exists
  <1>3. a \in Alerts /\ a = First(run[r].left)
    BY <1>1, <1>2, CurrentIsAlert DEF Current
  <1>4. Record(s) /\ s.pc = "post" /\ s.left = run[r].left
    BY <1>1 DEF Record
  <1>5. CASE Become(r, Passed(r)) /\ UNCHANGED excused
    <2>1. UNCHANGED hook /\ ~Notifying(run[r]) /\ Record(Passed(r)) /\ ~Notifying(Passed(r))
      BY <1>1, <1>2, <1>5, PassedType DEF hook, Notifying
    <2> QED BY <1>5, <2>1, QuietRun
  \* The marker is missing or could not be read.
  <1>6. CASE /\ Become(r, s) /\ excused' \in {excused, excused \cup {a}}
             /\ a \notin excused' => a \notin marked /\ ~Raced(r, a)
    <2> HIDE DEF s
    <2>1. /\ DOMAIN run' = Runs /\ \A o \in Runs : Record(run'[o])
          /\ \A o \in Runs : run'[o] = IF o = r THEN s ELSE run[o]
      BY <1>1, <1>4, <1>6, BecomeType
    <2>2. excused \subseteq excused' /\ excused' \subseteq Alerts
      BY <1>1, <1>3, <1>6 DEF Types
    <2>3. Types'
      BY <1>1, <1>2, <2>1, <2>2 DEF Types
    <2>4. \A o \in Runs \ {r} : a \notin excused' => ~Holds(o, a)
      BY <1>6 DEF Raced, Holds, Notifying, Current
    <2>5. \A b : Holds(r, b)' => b = a
      BY <1>3, <1>4, <2>1 DEF Holds
    <2>6. \A o \in Runs \ {r} : \A b : Holds(o, b)' <=> Holds(o, b)
      BY <2>1 DEF Holds, Notifying
    <2>7. \A o \in Runs : Notifying(run[o])' => run'[o].left # {}
      BY <1>1, <1>2, <1>4, <2>1 DEF HookInv, Notifying
    <2>8. \A o \in Runs : run'[o].pc = "mark" => o # r /\ run[o] = run'[o]
      BY <1>4, <2>1
    <2>9. \A b \in Alerts \ excused' : delivered[b] > 0 =>
            b \in marked \/ \E o \in Runs : run'[o].pc = "mark" /\ Holds(o, b)'
      BY <1>1, <1>2, <2>1, <2>2, <2>6 DEF HookInv
    <2>10. \A b \in Alerts \ excused' : \A o \in Runs : Holds(o, b)' =>
            b \notin marked /\ \A q \in Runs \ {o} : ~Holds(q, b)'
      BY <1>1, <1>6, <2>2, <2>4, <2>5, <2>6 DEF HookInv
    <2> QED BY <1>1, <1>2, <2>2, <2>3, <2>7, <2>8, <2>9, <2>10 DEF HookInv, IInv
  <1> QED BY <1>5, <1>6 DEF Exists

\* The call of the webhook is answered; only then may the marker be set.
LEMMA PostStep == ASSUME IInv, NEW r \in Runs, Post(r) PROVE IInv'
  <1> PICK a : a = Current(r)
    OBVIOUS
  <1> DEFINE s == [run[r] EXCEPT !.pc = "mark"]
  <1>1. Types /\ HookInv /\ Record(run[r])
    BY DEF IInv, Types
  <1>2. run[r].pc = "post" /\ run[r].left # {} /\ UNCHANGED marked
    BY <1>1 DEF Post, HookInv, Notifying
  <1>3. a \in Alerts /\ a = First(run[r].left) /\ Holds(r, a)
    BY <1>1, <1>2, CurrentIsAlert DEF Current, Holds, Notifying
  <1>4. Record(s) /\ s.pc = "mark" /\ s.left = run[r].left
    BY <1>1 DEF Record
  <1>5. CASE Deliver(a) /\ UNCHANGED excused /\ Become(r, s)
    <2> HIDE DEF s
    <2>1. /\ DOMAIN run' = Runs /\ \A o \in Runs : Record(run'[o])
          /\ \A o \in Runs : run'[o] = IF o = r THEN s ELSE run[o]
      BY <1>1, <1>4, <1>5, BecomeType
    <2>2. /\ delivered' \in [Alerts -> 0 .. 2] /\ delivered'[a] > 0
          /\ \A b \in Alerts \ {a} : delivered'[b] = delivered[b]
          /\ delivered[a] = 0 => delivered'[a] = 1
      BY <1>1, <1>3, <1>5 DEF Types, Deliver
    <2>3. Types'
      BY <1>1, <1>2, <1>5, <2>1, <2>2 DEF Types
    \* The one that holds an alert has not delivered it before.
    <2>4. a \notin excused => delivered[a] = 0
      BY <1>1, <1>2, <1>3 DEF HookInv, Types
    <2>5. \A o \in Runs : \A b : Holds(o, b)' <=> Holds(o, b)
      BY <1>2, <1>4, <2>1 DEF Holds, Notifying
    <2>6. \A o \in Runs : Notifying(run[o])' => run'[o].left # {}
      BY <1>1, <1>2, <1>4, <2>1 DEF HookInv, Notifying
    <2>7. \A b \in Alerts : delivered[b] > 0 => delivered'[b] > 0
      BY <2>2
    <2>8. \A o \in Runs : run'[o].pc = "mark" => delivered'[First(run'[o].left)] > 0
      <3>1. \A o \in Runs \ {r} : run[o].pc = "mark" => First(run[o].left) \in Alerts
        BY <1>1, FirstIsOne DEF HookInv, Notifying, Types, Record
      <3> QED BY <1>1, <1>3, <1>4, <2>1, <2>2, <2>7, <3>1 DEF HookInv
    <2>9. \A b \in Alerts \ excused' :
            /\ delivered'[b] <= 1
            /\ delivered'[b] > 0 =>
                 b \in marked' \/ \E o \in Runs : run'[o].pc = "mark" /\ Holds(o, b)'
      BY <1>1, <1>2, <1>3, <1>4, <1>5, <2>1, <2>2, <2>4, <2>5 DEF HookInv
    <2>10. \A b \in Alerts \ excused' : \A o \in Runs : Holds(o, b)' =>
             b \notin marked' /\ \A q \in Runs \ {o} : ~Holds(q, b)'
      BY <1>1, <1>2, <1>5, <2>5 DEF HookInv
    <2>11. \A b \in marked' : delivered'[b] > 0
      BY <1>1, <1>2, <2>7 DEF HookInv, Types
    <2> QED BY <2>3, <2>6, <2>8, <2>9, <2>10, <2>11 DEF HookInv, IInv
  <1>6. CASE /\ Become(r, Passed(r))
             /\ \/ Deliver(a) /\ excused' = excused \cup {a}
                \/ UNCHANGED <<delivered, excused>>
    <2>1. Record(Passed(r)) /\ ~Notifying(Passed(r)) /\ Notifying(run[r])
      BY <1>1, <1>2, PassedType DEF Notifying
    <2>2. Leaves(r, Passed(r), a)
      BY <1>2, <1>6, <2>1 DEF Leaves
    <2> QED BY <2>1, <2>2, LeaveStep
  <1> QED BY <1>5, <1>6 DEF Post

LEMMA MarkStep == ASSUME IInv, NEW r \in Runs, Mark(r) PROVE IInv'
  <1>1. Types /\ run[r].pc = "mark"
    BY DEF Mark, IInv
  <1>2. Record(Passed(r)) /\ ~Notifying(Passed(r)) /\ Notifying(run[r])
    BY <1>1, PassedType DEF Notifying
  <1>3. Leaves(r, Passed(r), Current(r))
    BY <1>1, <1>2 DEF Mark, Leaves
  <1> QED BY <1>2, <1>3, LeaveStep

LEMMA TimeoutStep == ASSUME IInv, NEW r \in Runs, PredictiveTimeout(r) PROVE IInv'
  <1> DEFINE s == Ended(run[r], 504, "timeout")
  <1>1. Types /\ Record(run[r])
    BY DEF IInv, Types
  <1>2. Record(s) /\ ~Notifying(s)
    BY <1>1, EndedType DEF Notifying
  <1>3. Become(r, s) /\ UNCHANGED marked
    BY DEF PredictiveTimeout
  <1> HIDE DEF s
  <1>4. CASE Notifying(run[r])
    <2>1. Leaves(r, s, Current(r))
      BY <1>3, <1>4 DEF PredictiveTimeout, Leaves
    <2> QED BY <1>2, <2>1, LeaveStep
  <1>5. CASE ~Notifying(run[r])
    <2>1. UNCHANGED hook
      BY <1>3, <1>5 DEF PredictiveTimeout, Notifying, hook
    <2> QED BY <1>2, <1>3, <1>5, <2>1, QuietRun
  <1> QED BY <1>4, <1>5

LEMMA ExpiryStep == ASSUME IInv, NEW a \in Alerts, MarkerExpires(a) PROVE IInv'
  <1>1. Types /\ HookInv /\ UNCHANGED <<delivered, run>>
    BY DEF IInv, MarkerExpires
  <1>2. marked' = marked \ {a} /\ excused' = excused \cup {a}
    BY DEF MarkerExpires
  <1>3. Types'
    BY <1>1, <1>2 DEF Types
  <1>4. HookInv'
    BY <1>1, <1>2 DEF HookInv, Holds, Notifying
  <1> QED BY <1>3, <1>4 DEF IInv

-----------------------------------------------------------------------------
(* The theorems about the webhook *)

LEMMA NextIInv == IInv /\ [Next]_vars => IInv'
  <1> SUFFICES ASSUME IInv, [Next]_vars PROVE IInv'
    OBVIOUS
  <1>1. ASSUME NEW r \in Runs, Trigger(r) PROVE IInv'
    BY <1>1, TriggerStep
  <1>2. ASSUME NEW r \in Runs, Progress(r) PROVE IInv'
    BY <1>2, ExpiringStep, SalesStep, AlertsStep, SeriesStep, ReadFailsStep, ExistsStep, PostStep,
       MarkStep, NotifiedStep, WeatherStep, ModelStep DEF Progress
  <1>3. ASSUME NEW r \in Runs, PredictiveTimeout(r) PROVE IInv'
    BY <1>3, TimeoutStep
  <1>4. ASSUME NEW a \in Alerts, MarkerExpires(a) PROVE IInv'
    BY <1>4, ExpiryStep
  <1>5. CASE Publish
    BY <1>5, PublishStep
  <1>6. CASE UNCHANGED vars
    BY <1>6 DEF IInv, Types, HookInv, Holds, Notifying, vars
  <1> QED BY <1>1, <1>2, <1>3, <1>4, <1>5, <1>6 DEF Next

LEMMA AlwaysIInv == Spec => []IInv
  BY InitIInv, NextIInv, PTL DEF Spec

\* However many analyses overlap and whatever fails: a marker of an alert, which
\* silences it for every later analysis, stands for a delivery
\* (notify_new_critical_alerts sets it after a successful POST only).
THEOREM MarkersStandForDeliveries == Spec => []MarkedWasDelivered
  <1>1. IInv => MarkedWasDelivered
    BY DEF IInv, HookInv, MarkedWasDelivered
  <1> QED BY <1>1, AlwaysIInv, PTL

\* An alert is delivered twice only after one of the five causes: an expired
\* marker, a failed call of Redis, a lost reply, the deadline, or two analyses
\* between EXISTS and SET at once (alert_webhook.py).
THEOREM NoUnexplainedRepeats == Spec => []RepeatsAreExplained
  <1>1. IInv => RepeatsAreExplained
    BY DEF IInv, Types, HookInv, RepeatsAreExplained
  <1> QED BY <1>1, AlwaysIInv, PTL

-----------------------------------------------------------------------------
(* What an analysis has collected *)

Fields == {"pc", "dates", "left", "forecast", "moved", "fault", "status"}

Places == Reads \cup {"idle", "notify", "post", "mark", "weather", "model", "ended"}

Running(s) == s.pc \notin {"idle", "ended"}

\* The forecast for that day, from rows of the Days up to the publication rows.
ForecastOf(day, rows) ==
    Forecasts([d \in day - Days + 1 .. day |-> IF d > rows - Days THEN Sold(d) ELSE 0], day)

\* The consultations that a run at this place has yet to make.
Pending(pc) ==
    CASE pc \in {"idle", "expiring"} -> Reads
      [] pc = "sales" -> {"sales", "alerts", "series"}
      [] pc = "alerts" -> {"alerts", "series"}
      [] pc \in {"notify", "post", "mark", "series"} -> {"series"}
      [] OTHER -> {}

\* What was consulted later is of no earlier day.
InOrder(dates) ==
    \A c \in Reads : \A d \in Pending(c) : dates[c] # 0 /\ dates[d] # 0 => dates[c] <= dates[d]

\* A run at publication p, before its answer: what it has read is of one of the
\* publications since it began, which were moved many, and in their order.
Collected(s, p) ==
    /\ \A c \in Pending(s.pc) : s.dates[c] = 0
    /\ \A c \in Reads : s.dates[c] # 0 => p <= s.dates[c] + s.moved
    /\ InOrder(s.dates)
    /\ s.pc = "series" => s.dates["sales"] # 0
    /\ s.pc \in {"weather", "model"} /\ s.dates["sales"] # 0 =>
         s.forecast = ForecastOf(s.dates["sales"], s.dates["series"])

\* The same of an answer, whatever is published after it.
Answered(s) ==
    /\ \A c \in Reads : \A d \in Pending(c) :
         s.dates[c] # 0 /\ s.dates[d] # 0 => s.dates[d] - s.dates[c] \in 0 .. s.moved
    /\ s.dates["sales"] # 0 => s.forecast = ForecastOf(s.dates["sales"], s.dates["series"])

Faults == {"unpublished", "permission", "database", "provider", "timeout"}

Sound(s, p) ==
    /\ DOMAIN s = Fields /\ s.pc \in Places /\ s.moved \in 0 .. p
    /\ s.dates \in [Reads -> 0 .. p] /\ s.forecast \subseteq Int
    /\ s.status \in {0, 200, 403, 500, 503, 504}
    /\ s.pc = "idle" => s.moved = 0
    /\ s.pc # "ended" => s.status = 0 /\ Collected(s, p)
    /\ s.pc = "ended" /\ s.status # 200 => s.fault \in Faults
    /\ s.pc = "ended" /\ s.status = 200 => Answered(s)

AnalysisInv ==
    /\ publication \in 0 .. Last /\ DOMAIN run = Runs
    /\ \A r \in Runs : Sound(run[r], publication)

LEMMA ForecastType == \A series, day : Forecasts(series, day) \subseteq Int
  <1>1. \A n, d : Rounded(n, d) \subseteq Int
    BY DEF Rounded
  <1> QED BY <1>1 DEF Forecasts

LEMMA InitAnalysis == Init => AnalysisInv
  <1> SUFFICES ASSUME Init PROVE AnalysisInv
    OBVIOUS
  <1>1. Sound(Unbegun, 0)
    <2>1. \A c : Pending(c) \subseteq Reads
      BY DEF Pending, Reads
    <2>2. Collected(Unbegun, 0)
      BY <2>1 DEF Unbegun, Collected, InOrder
    <2> QED BY <2>2 DEF Sound, Unbegun, Fields, Places, Reads
  <1> QED BY <1>1, EngineAssumption DEF Init, AnalysisInv

\* One run changes while nothing is published.
LEMMA SoundRun ==
  ASSUME AnalysisInv, NEW r \in Runs, NEW s, Become(r, s), UNCHANGED publication,
         Sound(s, publication)
  PROVE  AnalysisInv'
  BY DEF Become, AnalysisInv

\* What a step changes of a run that only goes on.
Keeps(s, t) ==
    /\ DOMAIN t = Fields /\ t.dates = s.dates /\ t.moved = s.moved
    /\ t.status = s.status /\ t.forecast = s.forecast

LEMMA MovedOn ==
  ASSUME NEW p \in Nat, NEW s, Sound(s, p), s.pc # "ended",
         NEW t, Keeps(s, t), t.pc \in Places \ {"idle", "ended"},
         Pending(t.pc) \subseteq Pending(s.pc),
         t.pc = "series" => s.dates["sales"] # 0,
         t.pc \in {"weather", "model"} => s.pc = "weather" \/ s.dates["sales"] = 0
  PROVE  Sound(t, p)
  <1>1. Collected(s, p)
    BY DEF Sound
  <1>2. Collected(t, p)
    BY <1>1 DEF Keeps, Collected
  <1> QED BY <1>2 DEF Sound, Keeps

\* A step that only moves run r on, as t.
LEMMA GoesOn ==
  ASSUME AnalysisInv, NEW r \in Runs, UNCHANGED publication, NEW t, Become(r, t), Keeps(run[r], t),
         run[r].pc # "ended", t.pc \in Places \ {"idle", "ended"},
         Pending(t.pc) \subseteq Pending(run[r].pc),
         t.pc = "series" => run[r].dates["sales"] # 0,
         t.pc \in {"weather", "model"} => run[r].pc = "weather" \/ run[r].dates["sales"] = 0
  PROVE  AnalysisInv'
  <1>1. publication \in Nat /\ Sound(run[r], publication)
    BY EngineAssumption DEF AnalysisInv
  <1>2. Sound(t, publication)
    BY <1>1, MovedOn
  <1> QED BY <1>2, SoundRun

\* A consultation reads the current publication, which is none before what the
\* run has read, and the run has read nothing that comes after it.
LEMMA ReadSound ==
  ASSUME NEW p \in Nat, NEW s, Sound(s, p), s.pc \in Reads,
         NEW date \in {0, p}, NEW t, DOMAIN t = Fields, t.dates = [s.dates EXCEPT ![s.pc] = date],
         t.moved = s.moved, t.status = s.status, t.forecast \subseteq Int,
         t.pc \in Places \ {"idle", "series", "ended"}, Pending(t.pc) = Pending(s.pc) \ {s.pc},
         t.pc \in {"weather", "model"} /\ t.dates["sales"] # 0 =>
           t.forecast = ForecastOf(t.dates["sales"], t.dates["series"])
  PROVE  Sound(t, p)
  <1> PICK c : c = s.pc
    OBVIOUS
  <1>1. /\ Collected(s, p) /\ s.dates \in [Reads -> 0 .. p] /\ s.moved \in 0 .. p /\ s.status = 0
        /\ c \in Reads /\ c # "ended"
    BY DEF Sound, Reads
  <1>2. /\ t.dates \in [Reads -> 0 .. p] /\ t.dates[c] = date
        /\ \A e \in Reads \ {c} : t.dates[e] = s.dates[e]
    BY <1>1
  <1>3. \A e \in Pending(c) : s.dates[e] = 0
    BY <1>1 DEF Collected
  <1>4. \A e : Pending(e) \subseteq Reads
    BY DEF Pending, Reads
  <1>5. \A e \in Pending(t.pc) : t.dates[e] = 0
    BY <1>2, <1>3, <1>4
  <1>6. \A e \in Reads : t.dates[e] # 0 => p <= t.dates[e] + t.moved
    <2> SUFFICES ASSUME NEW e \in Reads, t.dates[e] # 0 PROVE p <= t.dates[e] + t.moved
      OBVIOUS
    <2>1. CASE e = c
      BY <1>1, <1>2, <2>1
    <2>2. CASE e # c
      BY <1>1, <1>2, <2>2 DEF Collected
    <2> QED BY <2>1, <2>2
  <1>7. InOrder(t.dates)
    <2> SUFFICES ASSUME NEW a \in Reads, NEW b \in Pending(a), t.dates[a] # 0, t.dates[b] # 0
                 PROVE  t.dates[a] <= t.dates[b]
      BY DEF InOrder
    <2>1. b \in Reads /\ t.dates[a] \in 0 .. p /\ t.dates[b] \in 0 .. p
      BY <1>2, <1>4
    <2>2. CASE b = c
      BY <1>2, <2>1, <2>2
    <2>3. CASE b # c /\ a = c
      BY <1>2, <1>3, <2>1, <2>3
    <2>4. CASE b # c /\ a # c
      BY <1>1, <1>2, <2>1, <2>4 DEF Collected, InOrder
    <2> QED BY <2>2, <2>3, <2>4
  <1>8. Collected(t, p)
    BY <1>5, <1>6, <1>7 DEF Collected
  <1> QED BY <1>1, <1>2, <1>8 DEF Sound

LEMMA PlaceKeeps ==
  ASSUME NEW s, DOMAIN s = Fields, NEW pc
  PROVE  Keeps(s, [s EXCEPT !.pc = pc]) /\ [s EXCEPT !.pc = pc].pc = pc
  BY DEF Keeps, Fields

LEMMA LeftKeeps ==
  ASSUME NEW s, DOMAIN s = Fields, NEW left, NEW pc
  PROVE  /\ Keeps(s, [s EXCEPT !.left = left, !.pc = pc])
         /\ [s EXCEPT !.left = left, !.pc = pc].pc = pc
  BY DEF Keeps, Fields

LEMMA ExpiringSound == ASSUME AnalysisInv, NEW r \in Runs, GetExpiringBatches(r) PROVE AnalysisInv'
  <1>1. PICK date \in {0, publication} :
          Become(r, [[run[r] EXCEPT !.dates["expiring"] = date] EXCEPT !.pc = "sales"])
    BY DEF GetExpiringBatches, Read
  <1> DEFINE t == [[run[r] EXCEPT !.dates["expiring"] = date] EXCEPT !.pc = "sales"]
  <1>2. run[r].pc = "expiring" /\ UNCHANGED publication /\ publication \in Nat /\ Sound(run[r], publication)
    BY EngineAssumption DEF GetExpiringBatches, Reading, AnalysisInv
  <1>3. /\ DOMAIN t = Fields /\ t.pc = "sales" /\ t.moved = run[r].moved /\ t.status = run[r].status
        /\ t.forecast = run[r].forecast /\ t.dates = [run[r].dates EXCEPT !["expiring"] = date]
    BY <1>2 DEF Sound, Fields
  <1>4. Become(r, t)
    BY <1>1
  <1> HIDE DEF t
  <1>5. Pending("sales") = Pending("expiring") \ {"expiring"}
    BY DEF Pending, Reads
  <1>6. run[r].forecast \subseteq Int /\ "sales" \in Places \ {"idle", "series", "ended"} /\ "expiring" \in Reads
    BY <1>2 DEF Sound, Places, Reads
  <1>7. Sound(t, publication)
    BY <1>2, <1>3, <1>5, <1>6, ReadSound
  <1> QED BY <1>2, <1>4, <1>7, SoundRun

LEMMA SalesSound == ASSUME AnalysisInv, NEW r \in Runs, GetSalesSummary(r) PROVE AnalysisInv'
  <1>1. PICK date \in {0, publication} :
          Become(r, [[run[r] EXCEPT !.dates["sales"] = date] EXCEPT !.pc = "alerts"])
    BY DEF GetSalesSummary, Read
  <1> DEFINE t == [[run[r] EXCEPT !.dates["sales"] = date] EXCEPT !.pc = "alerts"]
  <1>2. run[r].pc = "sales" /\ UNCHANGED publication /\ publication \in Nat /\ Sound(run[r], publication)
    BY EngineAssumption DEF GetSalesSummary, Reading, AnalysisInv
  <1>3. /\ DOMAIN t = Fields /\ t.pc = "alerts" /\ t.moved = run[r].moved /\ t.status = run[r].status
        /\ t.forecast = run[r].forecast /\ t.dates = [run[r].dates EXCEPT !["sales"] = date]
    BY <1>2 DEF Sound, Fields
  <1>4. Become(r, t)
    BY <1>1
  <1> HIDE DEF t
  <1>5. Pending("alerts") = Pending("sales") \ {"sales"}
    BY DEF Pending, Reads
  <1>6. run[r].forecast \subseteq Int /\ "alerts" \in Places \ {"idle", "series", "ended"} /\ "sales" \in Reads
    BY <1>2 DEF Sound, Places, Reads
  <1>7. Sound(t, publication)
    BY <1>2, <1>3, <1>5, <1>6, ReadSound
  <1> QED BY <1>2, <1>4, <1>7, SoundRun

LEMMA AlertsSound == ASSUME AnalysisInv, NEW r \in Runs, GetStockAlerts(r) PROVE AnalysisInv'
  <1>1. PICK date \in {0, publication}, critical \in SUBSET Alerts :
          Become(r, [[run[r] EXCEPT !.dates["alerts"] = date] EXCEPT !.left = critical, !.pc = "notify"])
    BY DEF GetStockAlerts, Read
  <1> DEFINE t == [[run[r] EXCEPT !.dates["alerts"] = date] EXCEPT !.left = critical, !.pc = "notify"]
  <1>2. run[r].pc = "alerts" /\ UNCHANGED publication /\ publication \in Nat /\ Sound(run[r], publication)
    BY EngineAssumption DEF GetStockAlerts, Reading, AnalysisInv
  <1>3. /\ DOMAIN t = Fields /\ t.pc = "notify" /\ t.moved = run[r].moved /\ t.status = run[r].status
        /\ t.forecast = run[r].forecast /\ t.dates = [run[r].dates EXCEPT !["alerts"] = date]
    BY <1>2 DEF Sound, Fields
  <1>4. Become(r, t)
    BY <1>1
  <1> HIDE DEF t
  <1>5. Pending("notify") = Pending("alerts") \ {"alerts"}
    BY DEF Pending, Reads
  <1>6. run[r].forecast \subseteq Int /\ "notify" \in Places \ {"idle", "series", "ended"} /\ "alerts" \in Reads
    BY <1>2 DEF Sound, Places, Reads
  <1>7. Sound(t, publication)
    BY <1>2, <1>3, <1>5, <1>6, ReadSound
  <1> QED BY <1>2, <1>4, <1>7, SoundRun

\* The series is read at the publication of the summary or a later one, whose
\* rows reach less far back and are cut at the day of the summary.
LEMMA SeriesSound == ASSUME AnalysisInv, NEW r \in Runs, GetDailySalesSeries(r) PROVE AnalysisInv'
  <1> DEFINE s == run[r]
             p == publication
             day == s.dates["sales"]
             f == Forecasts(BuildDailySeries(p, day), day)
             t == [s EXCEPT !.dates["series"] = p, !.pc = "weather", !.forecast = f]
  <1>1. s.pc = "series" /\ UNCHANGED p /\ Become(r, t)
    BY DEF GetDailySalesSeries, Reading
  <1>2. p \in Nat /\ Sound(s, p)
    BY EngineAssumption DEF AnalysisInv
  <1>3. s.dates \in [Reads -> 0 .. p] /\ day \in 0 .. p
    BY <1>2 DEF Sound, Reads
  <1>4. f = ForecastOf(day, p)
    <2>1. \A d \in day - Days + 1 .. day : d \in p - Days + 1 .. p <=> d > p - Days
      BY <1>2, <1>3, EngineAssumption
    <2>2. BuildDailySeries(p, day) =
            [d \in day - Days + 1 .. day |-> IF d > p - Days THEN Sold(d) ELSE 0]
      BY <2>1 DEF BuildDailySeries
    <2> QED BY <2>2 DEF ForecastOf
  <1>5. f \subseteq Int
    BY ForecastType
  <1> HIDE DEF f
  <1>6. /\ DOMAIN t = Fields /\ t.pc = "weather" /\ t.moved = s.moved /\ t.status = s.status
        /\ t.forecast = f /\ t.dates = [s.dates EXCEPT !["series"] = p]
    BY <1>2 DEF Sound, Fields
  <1> HIDE DEF t
  <1>7. t.dates["sales"] = day /\ t.dates["series"] = p
    BY <1>3, <1>6 DEF Reads
  <1>8. Pending("weather") = Pending("series") \ {"series"} /\ "series" \in Reads
    BY DEF Pending, Reads
  <1>9. "weather" \in Places \ {"idle", "series", "ended"}
    BY DEF Places, Reads
  <1>10. Sound(t, p)
    BY <1>1, <1>2, <1>4, <1>5, <1>6, <1>7, <1>8, <1>9, ReadSound
  <1> QED BY <1>1, <1>10, SoundRun

LEMMA EndedSound ==
  ASSUME AnalysisInv, NEW r \in Runs, NEW status \in {403, 500, 503, 504}, NEW fault \in Faults
  PROVE  Sound(Ended(run[r], status, fault), publication)
  <1>1. Ended(run[r], status, fault) =
          [Unbegun EXCEPT !.pc = "ended", !.status = status, !.fault = fault]
    <2>1. status # 200
      OBVIOUS
    <2> QED BY <2>1 DEF Ended
  <1>2. publication \in Nat
    BY EngineAssumption DEF AnalysisInv
  <1> QED BY <1>1, <1>2 DEF Sound, Unbegun, Fields, Places, Reads

\* The answer: no two days it read are further apart than the days that were
\* published since it began.
LEMMA AnswerSound ==
  ASSUME AnalysisInv, NEW r \in Runs, run[r].pc = "model"
  PROVE  Sound(Ended(run[r], 200, "none"), publication)
  <1> DEFINE s == run[r]
             t == Ended(run[r], 200, "none")
             p == publication
  <1>1. p \in Nat /\ Sound(s, p) /\ Collected(s, p)
    BY EngineAssumption DEF AnalysisInv, Sound
  <1>2. t = [s EXCEPT !.pc = "ended", !.status = 200, !.fault = "none"]
    BY DEF Ended
  <1> HIDE DEF t
  <1>3. /\ DOMAIN t = Fields /\ t.pc = "ended" /\ t.dates = s.dates /\ t.moved = s.moved
        /\ t.status = 200 /\ t.forecast = s.forecast
    BY <1>1, <1>2 DEF Sound, Fields
  <1>4. s.dates \in [Reads -> 0 .. p] /\ s.moved \in 0 .. p
    BY <1>1 DEF Sound
  <1>5. ASSUME NEW c \in Reads, NEW d \in Pending(c), s.dates[c] # 0, s.dates[d] # 0
        PROVE  s.dates[d] - s.dates[c] \in 0 .. s.moved
    <2>1. d \in Reads
      BY DEF Pending, Reads
    <2>2. s.dates[c] \in 0 .. p /\ s.dates[d] \in 0 .. p
      BY <1>4, <2>1
    <2>3. s.dates[c] <= s.dates[d] /\ p <= s.dates[c] + s.moved
      BY <1>1, <1>5, <2>1 DEF Collected, InOrder
    <2>4. s.dates[c] \in Nat /\ s.dates[d] \in Nat /\ s.moved \in Nat /\ p \in Nat /\ s.dates[d] <= p
      BY <1>1, <1>4, <2>2
    <2> HIDE DEF s, p
    <2> QED BY <2>3, <2>4
  <1>6. s.dates["sales"] # 0 => s.forecast = ForecastOf(s.dates["sales"], s.dates["series"])
    BY <1>1 DEF Collected
  <1>7. Answered(t)
    BY <1>3, <1>5, <1>6 DEF Answered
  <1> QED BY <1>1, <1>3, <1>4, <1>7 DEF t, Sound, Places

LEMMA PublishSound == ASSUME AnalysisInv, Publish PROVE AnalysisInv'
  <1>1. publication \in 0 .. Last /\ publication' = publication + 1 /\ publication' \in 0 .. Last
    BY EngineAssumption DEF AnalysisInv, Publish
  <1>2. DOMAIN run' = Runs
    BY DEF Publish
  <1>3. ASSUME NEW r \in Runs PROVE Sound(run'[r], publication')
    <2>1. Sound(run[r], publication)
      BY DEF AnalysisInv
    <2>2. run[r].dates \in [Reads -> 0 .. publication']
      BY <1>1, <2>1 DEF Sound
    <2>3. CASE run[r].pc \in {"idle", "ended"}
      <3>1. run'[r] = run[r]
        BY <2>3 DEF Publish
      <3>2. run[r].pc = "idle" => Collected(run[r], publication')
        BY <2>1 DEF Sound, Collected, Pending
      <3>3. run[r].moved \in 0 .. publication'
        BY <1>1, <2>1 DEF Sound
      <3> QED BY <2>1, <2>2, <2>3, <3>1, <3>2, <3>3 DEF Sound
    <2>4. CASE run[r].pc \notin {"idle", "ended"}
      <3> DEFINE t == [run[r] EXCEPT !.moved = @ + 1]
      <3>1. run'[r] = t
        BY <2>4 DEF Publish
      <3>2. /\ DOMAIN t = Fields /\ t.pc = run[r].pc /\ t.dates = run[r].dates
            /\ t.moved = run[r].moved + 1 /\ t.status = run[r].status /\ t.forecast = run[r].forecast
        BY <2>1 DEF Sound, Fields
      <3> HIDE DEF t
      <3>3. /\ run[r].moved \in 0 .. publication /\ run[r].dates \in [Reads -> 0 .. publication]
            /\ Collected(run[r], publication) /\ run[r].status = 0 /\ run[r].pc \in Places
            /\ run[r].forecast \subseteq Int
        BY <2>1, <2>4 DEF Sound
      <3>4. \A c \in Reads : t.dates[c] # 0 => publication' <= t.dates[c] + t.moved
        BY <1>1, <3>2, <3>3 DEF Collected
      <3>5. Collected(t, publication')
        <4>1. \A c \in Pending(t.pc) : t.dates[c] = 0
          BY <3>2, <3>3 DEF Collected
        <4>2. InOrder(t.dates)
          BY <3>2, <3>3 DEF Collected
        <4>3. /\ t.pc = "series" => t.dates["sales"] # 0
              /\ t.pc \in {"weather", "model"} /\ t.dates["sales"] # 0 =>
                   t.forecast = ForecastOf(t.dates["sales"], t.dates["series"])
          BY <3>2, <3>3 DEF Collected
        <4> QED BY <3>4, <4>1, <4>2, <4>3 DEF Collected
      <3>6. t.moved \in 0 .. publication'
        BY <1>1, <3>2, <3>3
      <3>7. t.pc # "idle" /\ t.pc # "ended"
        BY <2>4, <3>2
      <3>8. Sound(t, publication')
        BY <2>2, <3>2, <3>3, <3>5, <3>6, <3>7 DEF Sound
      <3> QED BY <3>1, <3>8
    <2> QED BY <2>3, <2>4
  <1> QED BY <1>1, <1>2, <1>3 DEF AnalysisInv

LEMMA FailSound ==
  ASSUME AnalysisInv, NEW r \in Runs, ReadFails(r) \/ InvalidSnapshot(r) \/ PredictiveTimeout(r)
  PROVE  AnalysisInv'
  <1>1. /\ UNCHANGED publication
        /\ \E status \in {403, 500, 503, 504}, fault \in Faults :
             Become(r, Ended(run[r], status, fault))
    BY DEF ReadFails, InvalidSnapshot, Reading, PredictiveTimeout, Faults
  <1> QED BY <1>1, EndedSound, SoundRun

LEMMA ModelSound == ASSUME AnalysisInv, NEW r \in Runs, Model(r) PROVE AnalysisInv'
  <1>1. UNCHANGED publication /\ run[r].pc = "model"
    BY DEF Model
  <1>2. CASE Become(r, Ended(run[r], 200, "none"))
    BY <1>1, <1>2, AnswerSound, SoundRun
  <1>3. CASE \E status \in {403, 500, 503, 504}, fault \in Faults :
               Become(r, Ended(run[r], status, fault))
    BY <1>1, <1>3, EndedSound, SoundRun
  <1> QED BY <1>2, <1>3 DEF Model, Faults

LEMMA MoveSound ==
  ASSUME AnalysisInv, NEW r \in Runs, Trigger(r) \/ Notified(r) \/ Weather(r)
  PROVE  AnalysisInv'
  <1>1. UNCHANGED publication /\ DOMAIN run[r] = Fields /\ Sound(run[r], publication)
    BY DEF AnalysisInv, Sound, Trigger, Notified, Weather
  <1>2. PICK pc : /\ Become(r, [run[r] EXCEPT !.pc = pc]) /\ pc \in Places \ {"idle", "ended"}
                  /\ \/ run[r].pc = "idle" /\ pc = "expiring"
                     \/ run[r].pc = "notify" /\ pc = "series" /\ run[r].dates["sales"] # 0
                     \/ run[r].pc = "notify" /\ pc = "weather" /\ run[r].dates["sales"] = 0
                     \/ run[r].pc = "weather" /\ pc = "model"
    BY DEF Trigger, Notified, Weather, Places, Reads
  <1> DEFINE t == [run[r] EXCEPT !.pc = pc]
  <1>3. Keeps(run[r], t) /\ t.pc = pc
    BY <1>1, PlaceKeeps
  <1>4. Become(r, t)
    BY <1>2
  <1> HIDE DEF t
  <1>5. Pending(pc) \subseteq Pending(run[r].pc)
    BY <1>2 DEF Pending, Reads
  <1> QED BY <1>1, <1>2, <1>3, <1>4, <1>5, GoesOn

\* The webhook leaves alone what the analysis has collected.
LEMMA HookSound ==
  ASSUME AnalysisInv, NEW r \in Runs, Exists(r) \/ Post(r) \/ Mark(r)
  PROVE  AnalysisInv'
  <1>1. UNCHANGED publication /\ DOMAIN run[r] = Fields /\ run[r].pc \in {"notify", "post", "mark"}
    BY DEF AnalysisInv, Sound, Exists, Post, Mark
  <1>2. Keeps(run[r], Passed(r)) /\ Passed(r).pc = "notify"
    BY <1>1 DEF Passed, Keeps, Fields
  <1>3. CASE Become(r, Passed(r))
    BY <1>1, <1>2, <1>3, GoesOn DEF Places, Pending
  <1>4. ASSUME NEW pc \in {"post", "mark"}, Become(r, [run[r] EXCEPT !.pc = pc])
        PROVE  AnalysisInv'
    <2> DEFINE t == [run[r] EXCEPT !.pc = pc]
    <2>1. Keeps(run[r], t) /\ t.pc = pc /\ Become(r, t)
      BY <1>1, <1>4, PlaceKeeps
    <2> HIDE DEF t
    <2> QED BY <1>1, <2>1, GoesOn DEF Places, Pending
  <1> QED BY <1>3, <1>4 DEF Exists, Post, Mark

LEMMA NextAnalysis == AnalysisInv /\ [Next]_vars => AnalysisInv'
  <1> SUFFICES ASSUME AnalysisInv, [Next]_vars PROVE AnalysisInv'
    OBVIOUS
  <1>1. ASSUME NEW r \in Runs, Trigger(r) \/ PredictiveTimeout(r) PROVE AnalysisInv'
    BY <1>1, MoveSound, FailSound
  <1>2. ASSUME NEW r \in Runs, Progress(r) PROVE AnalysisInv'
    BY <1>2, ExpiringSound, SalesSound, AlertsSound, SeriesSound, FailSound, HookSound, MoveSound,
       ModelSound DEF Progress
  <1>3. CASE Publish
    BY <1>3, PublishSound
  <1>4. CASE UNCHANGED <<publication, run>>
    BY <1>4 DEF AnalysisInv
  <1> QED BY <1>1, <1>2, <1>3, <1>4 DEF Next, MarkerExpires, vars

LEMMA AlwaysAnalysis == Spec => []AnalysisInv
  BY InitAnalysis, NextAnalysis, PTL DEF Spec

\* Nothing but the data, the model and the deadline keep an analysis from its
\* answer: every failure of the webhook, of its markers and of the weather ends
\* inside the step that met it (motor_preditivo.py, alert_webhook.py).
THEOREM OnlyDataAndModelFail == Spec => []OnlyDataAndModelBreakIt
  <1>1. AnalysisInv => OnlyDataAndModelBreakIt
    BY DEF AnalysisInv, Sound, Faults, OnlyDataAndModelBreakIt
  <1> QED BY <1>1, AlwaysAnalysis, PTL

\* However many days are published between the consultations of an answer: they
\* are of days in their order, no further apart than what was published since
\* the run began, and the forecast is that of the Days up to the day the answer
\* names, but for the oldest ones that a later series no longer reaches
\* (node_motor_preditivo, build_daily_series).
THEOREM AnswersTellTheirDays == Spec => []MixedDaysAreBounded
  <1>1. ASSUME AnalysisInv PROVE MixedDaysAreBounded
    <2> SUFFICES ASSUME NEW r \in Runs, run[r].status = 200
                 PROVE  /\ \A i \in DOMAIN Order : \A j \in i .. 4 :
                             run[r].dates[Order[i]] # 0 /\ run[r].dates[Order[j]] # 0 =>
                               run[r].dates[Order[j]] - run[r].dates[Order[i]] \in 0 .. run[r].moved
                        /\ run[r].dates["sales"] # 0 =>
                             run[r].forecast =
                               Forecasts([d \in Label(run[r]) - Days + 1 .. Label(run[r]) |->
                                            IF d > Label(run[r]) - Days
                                                     + (run[r].dates["series"] - Label(run[r]))
                                            THEN Sold(d) ELSE 0], Label(run[r]))
      BY DEF MixedDaysAreBounded
    <2> DEFINE dates == run[r].dates
               day == dates["sales"]
               rows == dates["series"]
    <2>1. Answered(run[r]) /\ dates \in [Reads -> 0 .. publication] /\ publication \in Nat
      BY <1>1, EngineAssumption DEF AnalysisInv, Sound
    <2>2. ASSUME NEW i \in DOMAIN Order, NEW j \in i .. 4
          PROVE  Order[i] \in Reads /\ Order[j] \in Pending(Order[i])
      <3>1. i \in 1 .. 4 /\ j \in i .. 4
        BY DEF Order
      <3> QED BY <3>1 DEF Order, Pending, Reads
    <2>3. day # 0 => run[r].forecast = ForecastOf(Label(run[r]), rows) /\ Label(run[r]) = day
      BY <2>1 DEF Answered, Label
    <2>4. day \in Int /\ rows \in Int /\ Days \in Int
      BY <2>1, EngineAssumption DEF Reads
    <2>5. \A d : d > day - Days + (rows - day) <=> d > rows - Days
      BY <2>4
    <2> HIDE DEF dates
    <2> QED BY <2>1, <2>2, <2>3, <2>5 DEF Answered, ForecastOf, dates
  <1> QED BY <1>1, AlwaysAnalysis, PTL

\* Type correctness.  Of what a run keeps, HookInv knows the alerts that are
\* left, AnalysisInv the rest.
THEOREM TypeCorrect == Spec => []TypeOK
  <1>1. IInv /\ AnalysisInv => TypeOK
    <2> SUFFICES ASSUME IInv, AnalysisInv PROVE TypeOK
      OBVIOUS
    <2>1. /\ publication \in 0 .. Last /\ marked \subseteq Alerts /\ excused \subseteq Alerts
          /\ delivered \in [Alerts -> 0 .. 2]
      BY DEF IInv, Types, AnalysisInv
    <2>2. \A r \in Runs :
            run[r].left \subseteq Alerts /\ (run[r].pc \in {"post", "mark"} => run[r].left # {})
      BY DEF IInv, Types, Record, HookInv, Notifying
    <2>3. \A r \in Runs : Sound(run[r], publication)
      BY DEF AnalysisInv
    <2> QED BY <2>1, <2>2, <2>3 DEF Sound, Places, TypeOK
  <1> QED BY <1>1, AlwaysIInv, AlwaysAnalysis, PTL
=============================================================================
