--------------------------- MODULE PredictiveEngine ---------------------------
(***************************************************************************)
(* The predictive engine (app/agents/motor_preditivo.py) as its route runs  *)
(* it: consultations of the published analytical data one after the other   *)
(* (app/tools/analytics_tools.py), the webhook of critical alerts with its  *)
(* markers in Redis (app/notifications/alert_webhook.py), the forecast      *)
(* (app/analytics/forecasting.py), the weather, the model.                  *)
(*                                                                         *)
(* Runs overlap; a publication may come between two consultations; every    *)
(* call may fail or lose its reply and the deadline may strike at any await.*)
(* Of the products one is followed, by its sales of each day.               *)
(***************************************************************************)
EXTENDS Integers, FiniteSets, Sequences, FiniteSetsExt

CONSTANTS Runs,
          Alerts,     \* identifiers of the active alerts the caller passes as critical
          Days, Week, \* days_back of the series (28), days of a week (7)
          Last,       \* bound: the last day that is published
          Sales       \* quantity sold on each day up to Last

ASSUME EngineAssumption ==
    /\ Last \in Nat \ {0}
    /\ Week \in Nat \ {0} /\ Days \in Nat /\ Days >= 2 * Week
    /\ Sales \in [1 .. Last -> Nat]

VARIABLES publication, \* snapshot_date of vw_published_batch, 0 before the first
          marked,      \* alerts with a marker in Redis
          delivered,   \* history: how often each alert was delivered, up to 2
          excused,     \* history: alerts that a failure may have sent again
          run

vars == <<publication, marked, delivered, excused, run>>
hook == <<marked, delivered, excused>>

Reads == {"expiring", "sales", "alerts", "series"}

\* dates: the snapshot_date of the rows of each consultation, 0 without rows;
\* left: critical alerts still to be notified; moved: history, how many days were
\* published during the run; fault: history, what failed.
Unbegun == [pc |-> "idle", dates |-> [c \in Reads |-> 0], left |-> {}, forecast |-> {},
            moved |-> 0, fault |-> "none", status |-> 0]

Init ==
    /\ publication = 0 /\ marked = {}
    /\ delivered = [a \in Alerts |-> 0] /\ excused = {}
    /\ run = [r \in Runs |-> Unbegun]

Become(r, s) == run' = [run EXCEPT ![r] = s]

\* Of a run without an answer nothing but its error is left.
Ended(s, status, fault) ==
    [(IF status = 200 THEN s ELSE Unbegun) EXCEPT !.pc = "ended", !.status = status, !.fault = fault]

Trigger(r) ==
    /\ run[r].pc = "idle"
    /\ Become(r, [run[r] EXCEPT !.pc = "expiring"])
    /\ UNCHANGED <<publication, hook>>

-----------------------------------------------------------------------------
(* Consultations *)

\* _read: the account is checked on the operational database, then publication
\* and rows are read in one snapshot of the analytical one.
Read(r, c) == {[run[r] EXCEPT !.dates[c] = date] : date \in {0, publication}}

Reading(r, c) ==
    /\ run[r].pc = c /\ publication # 0
    /\ UNCHANGED <<publication, hook>>

ReadFails(r) ==
    /\ run[r].pc \in Reads
    /\ \/ publication = 0 /\ Become(r, Ended(run[r], 503, "unpublished"))
       \/ Become(r, Ended(run[r], 403, "permission"))
       \/ Become(r, Ended(run[r], 500, "database"))
    /\ UNCHANGED <<publication, hook>>

GetExpiringBatches(r) ==
    /\ Reading(r, "expiring")
    /\ \E s \in Read(r, "expiring") : Become(r, [s EXCEPT !.pc = "sales"])

Sold(d) == IF d \in 1 .. Last THEN Sales[d] ELSE 0

\* The summary reaches back 60 days, the series Days.
GetSalesSummary(r) ==
    /\ Reading(r, "sales")
    /\ \E s \in Read(r, "sales") :
         /\ s.dates["sales"] = 0 => \A d \in publication - Days + 1 .. publication : Sold(d) = 0
         /\ Become(r, [s EXCEPT !.pc = "alerts"])

\* After the alerts, those that are critical.
GetStockAlerts(r) ==
    /\ Reading(r, "alerts")
    /\ \E s \in Read(r, "alerts"), critical \in SUBSET Alerts :
         /\ critical # {} => s.dates["alerts"] # 0
         /\ Become(r, [s EXCEPT !.left = critical, !.pc = "notify"])

\* _snapshot_date refuses rows of any of the three without a date, or with one at
\* an end of the calendar, before anything is notified.
InvalidSnapshot(r) ==
    /\ Reading(r, "alerts")
    /\ Become(r, Ended(run[r], 503, "unpublished"))

-----------------------------------------------------------------------------
(* notify_new_critical_alerts: EXISTS, POST and SET for one alert after the  *)
(* other, in the order of the query                                          *)

First(alerts) == CHOOSE a \in alerts : TRUE

Current(r) == First(run[r].left)

Passed(r) == [run[r] EXCEPT !.left = @ \ {Current(r)}, !.pc = "notify"]

\* Another run is between its look at the marker and setting it.
Raced(r, a) == \E s \in Runs \ {r} : run[s].pc \in {"post", "mark"} /\ Current(s) = a

\* An error of the check counts as not yet notified.
Exists(r) ==
    /\ run[r].pc = "notify" /\ run[r].left # {}
    /\ LET a == Current(r) IN
       \/ a \in marked /\ Become(r, Passed(r)) /\ UNCHANGED excused
       \/ /\ a \notin marked /\ Become(r, [run[r] EXCEPT !.pc = "post"])
          /\ excused' = IF Raced(r, a) THEN excused \cup {a} ELSE excused
       \/ /\ Become(r, [run[r] EXCEPT !.pc = "post"])
          /\ excused' = excused \cup {a}
    /\ UNCHANGED <<publication, marked, delivered>>

Deliver(a) == delivered' = [delivered EXCEPT ![a] = IF @ < 2 THEN @ + 1 ELSE 2]

\* Bug: what was not delivered is marked as well.
PostMarksAnyway(r) ==
    /\ run[r].pc = "post"
    /\ \/ Deliver(Current(r)) \/ UNCHANGED delivered
    /\ Become(r, [run[r] EXCEPT !.pc = "mark"])
    /\ UNCHANGED <<publication, marked, excused>>

\* send_webhook_notification never raises; a lost reply is no delivery.
Post(r) ==
    /\ run[r].pc = "post"
    /\ \/ /\ Deliver(Current(r)) /\ UNCHANGED excused
          /\ Become(r, [run[r] EXCEPT !.pc = "mark"])
       \/ Deliver(Current(r)) /\ excused' = excused \cup {Current(r)} /\ Become(r, Passed(r))
       \/ UNCHANGED <<delivered, excused>> /\ Become(r, Passed(r))
    /\ UNCHANGED <<publication, marked>>

\* Bug: the marker is never written.
MarkNothing(r) ==
    /\ run[r].pc = "mark"
    /\ Become(r, Passed(r))
    /\ UNCHANGED <<publication, marked, delivered, excused>>

\* Bug: an error of Redis leaves the loop.
MarkRaises(r) ==
    /\ run[r].pc = "mark"
    /\ \/ marked' = marked \cup {Current(r)} /\ Become(r, Passed(r)) /\ UNCHANGED excused
       \/ /\ Become(r, Ended(run[r], 500, "redis"))
          /\ excused' = excused \cup {Current(r)} /\ UNCHANGED marked
    /\ UNCHANGED <<publication, delivered>>

Mark(r) ==
    /\ run[r].pc = "mark"
    /\ Become(r, Passed(r))
    /\ \/ marked' = marked \cup {Current(r)} /\ UNCHANGED excused
       \/ marked' \in {marked, marked \cup {Current(r)}} /\ excused' = excused \cup {Current(r)}
    /\ UNCHANGED <<publication, delivered>>

\* No product to forecast without sales.
Notified(r) ==
    /\ run[r].pc = "notify" /\ run[r].left = {}
    /\ Become(r, [run[r] EXCEPT !.pc = IF run[r].dates["sales"] # 0 THEN "series" ELSE "weather"])
    /\ UNCHANGED <<publication, hook>>

\* notification_ttl_seconds have passed.
MarkerExpires(a) ==
    /\ a \in marked
    /\ marked' = marked \ {a} /\ excused' = excused \cup {a}
    /\ UNCHANGED <<publication, delivered, run>>

-----------------------------------------------------------------------------
(* Forecast *)

Total(series, days) == MapThenSumSet(LAMBDA d : series[d], days)

\* Rounded half to even, but of a float: at a tie either neighbour.
Rounded(n, d) == {k \in (n \div d) .. (n \div d) + 1 : 2 * k * d <= 2 * n + d /\ 2 * n - d <= 2 * k * d}

\* forecast_product_demand of the days up to day: 60% of the recent week times
\* its ratio to the week before, from a half to two, and 40% of the average.
Forecasts(series, day) ==
    LET recent == Total(series, day - Week + 1 .. day)
        prior == Total(series, day - 2 * Week + 1 .. day - Week)
        ratio == IF prior = 0 /\ recent = 0 THEN <<1, 1>>
                 ELSE IF recent >= 2 * prior THEN <<2, 1>>
                 ELSE IF 2 * recent <= prior THEN <<1, 2>> ELSE <<recent, prior>>
    IN Rounded(6 * recent * ratio[1] * Days + 4 * Total(series, day - Days + 1 .. day) * Week * ratio[2],
               10 * ratio[2] * Days)

\* Bug: the reference date is the one of the rows.
SeriesToItsOwnDay(rowsOf, day) ==
    [d \in day - Days + 1 .. day |-> Sold(d + rowsOf - day)]

\* build_daily_series: the rows are those of the publication the series was read
\* from, the days those up to the snapshot of the summary.
BuildDailySeries(rowsOf, day) ==
    [d \in day - Days + 1 .. day |->
        IF d \in rowsOf - Days + 1 .. rowsOf THEN Sold(d) ELSE 0]

\* Days without a row are zero, so it makes no difference whether rows come.
GetDailySalesSeries(r) ==
    /\ Reading(r, "series")
    /\ LET day == run[r].dates["sales"] IN
       Become(r, [run[r] EXCEPT !.dates["series"] = publication, !.pc = "weather",
                    !.forecast = Forecasts(BuildDailySeries(publication, day), day)])

-----------------------------------------------------------------------------
(* Weather, model, reply *)

\* Two calls of Open-Meteo; any error becomes a line of the context.
Weather(r) ==
    /\ run[r].pc = "weather"
    /\ Become(r, [run[r] EXCEPT !.pc = "model"])
    /\ UNCHANGED <<publication, hook>>

\* Publication dates of the rows, sales first: the first one labels the answer.
Label(s) ==
    IF s.dates["sales"] # 0 THEN s.dates["sales"]
    ELSE IF s.dates["expiring"] # 0 THEN s.dates["expiring"] ELSE s.dates["alerts"]

\* Model, Judge and output guardrail of the route: an answer or a fixed text;
\* a provider error is 503, any other one 500.
Model(r) ==
    /\ run[r].pc = "model"
    /\ \/ Become(r, Ended(run[r], 200, "none"))
       \/ Become(r, Ended(run[r], 503, "provider"))
       \/ Become(r, Ended(run[r], 500, "database"))
    /\ UNCHANGED <<publication, hook>>

\* predictive_timeout_seconds: what is under way is cancelled; a POST may have
\* arrived, a delivered alert stays without a marker.
PredictiveTimeout(r) ==
    /\ run[r].pc \notin {"idle", "ended"}
    /\ Become(r, Ended(run[r], 504, "timeout"))
    /\ \/ UNCHANGED <<delivered, excused>>
       \/ /\ run[r].pc \in {"post", "mark"}
          /\ excused' = excused \cup {Current(r)}
          /\ IF run[r].pc = "post" THEN Deliver(Current(r)) ELSE UNCHANGED delivered
    /\ run[r].pc = "mark" => Current(r) \in excused'
    /\ UNCHANGED <<publication, marked>>

-----------------------------------------------------------------------------
\* The analytical load publishes the next day.
Publish ==
    /\ publication < Last
    /\ publication' = publication + 1
    /\ run' = [r \in Runs |-> IF run[r].pc \in {"idle", "ended"} THEN run[r]
                              ELSE [run[r] EXCEPT !.moved = @ + 1]]
    /\ UNCHANGED hook

Progress(r) ==
    \/ GetExpiringBatches(r) \/ GetSalesSummary(r) \/ GetStockAlerts(r) \/ GetDailySalesSeries(r)
    \/ InvalidSnapshot(r) \/ ReadFails(r)
    \/ Exists(r) \/ Post(r) \/ Mark(r) \/ Notified(r) \/ Weather(r) \/ Model(r)

Next ==
    \/ \E r \in Runs : Trigger(r) \/ Progress(r) \/ PredictiveTimeout(r)
    \/ \E a \in Alerts : MarkerExpires(a)
    \/ Publish

Spec == Init /\ [][Next]_vars

-----------------------------------------------------------------------------
(* Properties *)

TypeOK ==
    /\ publication \in 0 .. Last /\ marked \subseteq Alerts /\ excused \subseteq Alerts
    /\ delivered \in [Alerts -> 0 .. 2]
    /\ \A r \in Runs :
         /\ run[r].pc \in Reads \cup {"idle", "notify", "post", "mark", "weather", "model", "ended"}
         /\ run[r].dates \in [Reads -> 0 .. publication]
         /\ run[r].left \subseteq Alerts /\ (run[r].pc \in {"post", "mark"} => run[r].left # {})
         /\ run[r].forecast \subseteq Int /\ run[r].moved \in 0 .. publication
         /\ run[r].status \in {0, 200, 403, 500, 503, 504}

\* An alert that later analyses leave out as already notified was delivered: no
\* failure makes the marker outrun the delivery (notify_new_critical_alerts).
MarkedWasDelivered == \A a \in marked : delivered[a] > 0

\* An alert is delivered again only if a marker expired, a call of Redis or the
\* webhook failed, the deadline struck, or two analyses overlapped between the
\* look at the marker and setting it.
RepeatsAreExplained == \A a \in Alerts : delivered[a] > 1 => a \in excused

\* "A notification failure must never break the analysis": nor does one of the
\* weather (alert_webhook.py, motor_preditivo.py).
OnlyDataAndModelBreakIt == \A r \in Runs :
    run[r].pc = "ended" /\ run[r].status # 200 =>
        run[r].fault \in {"unpublished", "permission", "database", "provider", "timeout"}

\* The consultations in the order of the run.
Order == <<"expiring", "sales", "alerts", "series">>

\* An answer may mix days, but only in one direction and within bounds: later
\* consultations are of later days, and no two are further apart than days were
\* published during the run.  "Forecast history ends on the analytical
\* publication date" that the answer names: the forecast is that of the Days up
\* to it, with nothing from after it; only when its series was read at a later
\* publication do as many of the oldest days count as days without sales
\* (node_motor_preditivo, build_daily_series).
MixedDaysAreBounded == \A r \in Runs :
    run[r].status = 200 =>
        LET dates == run[r].dates
            day == Label(run[r])
            late == dates["series"] - day
        IN /\ \A i \in DOMAIN Order : \A j \in i .. 4 :
                dates[Order[i]] # 0 /\ dates[Order[j]] # 0 =>
                    dates[Order[j]] - dates[Order[i]] \in 0 .. run[r].moved
           /\ dates["sales"] # 0 =>
                run[r].forecast = Forecasts([d \in day - Days + 1 .. day |->
                                                IF d > day - Days + late THEN Sold(d) ELSE 0], day)

=============================================================================
