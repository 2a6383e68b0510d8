----------------------------- MODULE AccessProofs -----------------------------
(***************************************************************************)
(* Proofs about Access: a logged out token opens nothing, what acts on the  *)
(* operational database was allowed by the account as it was meanwhile, no  *)
(* signature of a withdrawn key is accepted once the cache has had to give  *)
(* it up, and no window of time admits more than the limit, for any number  *)
(* of requests, any workload, any published keys and any times.             *)
(***************************************************************************)
EXTENDS Access, FiniteSetTheorems, TLAPS

Fields == {"pc", "token", "route", "who", "identified", "at", "used", "from", "held", "after",
           "fault"}

Record(q) == Fields \subseteq DOMAIN q

USE DEF Fields

\* Where a request is whose bearer token is being checked or used.
Inside == {"lock", "fetch", "revocation", "resolve", "route", "revoke"}

\* Where a request has passed the deny list.
Passed == {"resolve", "route", "revoke", "limit", "revalidate", "write", "tool"}

\* A bearer token comes to one of the three routes.
Call(q) == q.token \in Bearers /\ q.route \in {"logout", "write", "analysis"}

\* What holds of a request at any moment.
Good(q) ==
    /\ q.after => q.token \in loggedOut
    /\ q.pc \in Inside => Call(q)
    /\ q.pc = "revoke" => q.token # "legacy" /\ q.route = "logout" /\ q.at \in Nat /\ q.at <= now
    /\ q.after /\ q.pc \in Passed => q.fault = "blind" \/ now >= Expiry
    /\ q.held # {} => account \in q.held
    /\ q.pc \in {"revalidate", "write", "tool"} => q.held # {}
    /\ q.pc = "limit" /\ q.token # "service" => q.route = "analysis"

\* The deny list holds every token whose logout was answered until it expires.
DenyList ==
    /\ loggedOut \subseteq Bearers \ {"legacy"}
    /\ DOMAIN denied = Bearers
    /\ \A t \in loggedOut : denied[t] \in Int /\ denied[t] >= Expiry

IInv ==
    /\ now \in Nat /\ calls \in Workloads
    /\ DOMAIN request = Requests
    /\ DenyList
    /\ \A r \in Requests : Record(request[r]) /\ Good(request[r])

\* What must hold of a request that is answered with success.
Allowed(q) ==
    /\ q.after => q.fault = "blind" \/ now >= Expiry
    /\ q.route \in {"write", "mcp", "a2a"} => \E a \in q.held : Matches(a, q.who)

ServedWell == \A r \in Requests : Served(r) => Allowed(request[r])

-----------------------------------------------------------------------------
LEMMA ExpiryIsInt == Expiry \in Int
  BY AccessAssumption

LEMMA TtlReaches ==
  ASSUME NEW t \in Nat, NEW n \in Nat, t <= n
  PROVE  n + Ttl(t) \in Int /\ n + Ttl(t) >= Expiry
  <1>1. t \div 2 \in Nat /\ 2 * (t \div 2) <= t
    OBVIOUS
  <1> QED BY <1>1, ExpiryIsInt DEF Ttl

LEMMA UnbornRecord == Record(Unborn) /\ Unborn.held = {} /\ ~Unborn.after /\ Unborn.pc = "idle"
  BY DEF Record, Unborn

LEMMA RepliedGood ==
  ASSUME NEW q, NEW status \in Statuses
  PROVE  /\ Record(Replied(q, status)) /\ Good(Replied(q, status))
         /\ Replied(q, status).pc = status
  <1>1. CASE q.used > 0
    BY <1>1, UnbornRecord DEF Record, Good, Replied, Statuses, Inside, Passed
  <1>2. CASE ~(q.used > 0)
    BY <1>2, UnbornRecord DEF Record, Good, Replied, Statuses, Inside, Passed
  <1> QED BY <1>1, <1>2

LEMMA BrokenGood ==
  ASSUME NEW q, NEW status \in Statuses
  PROVE  Record(Broken(q, status)) /\ Good(Broken(q, status)) /\ Broken(q, status).pc = status
  <1> DEFINE s == Replied(q, status)
  <1>1. Record(s) /\ s.pc = status
    BY RepliedGood
  <1>2. s.held = {} /\ ~s.after
    BY UnbornRecord DEF Replied, Record
  <1> HIDE DEF s
  <1>3. Broken(q, status) = [s EXCEPT !.fault = "broken"]
    BY DEF Broken, s
  <1> QED BY <1>1, <1>2, <1>3 DEF Record, Good, Statuses, Inside, Passed

LEMMA InitIInv == Init => IInv
  <1> SUFFICES ASSUME Init PROVE IInv
    OBVIOUS
  <1>1. DOMAIN request = Requests /\ \A r \in Requests : request[r] = Unborn
    BY DEF Init
  <1>2. Good(Unborn)
    BY UnbornRecord DEF Good, Inside, Call, Passed
  <1>3. now \in Nat /\ calls \in Workloads /\ DenyList
    BY DEF Init, DenyList
  <1> QED BY <1>1, <1>2, <1>3, UnbornRecord DEF IInv

\* One request changes, and of what the others depend on the deny list at most.
LEMMA OneRequestOrLogout ==
  ASSUME IInv, NEW r \in Requests, NEW q, Record(q), Good(q), Become(r, q),
         UNCHANGED <<now, calls, account>>, loggedOut \subseteq loggedOut', DenyList',
         q.pc = "200" => Allowed(request[r])
  PROVE  IInv' /\ ServedWell
  <1>1. /\ DOMAIN request' = Requests
        /\ \A o \in Requests : request'[o] = IF o = r THEN q ELSE request[o]
    BY DEF IInv, Become
  <1>2. \A o \in Requests : Record(request'[o]) /\ Good(request'[o])
    BY <1>1 DEF IInv
  <1>3. \A o \in Requests : Good(request[o])'
    BY <1>2 DEF Good, Call
  <1>4. IInv'
    BY <1>1, <1>2, <1>3 DEF IInv
  <1>5. ServedWell
    BY <1>1 DEF ServedWell, Served
  <1> QED BY <1>4, <1>5

LEMMA OneRequest ==
  ASSUME IInv, NEW r \in Requests, NEW q, Record(q), Good(q), Become(r, q),
         UNCHANGED <<now, calls, account, denied, loggedOut>>,
         q.pc = "200" => Allowed(request[r])
  PROVE  IInv' /\ ServedWell
  <1>1. DenyList' /\ loggedOut \subseteq loggedOut'
    BY DEF IInv, DenyList
  <1> QED BY <1>1, OneRequestOrLogout

\* The reply ends the request, and is no success.
LEMMA RefusedStep ==
  ASSUME IInv, NEW r \in Requests, NEW status \in Statuses \ {"200"},
         Become(r, Replied(request[r], status)) \/ Become(r, Broken(request[r], status)),
         UNCHANGED <<now, calls, account, denied, loggedOut>>
  PROVE  IInv' /\ ServedWell
  <1>1. CASE Become(r, Replied(request[r], status))
    BY <1>1, RepliedGood, OneRequest
  <1>2. CASE Become(r, Broken(request[r], status))
    BY <1>2, BrokenGood, OneRequest
  <1> QED BY <1>1, <1>2

-----------------------------------------------------------------------------
(* From the arrival to the deny list *)

LEMMA DecodedGood ==
  ASSUME NEW q, Record(q), Good(q), Call(q), NEW keys
  PROVE  /\ Record(Decoded(q, keys)) /\ Good(Decoded(q, keys))
         /\ Decoded(q, keys).pc # "200"
  <1> DEFINE s == [q EXCEPT !.pc = "revocation", !.at = 0, !.from = 1]
  <1>1. Record(s) /\ s.pc = "revocation" /\ s.after = q.after /\ s.token = q.token /\ s.held = q.held
        /\ s.route = q.route
    BY DEF Record
  <1>2. Good(s)
    BY <1>1 DEF Good, Inside, Call, Passed
  <1>3. Decoded(q, keys) \in {s, Replied(q, "401")}
    BY DEF Decoded
  <1> HIDE DEF s
  <1>4. "401" \in Statuses
    BY DEF Statuses
  <1> QED BY <1>1, <1>2, <1>3, <1>4, RepliedGood

LEMMA ArrivedGood ==
  ASSUME NEW q, Record(q), q.held = {}, q.after => q.token \in loggedOut,
         Call(q) \/ q.token = "service", loggedOut \subseteq Bearers \ {"legacy"}
  PROVE  /\ Record(Arrived(q)) /\ Good(Arrived(q)) /\ Arrived(q).pc # "200"
  <1>1. CASE q.token = "service"
    <2> DEFINE s == [q EXCEPT !.pc = "limit", !.at = now]
    <2>1. Record(s) /\ s.pc = "limit" /\ s.after = q.after /\ s.token = q.token /\ s.held = {}
          /\ s.route = q.route
      BY DEF Record
    <2>2. ~s.after
      BY <1>1, <2>1 DEF Bearers
    <2>3. Arrived(q) = s
      BY <1>1 DEF Arrived
    <2> QED BY <1>1, <2>1, <2>2, <2>3 DEF Good, Inside, Call
  <1>2. CASE q.token \in Firebase
    <2> DEFINE s == [q EXCEPT !.pc = "lock"]
    <2>1. Record(s) /\ s.pc = "lock" /\ s.after = q.after /\ s.token = q.token /\ s.held = {}
          /\ s.route = q.route
      BY DEF Record
    <2>2. Good(s) /\ Call(q)
      BY <1>2, <2>1 DEF Good, Inside, Call, Passed, Firebase, Bearers
    <2>3. Arrived(q) = SigningKey(q)
      BY <1>2 DEF Arrived, Firebase
    <2>4. CASE SigningKey(q) = s
      BY <2>1, <2>2, <2>3, <2>4
    <2>5. CASE SigningKey(q) = Decoded(q, certs.keys)
      <3> DEFINE t == [q EXCEPT !.pc = "revocation", !.at = 0, !.from = 1]
      <3>1. Record(t) /\ t.pc = "revocation" /\ t.after = q.after /\ t.token = q.token /\ t.held = {}
          /\ t.route = q.route
        BY DEF Record
      <3>2. Good(t)
        BY <2>2, <3>1 DEF Good, Inside, Call, Passed
      <3>3. Decoded(q, certs.keys) \in {t, Replied(q, "401")}
        BY DEF Decoded
      <3> HIDE DEF t
      <3> QED BY <2>3, <2>5, <3>1, <3>2, <3>3, RepliedGood DEF Statuses
    <2> QED BY <2>4, <2>5 DEF SigningKey
  <1>3. CASE q.token \in {"local", "legacy"}
    <2> DEFINE s == [q EXCEPT !.pc = "revocation"]
               t == [q EXCEPT !.pc = "route", !.who = Claims, !.identified = TRUE]
    <2>1. Record(s) /\ s.pc = "revocation" /\ s.after = q.after /\ s.token = q.token /\ s.held = {}
          /\ s.route = q.route
      BY DEF Record
    <2>2. Record(t) /\ t.pc = "route" /\ t.after = q.after /\ t.token = q.token /\ t.held = {}
          /\ t.route = q.route
      BY DEF Record
    <2>3. Good(s)
      BY <1>3, <2>1 DEF Good, Inside, Call, Passed, Bearers
    <2>4. q.token = "legacy" => Good(t)
      BY <2>2 DEF Good, Inside, Call, Passed, Bearers
    <2>5. \/ Arrived(q) = Replied(q, "401") \/ Arrived(q) = s
          \/ q.token = "legacy" /\ Arrived(q) = t
      BY <1>3 DEF Arrived, Firebase
    <2> HIDE DEF s, t
    <2>6. "401" \in Statuses
      BY DEF Statuses
    <2> QED BY <2>1, <2>2, <2>3, <2>4, <2>5, <2>6, RepliedGood
  <1> QED BY <1>1, <1>2, <1>3 DEF Bearers, Firebase, Call

LEMMA ArriveStep == ASSUME IInv, NEW r \in Requests, Arrive(r) PROVE IInv' /\ ServedWell
  <1>1. PICK call \in calls : Become(r, Arrived(
           [Unborn EXCEPT !.token = call[1], !.route = call[2], !.after = (call[1] \in loggedOut)]))
    BY DEF Arrive
  <1> DEFINE q == [Unborn EXCEPT !.token = call[1], !.route = call[2],
                                 !.after = (call[1] \in loggedOut)]
  <1>2. Record(q) /\ q.held = {} /\ q.token = call[1] /\ q.route = call[2]
        /\ (q.after => call[1] \in loggedOut)
    BY UnbornRecord DEF Record
  <1>3. (Call(q) \/ q.token = "service") /\ loggedOut \subseteq Bearers \ {"legacy"}
    BY <1>2, AccessAssumption DEF IInv, DenyList, Call
  <1> HIDE DEF q
  <1>4. /\ Record(Arrived(q)) /\ Good(Arrived(q)) /\ Arrived(q).pc # "200"
    BY <1>2, <1>3, ArrivedGood
  <1>5. Become(r, Arrived(q)) /\ UNCHANGED <<now, calls, account, denied, loggedOut>>
    BY <1>1 DEF q, Arrive, world, redis
  <1> QED BY <1>4, <1>5, OneRequest

LEMMA TakeLockStep == ASSUME IInv, NEW r \in Requests, TakeLock(r) PROVE IInv' /\ ServedWell
  <1> DEFINE s == [request[r] EXCEPT !.pc = "fetch", !.at = now, !.from = rotation]
  <1>1. Record(request[r]) /\ Good(request[r]) /\ request[r].pc = "lock"
    BY DEF IInv, TakeLock
  <1>2. Call(request[r])
    BY <1>1 DEF Good, Inside, Call
  <1>3. Record(s) /\ s.pc = "fetch" /\ s.after = request[r].after /\ s.token = request[r].token
        /\ s.held = request[r].held /\ s.route = request[r].route
    BY <1>1 DEF Record
  <1>4. Good(s)
    BY <1>1, <1>2, <1>3 DEF Good, Passed, Call
  <1>5. UNCHANGED <<now, calls, account, denied, loggedOut>>
    BY DEF TakeLock, world, redis
  <1> HIDE DEF s
  <1>6. Become(r, s) \/ Become(r, Decoded(request[r], certs.keys))
    BY DEF TakeLock, s
  <1> QED BY <1>1, <1>2, <1>3, <1>4, <1>5, <1>6, DecodedGood, OneRequest

LEMMA FetchReturnsStep == ASSUME IInv, NEW r \in Requests, FetchReturns(r) PROVE IInv' /\ ServedWell
  <1>1. Record(request[r]) /\ Good(request[r]) /\ Call(request[r])
    BY DEF IInv, FetchReturns, Good, Inside
  <1>2. PICK i \in request[r].from .. rotation : Become(r, Decoded(request[r], Rotation[i]))
    BY DEF FetchReturns
  <1>3. UNCHANGED <<now, calls, account, denied, loggedOut>>
    BY DEF FetchReturns, world, redis
  <1> QED BY <1>1, <1>2, <1>3, DecodedGood, OneRequest

LEMMA FetchFailsStep == ASSUME IInv, NEW r \in Requests, FetchFails(r) PROVE IInv' /\ ServedWell
  <1>1. Become(r, Broken(request[r], "503")) /\ "503" \in Statuses \ {"200"}
    BY DEF FetchFails, Statuses
  <1>2. UNCHANGED <<now, calls, account, denied, loggedOut>>
    BY DEF FetchFails, world, redis
  <1> QED BY <1>1, <1>2, RefusedStep

\* The deny list answers as of now; a token it does not name is not logged out
\* or has expired meanwhile.
LEMMA IsRevokedStep == ASSUME IInv, NEW r \in Requests, IsRevoked(r) PROVE IInv' /\ ServedWell
  <1> DEFINE s == [request[r] EXCEPT !.pc = "resolve"]
             b == [s EXCEPT !.fault = "blind"]
  <1>1. Record(request[r]) /\ Good(request[r]) /\ request[r].pc = "revocation"
    BY DEF IInv, IsRevoked
  <1>2. UNCHANGED <<now, calls, account, denied, loggedOut>>
    BY DEF IsRevoked, world, redis
  <1>3. Record(s) /\ s.pc = "resolve" /\ s.after = request[r].after /\ s.token = request[r].token
        /\ s.held = request[r].held /\ s.route = request[r].route
    BY <1>1 DEF Record
  <1>4. Record(b) /\ b.pc = "resolve" /\ b.after = request[r].after /\ b.token = request[r].token
        /\ b.held = request[r].held /\ b.route = request[r].route /\ b.fault = "blind"
    BY <1>3 DEF Record
  <1>5. Good(b)
    BY <1>1, <1>4 DEF Good, Inside, Call
  <1>6. ~(denied[request[r].token] > now) => Good(s)
    <2> SUFFICES ASSUME ~(denied[request[r].token] > now), s.after PROVE now >= Expiry
      BY <1>1, <1>3 DEF Good, Inside, Call
    <2>1. request[r].token \in loggedOut
      BY <1>1, <1>3 DEF Good
    <2> QED BY <2>1, ExpiryIsInt DEF IInv, DenyList
  <1>7. \/ Become(r, Replied(request[r], "401"))
        \/ ~(denied[request[r].token] > now) /\ Become(r, s)
        \/ Become(r, b)
    BY DEF IsRevoked
  <1> HIDE DEF s, b
  <1>8. "401" \in Statuses \ {"200"}
    BY DEF Statuses
  <1> QED BY <1>2, <1>3, <1>4, <1>5, <1>6, <1>7, <1>8, RefusedStep, OneRequest

-----------------------------------------------------------------------------
(* Account, roles and logout *)

LEMMA ResolveStep == ASSUME IInv, NEW r \in Requests, Resolve(r) PROVE IInv' /\ ServedWell
  <1>1. Record(request[r]) /\ Good(request[r]) /\ request[r].pc = "resolve"
    BY DEF IInv, Resolve
  <1>2. UNCHANGED <<now, calls, account, denied, loggedOut>>
    BY DEF Resolve, world, redis
  <1>3. ASSUME NEW w PROVE
          LET s == [request[r] EXCEPT !.pc = "route", !.who = w]
              t == [request[r] EXCEPT !.pc = "route", !.who = w, !.identified = TRUE]
          IN /\ Record(s) /\ Good(s) /\ s.pc = "route"
             /\ Record(t) /\ Good(t) /\ t.pc = "route"
    <2> DEFINE s == [request[r] EXCEPT !.pc = "route", !.who = w]
               t == [request[r] EXCEPT !.pc = "route", !.who = w, !.identified = TRUE]
    <2>1. /\ Record(s) /\ s.pc = "route" /\ s.after = request[r].after /\ s.token = request[r].token
          /\ s.held = request[r].held /\ s.route = request[r].route /\ s.fault = request[r].fault
      BY <1>1 DEF Record
    <2>2. /\ Record(t) /\ t.pc = "route" /\ t.after = request[r].after /\ t.token = request[r].token
          /\ t.held = request[r].held /\ t.route = request[r].route /\ t.fault = request[r].fault
      BY <1>1 DEF Record
    <2> HIDE DEF s, t
    <2>3. Good(s) /\ Good(t)
      BY <1>1, <2>1, <2>2 DEF Good, Inside, Call, Passed
    <2> QED BY <2>1, <2>2, <2>3 DEF s, t
  <1>4. {"401", "403", "500"} \subseteq Statuses \ {"200"}
    BY DEF Statuses
  <1>5. \/ Become(r, Broken(request[r], "500"))
        \/ Become(r, Replied(request[r], "401")) \/ Become(r, Replied(request[r], "403"))
        \/ \E w : \/ Become(r, [request[r] EXCEPT !.pc = "route", !.who = w])
                  \/ Become(r, [request[r] EXCEPT !.pc = "route", !.who = w, !.identified = TRUE])
    BY DEF Resolve
  <1>6. CASE \E w : \/ Become(r, [request[r] EXCEPT !.pc = "route", !.who = w])
                    \/ Become(r, [request[r] EXCEPT !.pc = "route", !.who = w, !.identified = TRUE])
    <2> PICK w : \/ Become(r, [request[r] EXCEPT !.pc = "route", !.who = w])
                 \/ Become(r, [request[r] EXCEPT !.pc = "route", !.who = w, !.identified = TRUE])
      BY <1>6
    <2> DEFINE s == [request[r] EXCEPT !.pc = "route", !.who = w]
               t == [request[r] EXCEPT !.pc = "route", !.who = w, !.identified = TRUE]
    <2>1. /\ Record(s) /\ Good(s) /\ s.pc = "route"
          /\ Record(t) /\ Good(t) /\ t.pc = "route"
      BY <1>3
    <2>2. Become(r, s) \/ Become(r, t)
      OBVIOUS
    <2> HIDE DEF s, t
    <2> QED BY <1>2, <2>1, <2>2, OneRequest
  <1> QED BY <1>2, <1>4, <1>5, <1>6, RefusedStep

\* The three ways out of a route: a reply, the revocation, the next check.
LEMMA EnterStep == ASSUME IInv, NEW r \in Requests, Enter(r) PROVE IInv' /\ ServedWell
  <1> DEFINE a == [request[r] EXCEPT !.pc = "revoke", !.at = now]
             b == [request[r] EXCEPT !.pc = "revalidate", !.held = {account}]
             c == [request[r] EXCEPT !.pc = "limit", !.at = now]
  <1>1. /\ Record(request[r]) /\ Good(request[r]) /\ request[r].pc = "route" /\ Call(request[r])
        /\ now \in Nat
    BY DEF IInv, Enter, Good, Inside
  <1>2. UNCHANGED <<now, calls, account, denied, loggedOut>>
    BY DEF Enter, world, redis
  <1>3. /\ Record(a) /\ a.pc = "revoke" /\ a.at = now /\ a.after = request[r].after
        /\ a.token = request[r].token /\ a.held = request[r].held /\ a.route = request[r].route
        /\ a.fault = request[r].fault
    BY <1>1 DEF Record
  <1>4. /\ Record(b) /\ b.pc = "revalidate" /\ b.after = request[r].after
        /\ b.token = request[r].token /\ b.held = {account} /\ b.fault = request[r].fault
    BY <1>1 DEF Record
  <1>5. /\ Record(c) /\ c.pc = "limit" /\ c.after = request[r].after
        /\ c.token = request[r].token /\ c.held = request[r].held /\ c.route = request[r].route
        /\ c.fault = request[r].fault
    BY <1>1 DEF Record
  <1>6. \/ request[r].route = "logout" /\ Become(r, LogoutRoute(request[r]))
        \/ Become(r, Replied(request[r], "403"))
        \/ Become(r, b)
        \/ request[r].route \notin {"logout", "write"} /\ Become(r, c)
    BY DEF Enter
  <1> HIDE DEF b, c
  <1>7. \/ LogoutRoute(request[r]) = Replied(request[r], "400")
        \/ LogoutRoute(request[r]) = Replied(request[r], "200")
        \/ request[r].token # "legacy" /\ LogoutRoute(request[r]) = a
    BY DEF LogoutRoute
  <1> HIDE DEF a
  <1>8. CASE request[r].route = "logout" /\ Become(r, Replied(request[r], "200"))
    <2>1. Allowed(request[r])
      BY <1>1, <1>8 DEF Good, Allowed, Passed
    <2> QED BY <1>2, <1>8, <2>1, RepliedGood, OneRequest DEF Statuses
  <1>9. CASE request[r].token # "legacy" /\ request[r].route = "logout" /\ Become(r, a)
    <2>1. Good(a)
      BY <1>1, <1>3, <1>9 DEF Good, Inside, Call, Passed
    <2> QED BY <1>2, <1>3, <1>9, <2>1, OneRequest
  <1>10. CASE Become(r, b)
    <2>1. Good(b)
      BY <1>1, <1>4 DEF Good, Inside, Call, Passed
    <2> QED BY <1>2, <1>4, <1>10, <2>1, OneRequest
  <1>11. CASE request[r].route \notin {"logout", "write"} /\ Become(r, c)
    <2>1. Good(c)
      BY <1>1, <1>5, <1>11 DEF Good, Inside, Call, Passed
    <2> QED BY <1>2, <1>5, <1>11, <2>1, OneRequest
  <1>12. {"400", "403"} \subseteq Statuses \ {"200"}
    BY DEF Statuses
  <1> QED BY <1>2, <1>6, <1>7, <1>8, <1>9, <1>10, <1>11, <1>12, RefusedStep

LEMMA ServiceRefusedStep ==
  ASSUME IInv, NEW r \in Requests, ServiceRefused(r) PROVE IInv' /\ ServedWell
  <1>1. \E status \in Statuses \ {"200"} : Become(r, Replied(request[r], status))
    BY DEF ServiceRefused, Statuses
  <1>2. UNCHANGED <<now, calls, account, denied, loggedOut>>
    BY DEF ServiceRefused, world, redis
  <1> QED BY <1>1, <1>2, RefusedStep

\* The deny list keeps a token at least until it expires, whenever the clock was
\* read before.
LEMMA RevokeStep == ASSUME IInv, NEW r \in Requests, Revoke(r) PROVE IInv' /\ ServedWell
  <1> PICK token, until : token = request[r].token /\ until = now + Ttl(request[r].at)
    OBVIOUS
  <1>1. /\ Good(request[r]) /\ request[r].pc = "revoke" /\ now \in Nat /\ DenyList
        /\ UNCHANGED <<now, calls, account>>
    BY DEF IInv, Revoke, world
  <1>2. token \in Bearers \ {"legacy"} /\ until \in Int /\ until >= Expiry
    BY <1>1, TtlReaches DEF Good, Inside, Call
  <1>3. loggedOut \subseteq loggedOut' /\ DenyList'
    <2>1. CASE /\ denied' = [denied EXCEPT ![token] = until]
               /\ loggedOut' \in {loggedOut, loggedOut \cup {token}}
      BY <1>1, <1>2, <2>1, ExpiryIsInt DEF DenyList
    <2>2. CASE UNCHANGED <<denied, loggedOut>>
      BY <1>1, <2>2 DEF DenyList
    <2> QED BY <2>1, <2>2 DEF Revoke
  <1>4. Allowed(request[r])
    BY <1>1 DEF Good, Allowed, Passed
  <1>5. Become(r, Replied(request[r], "200")) \/ Become(r, Broken(request[r], "503"))
    BY DEF Revoke
  <1>6. "200" \in Statuses /\ "503" \in Statuses
    BY DEF Statuses
  <1> QED BY <1>1, <1>3, <1>4, <1>5, <1>6, RepliedGood, BrokenGood, OneRequestOrLogout

-----------------------------------------------------------------------------
(* Budgets and the operational account *)

LEMMA CheckRateLimitStep ==
  ASSUME IInv, NEW r \in Requests, CheckRateLimit(r) PROVE IInv' /\ ServedWell
  <1> DEFINE u == [request[r] EXCEPT !.used = now + 1]
             s == [request[r] EXCEPT !.pc = "tool", !.used = now + 1, !.who = Configured,
                                     !.held = {account}]
  <1>1. Record(request[r]) /\ Good(request[r]) /\ request[r].pc = "limit"
    BY DEF IInv, CheckRateLimit
  <1>2. UNCHANGED <<now, calls, account, denied, loggedOut>>
    BY DEF CheckRateLimit, world
  <1>3. /\ Record(s) /\ s.pc = "tool" /\ s.after = request[r].after /\ s.token = request[r].token
        /\ s.held = {account} /\ s.fault = request[r].fault
    BY <1>1 DEF Record
  <1>4. Good(s)
    BY <1>1, <1>3 DEF Good, Inside, Passed
  <1>5. \/ Become(r, Broken(request[r], "503"))
        \/ Become(r, Replied(request[r], "429"))
        \/ \E x \in Admitted(request[r]) : Become(r, x)
    BY DEF CheckRateLimit
  <1>6. \A x \in Admitted(request[r]) :
          \/ x = s \/ x = Replied(u, "error")
          \/ request[r].token # "service" /\ x = Replied(u, "200")
    BY DEF Admitted
  <1> HIDE DEF u, s
  <1>7. request[r].token # "service" => Allowed(request[r])
    BY <1>1 DEF Good, Allowed, Passed
  <1>8. {"200", "429", "503", "error"} \subseteq Statuses
    BY DEF Statuses
  <1>9. ASSUME NEW x \in Admitted(request[r]), Become(r, x) PROVE IInv' /\ ServedWell
    <2>1. Record(x) /\ Good(x) /\ (x.pc = "200" => Allowed(request[r]))
      BY <1>3, <1>4, <1>6, <1>7, <1>8, RepliedGood
    <2> QED BY <1>2, <1>9, <2>1, OneRequest
  <1> QED BY <1>2, <1>5, <1>8, <1>9, RefusedStep

\* An operation is under way, and the account that allows it is the current one.
LEMMA OperationIsAllowed ==
  ASSUME IInv, NEW r \in Requests, request[r].pc \in {"revalidate", "write", "tool"},
         Matches(account, request[r].who)
  PROVE  Allowed(request[r])
  BY DEF IInv, Good, Passed, Allowed

LEMMA RevalidateStep == ASSUME IInv, NEW r \in Requests, Revalidate(r) PROVE IInv' /\ ServedWell
  <1> DEFINE s == [request[r] EXCEPT !.pc = "write", !.held = {account}]
  <1>1. Record(request[r]) /\ Good(request[r]) /\ request[r].pc = "revalidate"
    BY DEF IInv, Revalidate
  <1>2. UNCHANGED <<now, calls, account, denied, loggedOut>>
    BY DEF Revalidate, world, redis
  <1>3. /\ Record(s) /\ s.pc = "write" /\ s.after = request[r].after /\ s.token = request[r].token
        /\ s.held = {account} /\ s.fault = request[r].fault
    BY <1>1 DEF Record
  <1>4. Good(s)
    BY <1>1, <1>3 DEF Good, Inside, Passed
  <1>5. \/ Become(r, s)
        \/ MayAct(request[r]) /\ Become(r, Replied(request[r], "200"))
        \/ Become(r, Replied(request[r], "403")) \/ Become(r, Broken(request[r], "500"))
    BY DEF Revalidate
  <1> HIDE DEF s
  <1>6. MayAct(request[r]) => Allowed(request[r])
    BY <1>1, OperationIsAllowed DEF MayAct
  <1>7. {"200", "403", "500"} \subseteq Statuses
    BY DEF Statuses
  <1>8. CASE MayAct(request[r]) /\ Become(r, Replied(request[r], "200"))
    BY <1>2, <1>6, <1>7, <1>8, RepliedGood, OneRequest
  <1> QED BY <1>2, <1>3, <1>4, <1>5, <1>7, <1>8, RefusedStep, OneRequest

LEMMA WriteStep == ASSUME IInv, NEW r \in Requests, Write(r) PROVE IInv' /\ ServedWell
  <1>1. request[r].pc = "write" /\ UNCHANGED <<now, calls, account, denied, loggedOut>>
    BY DEF Write, world, redis
  <1>2. \/ MayAct(request[r]) /\ Become(r, Replied(request[r], "200"))
        \/ Become(r, Replied(request[r], "403")) \/ Become(r, Broken(request[r], "500"))
    BY DEF Write
  <1>3. {"200", "403", "500"} \subseteq Statuses
    BY DEF Statuses
  <1>4. CASE MayAct(request[r]) /\ Become(r, Replied(request[r], "200"))
    <2>1. Allowed(request[r])
      BY <1>1, <1>4, OperationIsAllowed DEF MayAct
    <2> QED BY <1>1, <1>3, <1>4, <2>1, RepliedGood, OneRequest
  <1> QED BY <1>1, <1>2, <1>3, <1>4, RefusedStep

LEMMA ToolStep == ASSUME IInv, NEW r \in Requests, Tool(r) PROVE IInv' /\ ServedWell
  <1> DEFINE q == [request[r] EXCEPT !.identified = (request[r].who # Gone)]
  <1>1. /\ Record(request[r]) /\ request[r].pc = "tool"
        /\ UNCHANGED <<now, calls, account, denied, loggedOut>>
    BY DEF Tool, world, redis, IInv
  <1>2. Record(q) /\ q.who = request[r].who
    BY <1>1 DEF Record
  <1>3. \/ MayAct(q) /\ Become(r, Replied(q, "200"))
        \/ \E status \in {"500", "error"} :
             Become(r, Replied(q, status)) \/ Become(r, Broken(q, status))
    BY DEF Tool
  <1> HIDE DEF q
  <1>4. "200" \in Statuses /\ {"500", "error"} \subseteq Statuses \ {"200"}
    BY DEF Statuses
  <1>5. CASE MayAct(q) /\ Become(r, Replied(q, "200"))
    <2>1. Allowed(request[r])
      BY <1>1, <1>2, <1>5, OperationIsAllowed DEF MayAct
    <2> QED BY <1>1, <1>4, <1>5, <2>1, RepliedGood, OneRequest
  <1>6. ASSUME NEW status \in {"500", "error"},
               Become(r, Replied(q, status)) \/ Become(r, Broken(q, status))
        PROVE  IInv' /\ ServedWell
    BY <1>1, <1>4, <1>6, RepliedGood, BrokenGood, OneRequest
  <1> QED BY <1>3, <1>5, <1>6

-----------------------------------------------------------------------------
(* The world *)

\* Nobody is served, and nothing that has been established is lost.
LEMMA TickStep == ASSUME IInv, Tick PROVE IInv' /\ ServedWell
  <1>1. now \in Nat /\ now' = now + 1 /\ UNCHANGED <<calls, account, denied, loggedOut, request>>
    BY DEF IInv, Tick, redis
  <1>2. \A r \in Requests : Record(request'[r]) /\ Good(request[r])'
    BY <1>1, ExpiryIsInt DEF IInv, Good, Call
  <1>3. DenyList' /\ ServedWell
    BY <1>1 DEF IInv, DenyList, ServedWell, Served
  <1> QED BY <1>1, <1>2, <1>3 DEF IInv

LEMMA RotateStep == ASSUME IInv, Rotate PROVE IInv' /\ ServedWell
  <1>1. UNCHANGED <<now, calls, account, denied, loggedOut, request>>
    BY DEF Rotate, redis
  <1> QED BY <1>1 DEF IInv, DenyList, Good, Call, ServedWell, Served

LEMMA AccountStep == ASSUME IInv, AccountChanges PROVE IInv' /\ ServedWell
  <1>1. UNCHANGED <<now, calls, denied, loggedOut>>
    BY DEF AccountChanges, redis
  <1>2. DOMAIN request' = Requests
    BY DEF AccountChanges
  <1>3. \A r \in Requests :
          /\ Record(request'[r])
          /\ request'[r].pc = request[r].pc /\ request'[r].token = request[r].token
          /\ request'[r].route = request[r].route /\ request'[r].at = request[r].at
          /\ request'[r].after = request[r].after /\ request'[r].fault = request[r].fault
          /\ request'[r].held = IF request[r].held = {} THEN {} ELSE request[r].held \cup {account'}
    BY DEF AccountChanges, IInv, Record
  <1>4. \A r \in Requests : Good(request[r])'
    <2> SUFFICES ASSUME NEW r \in Requests PROVE Good(request[r])'
      OBVIOUS
    <2>1. request'[r].held = {} <=> request[r].held = {}
      BY <1>3
    <2>2. request'[r].held # {} => account' \in request'[r].held
      BY <1>3
    <2> QED BY <1>1, <1>3, <2>1, <2>2 DEF IInv, Good, Call
  <1>5. DenyList' /\ ServedWell
    BY <1>1, <1>3 DEF IInv, DenyList, ServedWell, Served
  <1> QED BY <1>1, <1>2, <1>3, <1>4, <1>5 DEF IInv

-----------------------------------------------------------------------------
(* The theorems *)

LEMMA NextServesWell == IInv /\ [Next]_vars => IInv' /\ ServedWell
  <1> SUFFICES ASSUME IInv, [Next]_vars PROVE IInv' /\ ServedWell
    OBVIOUS
  <1>1. ASSUME NEW r \in Requests, Arrive(r) PROVE IInv' /\ ServedWell
    BY <1>1, ArriveStep
  <1>2. ASSUME NEW r \in Requests, Progress(r) PROVE IInv' /\ ServedWell
    BY <1>2, TakeLockStep, FetchReturnsStep, FetchFailsStep, IsRevokedStep, ResolveStep, EnterStep,
       RevokeStep, CheckRateLimitStep, RevalidateStep, WriteStep, ToolStep, ServiceRefusedStep
       DEF Progress
  <1>3. CASE Tick
    BY <1>3, TickStep
  <1>4. CASE AccountChanges
    BY <1>4, AccountStep
  <1>5. CASE Rotate
    BY <1>5, RotateStep
  <1>6. CASE UNCHANGED vars
    <2>1. UNCHANGED <<now, calls, account, denied, loggedOut, request>>
      BY <1>6 DEF vars, world, redis
    <2> QED BY <2>1 DEF IInv, DenyList, Good, Call, ServedWell, Served
  <1> QED BY <1>1, <1>2, <1>3, <1>4, <1>5, <1>6 DEF Next

\* Whatever fails and however requests meet: after the answer to a logout its
\* token is not accepted before it expires, unless the deny list could not be
\* read (revoke_token computes the time to live from a clock read before).
THEOREM LogoutIsFinal == Spec => RevokedIsRefused
  <1>1. IInv /\ [Next]_vars => IInv' /\ [\A r \in Requests :
          Served(r) /\ request[r].after => request[r].fault = "blind" \/ now >= Expiry]_vars
    BY NextServesWell DEF ServedWell, Allowed
  <1> QED BY <1>1, InitIInv, PTL DEF Spec, RevokedIsRefused

\* No write, replay or tool call is served that the account did not allow at
\* some moment while it was being served (require_operational_roles,
\* initialize_pg_context).
THEOREM OperationsAreAllowed == Spec => OperationsAreCurrent
  <1>1. IInv /\ [Next]_vars => IInv' /\ [\A r \in Requests :
          Served(r) /\ request[r].route \in {"write", "mcp", "a2a"} =>
              \E a \in request[r].held : Matches(a, request[r].who)]_vars
    BY NextServesWell DEF ServedWell, Allowed
  <1> QED BY <1>1, InitIInv, PTL DEF Spec, OperationsAreCurrent
-----------------------------------------------------------------------------
(* Types, certificates and budgets *)

Stages == {"idle", "lock", "fetch", "revocation", "resolve", "route", "revoke", "limit", "revalidate",
           "write", "tool"}

Budgets == {"analysis", "mcp", "a2a"}

\* The answer that is being fetched holds key 1 only if Google published it after
\* the clock was read.
Fetching(q) ==
    /\ now <= q.at + FetchTimeout /\ q.from \in 1 .. rotation
    /\ \A i \in q.from .. rotation : 1 \in Rotation[i] => withdrawn >= q.at

\* The times on a request are of its past.
Dated(q) == q.at \in Nat /\ q.at <= now /\ q.used \in Nat /\ q.used <= now + 1

Sound(q) ==
    /\ q.pc \in Statuses \cup Stages
    /\ q.who \in Accounts \cup {Customer} /\ q.held \subseteq Accounts
    /\ q.fault \in {"none", "blind", "broken"}
    /\ Dated(q)
    /\ q.used > 0 => q.pc \in Statuses \cup {"tool"}
    /\ q.token = "service" => q.route \in {"mcp", "a2a"}
    /\ q.pc = "fetch" => Fetching(q)

Published ==
    /\ now <= Horizon /\ account \in Accounts
    /\ rotation \in 1 .. Len(Rotation) /\ withdrawn \in 0 .. Horizon + 1
    /\ 1 \in Rotation[rotation] => withdrawn = Horizon + 1

\* Key 1 is in the cache only if it was still published when the cache was dated.
Cached ==
    /\ certs.keys \subseteq {1, 2} /\ certs.fetched \in 0 .. now
    /\ certs.expires \in certs.fetched .. certs.fetched + MaxAge
    /\ 1 \in certs.keys => withdrawn >= certs.fetched

\* The lock is held by the one request that fetches.
Locked ==
    /\ holder \in Requests \cup {Nobody}
    /\ \A r \in Requests : request[r].pc = "fetch" <=> holder = r

Banned == \A t \in Bearers : denied[t] \in 0 .. Horizon + Expiry

\* The requests of a window of time that were admitted within it.
Admissions(b, x) ==
    {r \in Requests : /\ request[r].route = b /\ request[r].used > 0
                      /\ request[r].at >= x /\ request[r].used - 1 < x + Window}

\* Those of a window that is not over are all on record, and are within the limit.
Recorded ==
    /\ DOMAIN window = Budgets
    /\ \A b \in Budgets : IsFiniteSet(window[b]) /\ window[b] \subseteq (0 .. now) \X Requests
    /\ \A b \in Budgets, x \in Nat :
         /\ now < x + Window => \A r \in Admissions(b, x) : <<request[r].at, r>> \in window[b]
         /\ Cardinality(Admissions(b, x)) <= Limit

SoundInv ==
    /\ IInv /\ Published /\ Cached /\ Locked /\ Banned /\ Recorded
    /\ \A r \in Requests : Sound(request[r])

\* What must hold of a key whose signature is accepted.
Valid(q) == q.token \in Firebase /\ KeyOf(q.token) = 1 => now < withdrawn + MaxAge

KeysAreValid == \A r \in Requests :
    request[r].pc # "revocation" /\ request'[r].pc = "revocation" => Valid(request'[r])

\* u is t but for the fields in changed.
Alike(u, t, changed) == Record(u) /\ \A f \in Fields \ changed : u[f] = t[f]

\* u is admitted to a budget exactly if t is.
SameUse(u, t) == u.used = t.used /\ (t.used > 0 => u.route = t.route /\ u.at = t.at)

LEMMA ConstantTypes ==
    /\ Horizon \in Nat /\ Expiry \in Nat /\ MaxAge \in Nat \ {0} /\ FetchTimeout \in 0 .. MaxAge - 1
    /\ MaxAges \subseteq 0 .. MaxAge /\ Window \in Nat \ {0} /\ Limit \in Nat \ {0}
    /\ RefetchAfter \in Nat /\ Nobody \notin Requests /\ Gone \in Accounts /\ Claims \in Accounts
    /\ Configured \in Accounts /\ Rotation \in Seq(SUBSET {1, 2}) /\ Len(Rotation) \in Nat \ {0}
  BY AccessAssumption

LEMMA UnbornSound == ASSUME now \in Nat PROVE Sound(Unborn) /\ Unborn.used = 0 /\ Unborn.pc = "idle"
  BY ConstantTypes DEF Unborn, Sound, Dated, Stages, Statuses

LEMMA RepliedSound ==
  ASSUME now \in Nat, NEW q, Dated(q), NEW status \in Statuses
  PROVE  /\ Record(Replied(q, status)) /\ Sound(Replied(q, status))
         /\ SameUse(Replied(q, status), q) /\ Replied(q, status).pc = status
  <1> DEFINE a == [Unborn EXCEPT !.pc = status, !.route = q.route, !.at = q.at, !.used = q.used]
             b == [Unborn EXCEPT !.pc = status]
  <1>1. status \notin Stages
    BY DEF Statuses, Stages
  <1>2. /\ Alike(a, Unborn, {"pc", "route", "at", "used"})
        /\ a.pc = status /\ a.route = q.route /\ a.at = q.at /\ a.used = q.used
    BY UnbornRecord DEF Alike, Record
  <1>3. Alike(b, Unborn, {"pc"}) /\ b.pc = status
    BY UnbornRecord DEF Alike, Record
  <1>4. Replied(q, status) = IF q.used > 0 THEN a ELSE b
    BY DEF Replied
  <1> HIDE DEF a, b
  <1>5. /\ a.who = Unborn.who /\ a.held = Unborn.held /\ a.fault = Unborn.fault /\ a.token = Unborn.token
        /\ b.who = Unborn.who /\ b.held = Unborn.held /\ b.fault = Unborn.fault /\ b.token = Unborn.token
        /\ b.at = Unborn.at /\ b.used = Unborn.used
    BY <1>2, <1>3 DEF Alike
  <1>6. Unborn.token # "service"
    BY DEF Unborn
  <1>7. Sound(a)
    BY <1>1, <1>2, <1>5, <1>6, UnbornSound DEF Sound, Dated, Stages
  <1>8. Sound(b)
    BY <1>1, <1>3, <1>5, <1>6, UnbornSound DEF Sound, Dated, Stages
  <1>9. q.used > 0 \/ q.used = 0
    BY DEF Dated
  <1> QED BY <1>2, <1>3, <1>4, <1>5, <1>7, <1>8, <1>9, UnbornSound DEF Alike, SameUse

LEMMA BrokenSound ==
  ASSUME now \in Nat, NEW q, Dated(q), NEW status \in Statuses
  PROVE  /\ Record(Broken(q, status)) /\ Sound(Broken(q, status))
         /\ SameUse(Broken(q, status), q) /\ Broken(q, status).pc = status
  <1> DEFINE s == Replied(q, status)
             u == [s EXCEPT !.fault = "broken"]
  <1>1. Record(s) /\ Sound(s) /\ SameUse(s, q) /\ s.pc = status
    BY RepliedSound
  <1> HIDE DEF s
  <1>2. Alike(u, s, {"fault"}) /\ u.fault = "broken"
    BY <1>1 DEF Record, Alike
  <1>3. Broken(q, status) = u
    BY DEF Broken, s
  <1> HIDE DEF u
  <1>4. /\ u.pc = s.pc /\ u.who = s.who /\ u.held = s.held /\ u.at = s.at /\ u.used = s.used
        /\ u.token = s.token /\ u.route = s.route /\ u.from = s.from
    BY <1>2 DEF Alike
  <1>5. s.pc \notin Stages
    BY <1>1 DEF Stages, Statuses
  <1> QED BY <1>1, <1>2, <1>3, <1>4, <1>5 DEF Sound, Dated, SameUse, Alike, Stages

\* From one stage to the next, before an admission.
LEMMA MovedSound ==
  ASSUME NEW t, Sound(t), t.pc \in Stages \ {"tool"}, NEW u,
         Alike(u, t, {"pc", "who", "identified", "at", "from", "held", "fault"}),
         u.pc \in Stages \ {"fetch"}, u.who \in Accounts \cup {Customer}, u.held \subseteq Accounts,
         u.fault \in {"none", "blind", "broken"}, u.at \in Nat, u.at <= now
  PROVE  Sound(u) /\ SameUse(u, t)
  <1>1. u.used = t.used /\ u.token = t.token /\ u.route = t.route
    BY DEF Alike
  <1>2. t.used = 0
    BY DEF Sound, Dated, Stages, Statuses
  <1> QED BY <1>1, <1>2 DEF Sound, Dated, SameUse

LEMMA InitSound == Init => SoundInv
  <1> SUFFICES ASSUME Init PROVE SoundInv
    OBVIOUS
  <1>1. now = 0 /\ \A r \in Requests : request[r] = Unborn
    BY DEF Init
  <1>2. \A r \in Requests : Sound(request[r]) /\ request[r].used = 0 /\ request[r].pc = "idle"
    BY <1>1, UnbornSound
  <1>3. Published
    BY ConstantTypes DEF Init, Published
  <1>4. Cached
    BY ConstantTypes DEF Init, Cached
  <1>5. Locked
    BY <1>2, ConstantTypes DEF Init, Locked
  <1>6. Banned
    BY ConstantTypes DEF Init, Banned
  <1>7. Recorded
    <2>1. \A b, x : Admissions(b, x) = {}
      BY <1>2 DEF Admissions
    <2>2. IsFiniteSet({}) /\ Cardinality({}) = 0
      BY FS_EmptySet
    <2>3. DOMAIN window = Budgets /\ \A b \in Budgets : window[b] = {}
      BY DEF Init, Budgets
    <2>4. \A b \in Budgets : IsFiniteSet(window[b]) /\ window[b] \subseteq (0 .. now) \X Requests
      BY <2>2, <2>3
    <2>5. 0 <= Limit
      BY ConstantTypes
    <2>6. \A b, x : Cardinality(Admissions(b, x)) <= Limit
      BY <2>1, <2>2, <2>5
    <2>7. \A b, x : \A r \in Admissions(b, x) : FALSE
      BY <2>1
    <2> QED BY <2>3, <2>4, <2>6, <2>7 DEF Recorded
  <1> QED BY <1>2, <1>3, <1>4, <1>5, <1>6, <1>7, InitIInv DEF SoundInv

\* One request moves on.
LEMMA OneMoves ==
  ASSUME SoundInv, IInv', NEW r \in Requests, NEW q, Sound(q), Become(r, q),
         UNCHANGED <<now, account, rotation, withdrawn>>, Banned', Cached', Locked', Recorded',
         q.pc = "revocation" => Valid(q)
  PROVE  SoundInv' /\ KeysAreValid
  <1>1. \A o \in Requests : request'[o] = IF o = r THEN q ELSE request[o]
    BY DEF SoundInv, IInv, Become
  <1>2. \A o \in Requests : Sound(request'[o])
    BY <1>1 DEF SoundInv
  <1>3. \A o \in Requests : Sound(request[o])'
    BY <1>2 DEF Sound, Dated, Fetching
  <1>4. Published'
    BY DEF SoundInv, Published
  <1>5. KeysAreValid
    BY <1>1 DEF KeysAreValid
  <1> QED BY <1>3, <1>4, <1>5 DEF SoundInv

\* Nobody is admitted to a budget.
LEMMA SameRecord ==
  ASSUME Recorded, \A o \in Requests : SameUse(request'[o], request[o]), now' >= now,
         now \in Nat, now' \in Nat, window' = window
  PROVE  Recorded'
  <1>1. ASSUME NEW b, NEW x PROVE Admissions(b, x)' = Admissions(b, x)
    <2>1. \A o \in Requests : o \in Admissions(b, x)' <=> o \in Admissions(b, x)
      BY DEF Admissions, SameUse
    <2> QED BY <2>1 DEF Admissions
  <1>2. \A b, x : \A o \in Admissions(b, x) : request'[o].at = request[o].at
    BY DEF Admissions, SameUse
  <1>3. \A b \in Budgets : IsFiniteSet(window'[b]) /\ window'[b] \subseteq (0 .. now') \X Requests
    BY DEF Recorded
  <1>4. \A x \in Nat : now' < x + Window => now < x + Window
    BY ConstantTypes
  <1> QED BY <1>1, <1>2, <1>3, <1>4 DEF Recorded

\* One request moves on, and neither budgets nor, but for a logout, the deny list
\* are involved.
LEMMA OneSound ==
  ASSUME SoundInv, IInv', NEW r \in Requests, NEW q, Sound(q), SameUse(q, request[r]), Become(r, q),
         UNCHANGED <<now, account, rotation, withdrawn, window>>, denied' = denied \/ Banned',
         Cached', Locked', q.pc = "revocation" => Valid(q)
  PROVE  SoundInv' /\ KeysAreValid
  <1>1. \A o \in Requests : request'[o] = IF o = r THEN q ELSE request[o]
    BY DEF SoundInv, IInv, Become
  <1>2. \A o \in Requests : SameUse(request'[o], request[o])
    BY <1>1 DEF SameUse
  <1>3. now \in Nat /\ now' = now
    BY DEF SoundInv, IInv
  <1>4. Recorded'
    BY <1>2, <1>3, SameRecord DEF SoundInv
  <1>5. Banned'
    BY DEF SoundInv, Banned
  <1> QED BY <1>4, <1>5, OneMoves

\* The certificates are not involved.
LEMMA QuietStep ==
  ASSUME SoundInv, IInv', NEW r \in Requests, NEW q, Sound(q), SameUse(q, request[r]), Become(r, q),
         UNCHANGED <<now, account, rotation, withdrawn, window, google>>,
         denied' = denied \/ Banned', request[r].pc # "fetch", q.pc # "fetch", q.pc = "revocation" => Valid(q)
  PROVE  SoundInv' /\ KeysAreValid
  <1>1. \A o \in Requests : request'[o] = IF o = r THEN q ELSE request[o]
    BY DEF SoundInv, IInv, Become
  <1>2. Cached'
    BY DEF SoundInv, Cached, google
  <1>3. Locked'
    BY <1>1 DEF SoundInv, Locked, google
  <1> QED BY <1>2, <1>3, OneSound

LEMMA EndedStep ==
  ASSUME SoundInv, IInv', NEW r \in Requests, NEW status \in Statuses,
         Become(r, Replied(request[r], status)) \/ Become(r, Broken(request[r], status)),
         UNCHANGED <<now, account, rotation, withdrawn, window, google>>,
         denied' = denied \/ Banned', request[r].pc # "fetch"
  PROVE  SoundInv' /\ KeysAreValid
  <1>1. now \in Nat /\ Dated(request[r])
    BY DEF SoundInv, IInv, Sound
  <1>2. status \notin {"fetch", "revocation"}
    BY DEF Statuses
  <1>3. CASE Become(r, Replied(request[r], status))
    <2> DEFINE q == Replied(request[r], status)
    <2>1. Sound(q) /\ SameUse(q, request[r]) /\ q.pc = status
      BY <1>1, RepliedSound
    <2> HIDE DEF q
    <2>2. Become(r, q)
      BY <1>3 DEF q
    <2> QED BY <1>2, <2>1, <2>2, QuietStep
  <1>4. CASE Become(r, Broken(request[r], status))
    <2> DEFINE q == Broken(request[r], status)
    <2>1. Sound(q) /\ SameUse(q, request[r]) /\ q.pc = status
      BY <1>1, BrokenSound
    <2> HIDE DEF q
    <2>2. Become(r, q)
      BY <1>4 DEF q
    <2> QED BY <1>2, <2>1, <2>2, QuietStep
  <1> QED BY <1>3, <1>4

\* The key was published when the cache was dated, at most MaxAge ago.
LEMMA FreshIsValid ==
  ASSUME SoundInv, NEW kid \in certs.keys, now < certs.expires, kid = 1
  PROVE  now < withdrawn + MaxAge
  BY ConstantTypes DEF SoundInv, IInv, Cached, Published

LEMMA DecodedSound ==
  ASSUME SoundInv, NEW q, Record(q), Sound(q), q.pc \in Stages \ {"tool"}, NEW keys,
         1 \in keys => now < withdrawn + MaxAge
  PROVE  LET u == Decoded(q, keys)
         IN  Sound(u) /\ SameUse(u, q) /\ u.pc # "fetch" /\ (u.pc = "revocation" => Valid(u))
  <1> DEFINE s == [q EXCEPT !.pc = "revocation", !.at = 0, !.from = 1]
             a == Replied(q, "401")
  <1>1. now \in Nat
    BY DEF SoundInv, IInv
  <1>2. Alike(s, q, {"pc", "at", "from"}) /\ s.pc = "revocation" /\ s.at = 0
    BY DEF Record, Alike
  <1>3. Sound(a) /\ SameUse(a, q) /\ a.pc = "401"
    BY <1>1, RepliedSound DEF Sound, Statuses
  <1>4. Decoded(q, keys) = IF KeyOf(q.token) \in keys /\ now < Expiry THEN s ELSE a
    BY DEF Decoded
  <1> HIDE DEF s, a
  <1>5. s.who = q.who /\ s.held = q.held /\ s.fault = q.fault /\ s.token = q.token
    BY <1>2 DEF Alike
  <1>6. Alike(s, q, {"pc", "who", "identified", "at", "from", "held", "fault"})
    BY <1>2 DEF Alike
  <1>7. Sound(s) /\ SameUse(s, q)
    BY <1>1, <1>2, <1>5, <1>6, MovedSound DEF Sound, Stages
  <1>8. KeyOf(q.token) \in keys => Valid(s)
    BY <1>5 DEF Valid
  <1> QED BY <1>2, <1>3, <1>4, <1>7, <1>8

\* A signing key from the cache, or the lock.
LEMMA SigningKeySound ==
  ASSUME SoundInv, NEW q, Record(q), Sound(q), q.pc \in Stages \ {"tool"}
  PROVE  LET u == SigningKey(q)
         IN  Sound(u) /\ SameUse(u, q) /\ u.pc # "fetch" /\ (u.pc = "revocation" => Valid(u))
  <1> DEFINE s == [q EXCEPT !.pc = "lock"]
  <1>1. CASE Fresh(KeyOf(q.token))
    <2>1. now < certs.expires
      BY <1>1 DEF Fresh
    <2>2. 1 \in certs.keys => now < withdrawn + MaxAge
      BY <2>1, FreshIsValid
    <2>3. SigningKey(q) = Decoded(q, certs.keys)
      BY <1>1 DEF SigningKey
    <2> QED BY <2>2, <2>3, DecodedSound
  <1>2. CASE ~Fresh(KeyOf(q.token))
    <2>1. SigningKey(q) = s
      BY <1>2 DEF SigningKey
    <2>2. Alike(s, q, {"pc"}) /\ s.pc = "lock"
      BY DEF Record, Alike
    <2> HIDE DEF s
    <2>3. s.who = q.who /\ s.held = q.held /\ s.fault = q.fault /\ s.at = q.at
      BY <2>2 DEF Alike
    <2>4. Alike(s, q, {"pc", "who", "identified", "at", "from", "held", "fault"})
      BY <2>2 DEF Alike
    <2>5. Sound(s) /\ SameUse(s, q)
      BY <2>2, <2>3, <2>4, MovedSound DEF Sound, Dated, Stages
    <2> QED BY <2>1, <2>2, <2>5
  <1> QED BY <1>1, <1>2

LEMMA ArriveSound ==
  ASSUME SoundInv, IInv', NEW r \in Requests, Arrive(r) PROVE SoundInv' /\ KeysAreValid
  <1>1. PICK call \in calls : Become(r, Arrived(
           [Unborn EXCEPT !.token = call[1], !.route = call[2], !.after = (call[1] \in loggedOut)]))
    BY DEF Arrive
  <1> DEFINE q == [Unborn EXCEPT !.token = call[1], !.route = call[2],
                                 !.after = (call[1] \in loggedOut)]
             limit == [q EXCEPT !.pc = "limit", !.at = now]
             checked == [q EXCEPT !.pc = "revocation"]
             legacy == [q EXCEPT !.pc = "route", !.who = Claims, !.identified = TRUE]
             refused == Replied(q, "401")
             Fine(u) == Sound(u) /\ SameUse(u, q) /\ u.pc # "fetch" /\ (u.pc = "revocation" => Valid(u))
  <1>2. /\ now \in Nat /\ request[r].pc = "idle" /\ Sound(request[r])
        /\ UNCHANGED <<now, account, rotation, withdrawn, denied, window, google>>
    BY DEF SoundInv, IInv, Arrive, world, redis
  <1>3. Sound(Unborn) /\ Unborn.used = 0 /\ Unborn.pc = "idle"
    BY <1>2, UnbornSound
  <1>4. Alike(q, Unborn, {"token", "route", "after"}) /\ q.token = call[1] /\ q.route = call[2]
    BY UnbornRecord DEF Record, Alike
  <1>5. q.token = "service" => q.route \in {"mcp", "a2a"}
    BY <1>4, AccessAssumption DEF SoundInv, IInv, Bearers
  <1> HIDE DEF q
  <1>6. /\ q.pc = "idle" /\ q.used = 0 /\ q.at = Unborn.at /\ q.who = Unborn.who
        /\ q.held = Unborn.held /\ q.fault = Unborn.fault /\ Record(q)
    BY <1>3, <1>4 DEF Alike
  <1>7. Sound(q)
    BY <1>3, <1>5, <1>6 DEF Sound, Dated
  <1>8. /\ Alike(limit, q, {"pc", "at"}) /\ limit.pc = "limit" /\ limit.at = now
        /\ Alike(checked, q, {"pc"}) /\ checked.pc = "revocation"
        /\ Alike(legacy, q, {"pc", "who", "identified"}) /\ legacy.pc = "route" /\ legacy.who = Claims
    BY <1>6 DEF Record, Alike
  <1>9. Sound(refused) /\ SameUse(refused, q) /\ refused.pc = "401"
    BY <1>2, <1>7, RepliedSound DEF Sound, Statuses
  <1>10. \/ Arrived(q) = limit \/ Arrived(q) = refused \/ Arrived(q) = legacy
         \/ q.token = "local" /\ Arrived(q) = checked
         \/ Arrived(q) = SigningKey(q)
    BY DEF Arrived
  <1> HIDE DEF limit, checked, legacy, refused
  <1>11. Fine(limit)
    <2>1. Alike(limit, q, {"pc", "who", "identified", "at", "from", "held", "fault"})
      BY <1>8 DEF Alike
    <2>2. limit.who = q.who /\ limit.held = q.held /\ limit.fault = q.fault
      BY <1>8 DEF Alike
    <2> QED BY <1>2, <1>6, <1>7, <1>8, <2>1, <2>2, MovedSound DEF Sound, Stages
  <1>12. q.token = "local" => Fine(checked)
    <2>1. Alike(checked, q, {"pc", "who", "identified", "at", "from", "held", "fault"})
      BY <1>8 DEF Alike
    <2>2. /\ checked.who = q.who /\ checked.held = q.held /\ checked.fault = q.fault
          /\ checked.at = q.at /\ checked.token = q.token
      BY <1>8 DEF Alike
    <2>3. Sound(checked) /\ SameUse(checked, q)
      BY <1>6, <1>7, <1>8, <2>1, <2>2, MovedSound DEF Sound, Dated, Stages
    <2> QED BY <1>8, <2>2, <2>3 DEF Valid, Firebase
  <1>13. Fine(legacy)
    <2>1. Alike(legacy, q, {"pc", "who", "identified", "at", "from", "held", "fault"})
      BY <1>8 DEF Alike
    <2>2. legacy.held = q.held /\ legacy.fault = q.fault /\ legacy.at = q.at
      BY <1>8 DEF Alike
    <2>3. Sound(legacy) /\ SameUse(legacy, q)
      BY <1>6, <1>7, <1>8, <2>1, <2>2, ConstantTypes, MovedSound DEF Sound, Dated, Stages
    <2> QED BY <1>8, <2>3
  <1>14. Fine(SigningKey(q))
    BY <1>6, <1>7, SigningKeySound DEF Stages
  <1>15. Fine(Arrived(q))
    BY <1>9, <1>10, <1>11, <1>12, <1>13, <1>14
  <1>16. SameUse(Arrived(q), request[r])
    BY <1>2, <1>6, <1>15 DEF SameUse, Sound, Dated, Statuses
  <1>17. Become(r, Arrived(q))
    BY <1>1 DEF q
  <1> HIDE DEF Fine
  <1>18. Sound(Arrived(q)) /\ Arrived(q).pc # "fetch"
         /\ (Arrived(q).pc = "revocation" => Valid(Arrived(q)))
    BY <1>15 DEF Fine
  <1> QED BY <1>2, <1>16, <1>17, <1>18, QuietStep

\* The clock is read before the request to Google, and what Google publishes then
\* has not been withdrawn.
LEMMA TakeLockSound ==
  ASSUME SoundInv, IInv', NEW r \in Requests, TakeLock(r) PROVE SoundInv' /\ KeysAreValid
  <1> DEFINE s == [request[r] EXCEPT !.pc = "fetch", !.at = now, !.from = rotation]
  <1>1. /\ now \in Nat /\ request[r].pc = "lock" /\ Sound(request[r]) /\ Record(request[r])
        /\ UNCHANGED <<now, account, rotation, withdrawn, denied, window, certs>>
    BY DEF SoundInv, IInv, TakeLock, world, redis
  <1>2. CASE Fresh(KeyOf(request[r].token))
    <2> DEFINE u == Decoded(request[r], certs.keys)
    <2>1. 1 \in certs.keys => now < withdrawn + MaxAge
      BY <1>2, FreshIsValid DEF Fresh
    <2>2. Sound(u) /\ SameUse(u, request[r]) /\ u.pc # "fetch" /\ (u.pc = "revocation" => Valid(u))
      BY <1>1, <2>1, DecodedSound DEF Stages
    <2>3. Become(r, u) /\ UNCHANGED google
      BY <1>1, <1>2 DEF TakeLock, google
    <2> HIDE DEF u
    <2> QED BY <1>1, <2>2, <2>3, QuietStep
  <1>3. CASE ~Fresh(KeyOf(request[r].token))
    <2>1. /\ Alike(s, request[r], {"pc", "at", "from"}) /\ s.pc = "fetch" /\ s.at = now
          /\ s.from = rotation
      BY <1>1 DEF Record, Alike
    <2>2. Become(r, s) /\ holder = Nobody /\ holder' = r
      BY <1>3 DEF TakeLock
    <2> HIDE DEF s
    <2>3. /\ s.who = request[r].who /\ s.held = request[r].held /\ s.fault = request[r].fault
          /\ s.token = request[r].token /\ s.route = request[r].route /\ s.used = request[r].used
      BY <2>1 DEF Alike
    <2>4. s.used = 0
      BY <1>1, <2>3 DEF Sound, Dated, Statuses
    <2>5. Fetching(s)
      BY <1>1, <2>1, ConstantTypes DEF SoundInv, Published, Fetching
    <2>6. Sound(s) /\ SameUse(s, request[r])
      BY <1>1, <2>1, <2>3, <2>4, <2>5 DEF Sound, Dated, SameUse, Stages
    <2>7. \A o \in Requests : request'[o] = IF o = r THEN s ELSE request[o]
      BY <2>2 DEF SoundInv, IInv, Become
    <2>8. Locked'
      BY <2>1, <2>2, <2>7, ConstantTypes DEF SoundInv, Locked
    <2>9. Cached'
      BY <1>1 DEF SoundInv, Cached
    <2> QED BY <1>1, <2>1, <2>2, <2>6, <2>8, <2>9, OneSound
  <1> QED BY <1>2, <1>3

\* Whoever fetches holds the lock, and frees it.
LEMMA Unlocking ==
  ASSUME SoundInv, NEW r \in Requests, request[r].pc = "fetch", NEW q, q.pc # "fetch",
         Become(r, q), holder' = Nobody
  PROVE  Locked'
  <1>1. \A o \in Requests : request'[o] = IF o = r THEN q ELSE request[o]
    BY DEF SoundInv, IInv, Become
  <1>2. holder = r
    BY DEF SoundInv, Locked
  <1> QED BY <1>1, <1>2, ConstantTypes DEF SoundInv, Locked

LEMMA FetchReturnsSound ==
  ASSUME SoundInv, IInv', NEW r \in Requests, FetchReturns(r) PROVE SoundInv' /\ KeysAreValid
  <1>1. /\ now \in Nat /\ request[r].pc = "fetch" /\ Sound(request[r]) /\ Record(request[r])
        /\ holder' = Nobody /\ UNCHANGED <<now, account, rotation, withdrawn, denied, window>>
    BY DEF SoundInv, IInv, FetchReturns, world, redis
  <1>2. PICK i \in request[r].from .. rotation, age \in MaxAges :
          /\ certs' = [keys |-> Rotation[i], fetched |-> request[r].at,
                       expires |-> request[r].at + age]
          /\ Become(r, Decoded(request[r], Rotation[i]))
    BY DEF FetchReturns
  <1> DEFINE u == Decoded(request[r], Rotation[i])
  <1>3. /\ request[r].from \in 1 .. rotation /\ now <= request[r].at + FetchTimeout
        /\ 1 \in Rotation[i] => withdrawn >= request[r].at
        /\ request[r].at \in 0 .. now
    BY <1>1 DEF Sound, Fetching, Dated
  <1>4. rotation \in 1 .. Len(Rotation) /\ withdrawn \in 0 .. Horizon + 1
    BY DEF SoundInv, Published
  <1>5. Rotation[i] \subseteq {1, 2}
    BY <1>3, <1>4, ConstantTypes
  <1>6. 1 \in Rotation[i] => now < withdrawn + MaxAge
    BY <1>1, <1>3, <1>4, ConstantTypes
  <1>7. Sound(u) /\ SameUse(u, request[r]) /\ u.pc # "fetch" /\ (u.pc = "revocation" => Valid(u))
    BY <1>1, <1>6, DecodedSound DEF Stages
  <1>8. Become(r, u)
    BY <1>2
  <1> HIDE DEF u
  <1>9. Locked'
    BY <1>1, <1>7, <1>8, Unlocking
  <1>10. Cached'
    BY <1>1, <1>2, <1>3, <1>5, ConstantTypes DEF Cached
  <1> QED BY <1>1, <1>7, <1>8, <1>9, <1>10, OneSound

LEMMA FetchFailsSound ==
  ASSUME SoundInv, IInv', NEW r \in Requests, FetchFails(r) PROVE SoundInv' /\ KeysAreValid
  <1> DEFINE u == Broken(request[r], "503")
  <1>1. /\ now \in Nat /\ request[r].pc = "fetch" /\ Dated(request[r]) /\ Become(r, u)
        /\ holder' = Nobody /\ UNCHANGED <<now, account, rotation, withdrawn, denied, window, certs>>
    BY DEF SoundInv, IInv, FetchFails, world, redis, Sound
  <1>2. Sound(u) /\ SameUse(u, request[r]) /\ u.pc = "503"
    BY <1>1, BrokenSound DEF Statuses
  <1> HIDE DEF u
  <1>3. Locked'
    BY <1>1, <1>2, Unlocking
  <1>4. Cached'
    BY <1>1 DEF SoundInv, Cached
  <1> QED BY <1>1, <1>2, <1>3, <1>4, OneSound

LEMMA IsRevokedSound ==
  ASSUME SoundInv, IInv', NEW r \in Requests, IsRevoked(r) PROVE SoundInv' /\ KeysAreValid
  <1> DEFINE s == [request[r] EXCEPT !.pc = "resolve"]
             b == [s EXCEPT !.fault = "blind"]
  <1>1. /\ Record(request[r]) /\ Sound(request[r]) /\ request[r].pc = "revocation"
        /\ UNCHANGED <<now, account, rotation, withdrawn, denied, window, google>>
    BY DEF SoundInv, IInv, IsRevoked, world, redis
  <1>2. Alike(s, request[r], {"pc"}) /\ s.pc = "resolve"
    BY <1>1 DEF Record, Alike
  <1>3. \/ Become(r, Replied(request[r], "401")) \/ Become(r, s) \/ Become(r, b)
    BY DEF IsRevoked
  <1> HIDE DEF s
  <1>4. Alike(b, s, {"fault"}) /\ b.fault = "blind"
    BY <1>2 DEF Record, Alike
  <1> HIDE DEF b
  <1>5. ASSUME NEW u \in {s, b} PROVE Sound(u) /\ SameUse(u, request[r]) /\ u.pc = "resolve"
    <2>1. /\ Alike(u, request[r], {"pc", "who", "identified", "at", "from", "held", "fault"})
          /\ u.pc = "resolve" /\ u.who = request[r].who /\ u.held = request[r].held
          /\ u.at = request[r].at /\ u.fault \in {request[r].fault, "blind"}
      BY <1>2, <1>4 DEF Alike
    <2> QED BY <1>1, <2>1, MovedSound DEF Sound, Dated, Stages
  <1> QED BY <1>1, <1>3, <1>5, QuietStep, EndedStep DEF Statuses

LEMMA ResolveSound ==
  ASSUME SoundInv, IInv', NEW r \in Requests, Resolve(r) PROVE SoundInv' /\ KeysAreValid
  <1>1. /\ Record(request[r]) /\ Sound(request[r]) /\ request[r].pc = "resolve"
        /\ UNCHANGED <<now, account, rotation, withdrawn, denied, window, google>>
    BY DEF SoundInv, IInv, Resolve, world, redis
  <1>2. \/ Become(r, Broken(request[r], "500"))
        \/ Become(r, Replied(request[r], "401")) \/ Become(r, Replied(request[r], "403"))
        \/ \E w \in {Customer, account} :
             \/ Become(r, [request[r] EXCEPT !.pc = "route", !.who = w])
             \/ Become(r, [request[r] EXCEPT !.pc = "route", !.who = w, !.identified = TRUE])
    BY DEF Resolve
  <1>3. ASSUME NEW w \in {Customer, account}, NEW u,
               \/ u = [request[r] EXCEPT !.pc = "route", !.who = w]
               \/ u = [request[r] EXCEPT !.pc = "route", !.who = w, !.identified = TRUE],
               Become(r, u)
        PROVE  SoundInv' /\ KeysAreValid
    <2>1. /\ Alike(u, request[r], {"pc", "who", "identified"}) /\ u.pc = "route" /\ u.who = w
      BY <1>1, <1>3 DEF Record, Alike
    <2>2. /\ Alike(u, request[r], {"pc", "who", "identified", "at", "from", "held", "fault"})
          /\ u.held = request[r].held /\ u.at = request[r].at /\ u.fault = request[r].fault
      BY <2>1 DEF Alike
    <2>3. w \in Accounts \cup {Customer}
      BY DEF SoundInv, Published
    <2>4. Sound(u) /\ SameUse(u, request[r])
      BY <1>1, <2>1, <2>2, <2>3, MovedSound DEF Sound, Dated, Stages
    <2> QED BY <1>1, <1>3, <2>1, <2>4, QuietStep
  <1>4. {"401", "403", "500"} \subseteq Statuses
    BY DEF Statuses
  <1>5. CASE \E w \in {Customer, account} :
               \/ Become(r, [request[r] EXCEPT !.pc = "route", !.who = w])
               \/ Become(r, [request[r] EXCEPT !.pc = "route", !.who = w, !.identified = TRUE])
    BY <1>3, <1>5
  <1> QED BY <1>1, <1>2, <1>4, <1>5, EndedStep

LEMMA EnterSound ==
  ASSUME SoundInv, IInv', NEW r \in Requests, Enter(r) PROVE SoundInv' /\ KeysAreValid
  <1> DEFINE a == [request[r] EXCEPT !.pc = "revoke", !.at = now]
             b == [request[r] EXCEPT !.pc = "revalidate", !.held = {account}]
             c == [request[r] EXCEPT !.pc = "limit", !.at = now]
  <1>1. /\ now \in Nat /\ Record(request[r]) /\ Sound(request[r]) /\ request[r].pc = "route"
        /\ account \in Accounts
        /\ UNCHANGED <<now, account, rotation, withdrawn, denied, window, google>>
    BY DEF SoundInv, IInv, Published, Enter, world, redis
  <1>2. /\ Alike(a, request[r], {"pc", "at"}) /\ a.pc = "revoke" /\ a.at = now
        /\ Alike(b, request[r], {"pc", "held"}) /\ b.pc = "revalidate" /\ b.held = {account}
        /\ Alike(c, request[r], {"pc", "at"}) /\ c.pc = "limit" /\ c.at = now
    BY <1>1 DEF Record, Alike
  <1>3. \/ Become(r, LogoutRoute(request[r])) \/ Become(r, Replied(request[r], "403"))
        \/ Become(r, b) \/ Become(r, c)
    BY DEF Enter
  <1> HIDE DEF b, c
  <1>4. \/ LogoutRoute(request[r]) = Replied(request[r], "400")
        \/ LogoutRoute(request[r]) = Replied(request[r], "200")
        \/ LogoutRoute(request[r]) = a
    BY DEF LogoutRoute
  <1> HIDE DEF a
  <1>5. ASSUME NEW u \in {a, b, c} PROVE Sound(u) /\ SameUse(u, request[r])
    <2>1. /\ Alike(u, request[r], {"pc", "who", "identified", "at", "from", "held", "fault"})
          /\ u.pc \in {"revoke", "revalidate", "limit"} /\ u.who = request[r].who
          /\ u.held \in {request[r].held, {account}}
          /\ u.at \in {request[r].at, now} /\ u.fault = request[r].fault
      BY <1>2 DEF Alike
    <2> QED BY <1>1, <2>1, MovedSound DEF Sound, Dated, Stages
  <1>6. \A u \in {a, b, c} : u.pc # "fetch" /\ u.pc # "revocation"
    BY <1>2
  <1>7. {"200", "400", "403"} \subseteq Statuses
    BY DEF Statuses
  <1>8. \A u \in {a, b, c} : Become(r, u) => SoundInv' /\ KeysAreValid
    BY <1>1, <1>5, <1>6, QuietStep
  <1> QED BY <1>1, <1>3, <1>4, <1>7, <1>8, EndedStep

LEMMA RevokeSound ==
  ASSUME SoundInv, IInv', NEW r \in Requests, Revoke(r) PROVE SoundInv' /\ KeysAreValid
  <1> PICK token, until : token = request[r].token /\ until = now + Ttl(request[r].at)
    OBVIOUS
  <1>1. /\ Sound(request[r]) /\ Good(request[r]) /\ request[r].pc = "revoke" /\ now \in 0 .. Horizon
        /\ UNCHANGED <<now, account, rotation, withdrawn, window, google>>
    BY DEF SoundInv, IInv, Published, Revoke, world
  <1>2. until \in 0 .. Horizon + Expiry
    <2>1. request[r].at \in Nat /\ request[r].at <= now
      BY <1>1 DEF Sound, Dated
    <2>2. until \in Int /\ until >= Expiry
      BY <1>1, <2>1, TtlReaches
    <2>3. \A t \in Nat : Ttl(t) \in Int /\ Ttl(t) <= Expiry
      BY ConstantTypes DEF Ttl
    <2> DEFINE k == Ttl(request[r].at)
    <2>4. k \in Int /\ k <= Expiry /\ until = now + k
      BY <2>1, <2>3
    <2>5. now \in 0 .. Horizon /\ Horizon \in Nat /\ Expiry \in Nat
      BY <1>1, ConstantTypes
    <2> HIDE DEF k
    <2> QED BY <2>2, <2>4, <2>5
  <1>3. Banned'
    BY <1>2 DEF SoundInv, IInv, DenyList, Banned, Revoke
  <1>4. Become(r, Replied(request[r], "200")) \/ Become(r, Broken(request[r], "503"))
    BY DEF Revoke
  <1>5. "200" \in Statuses /\ "503" \in Statuses
    BY DEF Statuses
  <1> QED BY <1>1, <1>3, <1>4, <1>5, EndedStep

LEMMA RevalidateSound ==
  ASSUME SoundInv, IInv', NEW r \in Requests, Revalidate(r) PROVE SoundInv' /\ KeysAreValid
  <1> DEFINE s == [request[r] EXCEPT !.pc = "write", !.held = {account}]
  <1>1. /\ Record(request[r]) /\ Sound(request[r]) /\ request[r].pc = "revalidate"
        /\ account \in Accounts
        /\ UNCHANGED <<now, account, rotation, withdrawn, denied, window, google>>
    BY DEF SoundInv, IInv, Published, Revalidate, world, redis
  <1>2. Alike(s, request[r], {"pc", "held"}) /\ s.pc = "write" /\ s.held = {account}
    BY <1>1 DEF Record, Alike
  <1>3. \/ Become(r, s) \/ Become(r, Replied(request[r], "200"))
        \/ Become(r, Replied(request[r], "403")) \/ Become(r, Broken(request[r], "500"))
    BY DEF Revalidate
  <1> HIDE DEF s
  <1>4. /\ Alike(s, request[r], {"pc", "who", "identified", "at", "from", "held", "fault"})
        /\ s.who = request[r].who /\ s.at = request[r].at /\ s.fault = request[r].fault
    BY <1>2 DEF Alike
  <1>5. Sound(s) /\ SameUse(s, request[r])
    BY <1>1, <1>2, <1>4, MovedSound DEF Sound, Dated, Stages
  <1>6. {"200", "403", "500"} \subseteq Statuses
    BY DEF Statuses
  <1>7. CASE Become(r, s)
    BY <1>1, <1>2, <1>5, <1>7, QuietStep
  <1> QED BY <1>1, <1>3, <1>6, <1>7, EndedStep

LEMMA WriteSound ==
  ASSUME SoundInv, IInv', NEW r \in Requests, Write(r) \/ ServiceRefused(r)
  PROVE  SoundInv' /\ KeysAreValid
  <1>1. /\ request[r].pc # "fetch"
        /\ UNCHANGED <<now, account, rotation, withdrawn, denied, window, google>>
    BY DEF Write, ServiceRefused, world, redis
  <1>2. \E status \in Statuses :
          Become(r, Replied(request[r], status)) \/ Become(r, Broken(request[r], status))
    BY DEF Write, ServiceRefused, Statuses
  <1> QED BY <1>1, <1>2, EndedStep

LEMMA ToolSound ==
  ASSUME SoundInv, IInv', NEW r \in Requests, Tool(r) PROVE SoundInv' /\ KeysAreValid
  <1> DEFINE q == [request[r] EXCEPT !.identified = (request[r].who # Gone)]
  <1>1. /\ now \in Nat /\ Record(request[r]) /\ Dated(request[r]) /\ request[r].pc = "tool"
        /\ UNCHANGED <<now, account, rotation, withdrawn, denied, window, google>>
    BY DEF SoundInv, IInv, Sound, Tool, world, redis
  <1>2. q.at = request[r].at /\ q.used = request[r].used /\ q.route = request[r].route
    BY <1>1 DEF Record
  <1>3. \E status \in Statuses : Become(r, Replied(q, status)) \/ Become(r, Broken(q, status))
    BY DEF Tool, Statuses
  <1> HIDE DEF q
  <1>4. Dated(q)
    BY <1>1, <1>2 DEF Dated
  <1>5. ASSUME NEW status \in Statuses, NEW u \in {Replied(q, status), Broken(q, status)}, Become(r, u)
        PROVE  SoundInv' /\ KeysAreValid
    <2>1. Sound(u) /\ SameUse(u, q) /\ u.pc = status
      BY <1>1, <1>4, RepliedSound, BrokenSound
    <2>2. SameUse(u, request[r])
      BY <1>2, <2>1 DEF SameUse
    <2>3. status \notin {"fetch", "revocation"}
      BY DEF Statuses
    <2> QED BY <1>1, <1>5, <2>1, <2>2, <2>3, QuietStep
  <1> QED BY <1>3, <1>5


\* Whoever charges a budget evicts only what no window of now still counts, and
\* if it is admitted, all that such a window counts is on record.
LEMMA ChargeStep ==
  ASSUME SoundInv, IInv', NEW r \in Requests, request[r].pc = "limit", NEW u, Sound(u), Become(r, u),
         u.pc \notin {"fetch", "revocation"},
         UNCHANGED <<now, account, rotation, withdrawn, denied, google>>,
         NEW b0 \in Budgets, b0 = request[r].route, NEW charged, charged = Charged(request[r], r),
         window' \in {window, [window EXCEPT ![b0] = charged]},
         \/ u.used = 0
         \/ /\ u.used = now + 1 /\ u.route = b0 /\ u.at = request[r].at
            /\ window' = [window EXCEPT ![b0] = charged] /\ Cardinality(charged) <= Limit
  PROVE  SoundInv' /\ KeysAreValid
  <1> DEFINE at == request[r].at
             kept == {e \in window[b0] : e[1] > Cutoff(at)}
  <1>1. /\ now \in Nat /\ at \in Nat /\ at <= now /\ request[r].used = 0 /\ Recorded
        /\ DOMAIN request = Requests
    BY DEF SoundInv, IInv, Sound, Dated, Statuses
  <1>2. \A o \in Requests : request'[o] = IF o = r THEN u ELSE request[o]
    BY <1>1 DEF Become
  <1>3. charged = kept \cup {<<at, r>>}
    BY DEF Charged
  <1>4. IsFiniteSet(charged) /\ charged \subseteq (0 .. now) \X Requests
    <2>1. IsFiniteSet(window[b0]) /\ window[b0] \subseteq (0 .. now) \X Requests
      BY <1>1 DEF Recorded
    <2>2. kept \subseteq window[b0]
      OBVIOUS
    <2> HIDE DEF kept
    <2>3. IsFiniteSet(kept)
      BY <2>1, <2>2, FS_Subset
    <2>4. IsFiniteSet(kept \cup {<<at, r>>})
      BY <2>3, FS_AddElement
    <2>5. <<at, r>> \in (0 .. now) \X Requests
      BY <1>1
    <2> QED BY <1>3, <2>1, <2>2, <2>4, <2>5
  <1>5. /\ DOMAIN window' = Budgets
        /\ \A b \in Budgets : IsFiniteSet(window'[b]) /\ window'[b] \subseteq (0 .. now') \X Requests
        /\ \A b \in Budgets \ {b0} : window'[b] = window[b]
        /\ window'[b0] \in {window[b0], charged}
    BY <1>1, <1>4 DEF Recorded
  <1>6. ASSUME NEW b \in Budgets, NEW x \in Nat, now < x + Window, NEW o \in Admissions(b, x)
        PROVE  <<request[o].at, o>> \in window'[b] /\ (b = b0 => <<request[o].at, o>> \in charged)
    <2>1. <<request[o].at, o>> \in window[b]
      BY <1>1, <1>6 DEF Recorded
    <2>2. request[o].at \in Nat /\ request[o].at >= x
      BY DEF Admissions, SoundInv, Sound, Dated
    <2>3. request[o].at > Cutoff(at)
      BY <1>1, <1>6, <2>2, ConstantTypes DEF Cutoff
    <2>4. b = b0 => <<request[o].at, o>> \in charged
      BY <1>3, <2>1, <2>3
    <2> QED BY <1>5, <2>1, <2>4
  <1>7. ASSUME NEW b, NEW x PROVE r \notin Admissions(b, x)
    BY <1>1 DEF Admissions
  <1>8. ASSUME NEW b, NEW x, NEW o \in Requests \ {r}
        PROVE  o \in Admissions(b, x)' <=> o \in Admissions(b, x)
    BY <1>2 DEF Admissions
  <1>9. ASSUME NEW b \in Budgets, NEW x \in Nat
        PROVE  /\ now' < x + Window =>
                    \A o \in Admissions(b, x)' : <<request'[o].at, o>> \in window'[b]
               /\ Cardinality(Admissions(b, x)') <= Limit
    <2>1. CASE r \notin Admissions(b, x)'
      <3>1. Admissions(b, x)' = Admissions(b, x)
        <4>1. \A o \in Requests : o \in Admissions(b, x)' <=> o \in Admissions(b, x)
          BY <1>7, <1>8, <2>1
        <4> QED BY <4>1 DEF Admissions
      <3>2. \A o \in Admissions(b, x) : o # r /\ request'[o].at = request[o].at
        BY <1>2, <1>7 DEF Admissions
      <3>3. Cardinality(Admissions(b, x)) <= Limit
        BY <1>1 DEF Recorded
      <3> QED BY <1>6, <3>1, <3>2, <3>3
    <2>2. CASE r \in Admissions(b, x)'
      <3>1. u.used > 0 /\ u.route = b /\ u.at >= x /\ u.used - 1 < x + Window
        BY <1>2, <2>2 DEF Admissions
      <3>2. /\ b = b0 /\ u.at = at /\ u.used = now + 1 /\ now < x + Window
            /\ window'[b] = charged /\ Cardinality(charged) <= Limit
        BY <1>1, <3>1 DEF Recorded
      <3>3. \A o \in Admissions(b, x)' : <<request'[o].at, o>> \in charged
        <4> SUFFICES ASSUME NEW o \in Admissions(b, x)' PROVE <<request'[o].at, o>> \in charged
          OBVIOUS
        <4>1. CASE o = r
          BY <1>2, <1>3, <3>2, <4>1
        <4>2. CASE o # r
          <5>1. o \in Requests
            BY DEF Admissions
          <5>2. o \in Admissions(b, x) /\ request'[o] = request[o]
            BY <1>2, <1>8, <4>2, <5>1
          <5> QED BY <1>6, <3>2, <5>2
        <4> QED BY <4>1, <4>2
      <3> DEFINE S == Admissions(b, x)'
                 f == [o \in S |-> <<request'[o].at, o>>]
      <3>4. f \in Injection(S, charged)
        BY <3>3 DEF Injection, IsInjective
      <3> HIDE DEF S, f
      <3>5. Cardinality(S) <= Cardinality(charged) /\ IsFiniteSet(S)
        BY <1>4, <3>4, FS_Injection
      <3>6. Cardinality(S) \in Nat /\ Cardinality(charged) \in Nat
        BY <1>4, <3>5, FS_CardinalityType
      <3>7. Cardinality(S) <= Limit
        BY <3>2, <3>5, <3>6, ConstantTypes
      <3> QED BY <3>2, <3>3, <3>7 DEF S
    <2> QED BY <2>1, <2>2
  <1>10. Recorded'
    BY <1>5, <1>9 DEF Recorded
  <1>11. Cached' /\ Banned'
    BY DEF SoundInv, Cached, Banned, google
  <1>12. Locked'
    BY <1>2 DEF SoundInv, Locked, google
  <1> QED BY <1>10, <1>11, <1>12, OneMoves

LEMMA CheckRateLimitSound ==
  ASSUME SoundInv, IInv', NEW r \in Requests, CheckRateLimit(r) PROVE SoundInv' /\ KeysAreValid
  <1> DEFINE s == [request[r] EXCEPT !.pc = "tool", !.used = now + 1, !.who = Configured,
                                     !.held = {account}]
             v == [request[r] EXCEPT !.used = now + 1]
  <1> PICK b0, charged : b0 = request[r].route /\ charged = Charged(request[r], r)
    OBVIOUS
  <1>1. /\ now \in Nat /\ Record(request[r]) /\ Sound(request[r]) /\ Good(request[r])
        /\ request[r].pc = "limit" /\ account \in Accounts /\ DOMAIN window = Budgets
        /\ UNCHANGED <<now, account, rotation, withdrawn, denied, google>>
    BY DEF SoundInv, IInv, Published, Recorded, CheckRateLimit, world
  <1>2. b0 \in Budgets
    BY <1>1 DEF Good, Sound, Budgets
  <1>3. \/ /\ window' = [window EXCEPT ![b0] = charged] /\ Cardinality(charged) <= Limit
           /\ \E a \in Admitted(request[r]) : Become(r, a)
        \/ /\ window' \in {window, [window EXCEPT ![b0] = charged]}
           /\ Become(r, Replied(request[r], "429")) \/ Become(r, Broken(request[r], "503"))
    <2>1. [window EXCEPT ![b0] = charged][b0] = charged
      BY <1>1, <1>2
    <2> QED BY <2>1 DEF CheckRateLimit
  <1>4. \A a \in Admitted(request[r]) :
          a = s \/ a = Replied(v, "error") \/ a = Replied(v, "200")
    BY DEF Admitted
  <1>5. /\ Alike(s, request[r], {"pc", "used", "who", "held"}) /\ s.pc = "tool"
        /\ s.used = now + 1 /\ s.who = Configured /\ s.held = {account}
        /\ Alike(v, request[r], {"used"}) /\ v.used = now + 1
    BY <1>1 DEF Record, Alike
  <1> HIDE DEF s, v
  <1>6. /\ s.fault = request[r].fault /\ s.at = request[r].at /\ s.route = request[r].route
        /\ s.token = request[r].token /\ v.at = request[r].at /\ v.route = request[r].route
    BY <1>5 DEF Alike
  <1>7. Sound(s)
    BY <1>1, <1>5, <1>6, ConstantTypes DEF Sound, Dated, Stages
  <1>8. Dated(v)
    BY <1>1, <1>5, <1>6 DEF Sound, Dated
  <1>9. ASSUME NEW a \in Admitted(request[r])
        PROVE  /\ Sound(a) /\ a.pc \notin {"fetch", "revocation"}
               /\ a.used = now + 1 /\ a.route = b0 /\ a.at = request[r].at
    <2>1. CASE a = s
      BY <1>5, <1>6, <1>7, <2>1
    <2>2. ASSUME NEW status \in Statuses, a = Replied(v, status)
          PROVE  /\ Sound(a) /\ a.pc \notin {"fetch", "revocation"}
                 /\ a.used = now + 1 /\ a.route = b0 /\ a.at = request[r].at
      <3>1. Sound(a) /\ SameUse(a, v) /\ a.pc = status
        BY <1>1, <1>8, <2>2, RepliedSound
      <3>2. v.used > 0
        BY <1>1, <1>5
      <3> QED BY <1>5, <1>6, <3>1, <3>2 DEF SameUse, Statuses
    <2> QED BY <1>4, <2>1, <2>2 DEF Statuses
  <1>10. ASSUME NEW a \in Admitted(request[r]), Become(r, a),
                window' = [window EXCEPT ![b0] = charged], Cardinality(charged) <= Limit
         PROVE  SoundInv' /\ KeysAreValid
    BY <1>1, <1>2, <1>9, <1>10, ChargeStep
  <1>11. ASSUME NEW a \in {Replied(request[r], "429"), Broken(request[r], "503")}, Become(r, a),
                window' \in {window, [window EXCEPT ![b0] = charged]}
         PROVE  SoundInv' /\ KeysAreValid
    <2>1. Dated(request[r]) /\ request[r].used = 0
      BY <1>1 DEF Sound, Dated, Statuses
    <2>2. Sound(a) /\ SameUse(a, request[r]) /\ a.pc \notin {"fetch", "revocation"}
      BY <1>1, <2>1, RepliedSound, BrokenSound DEF Statuses
    <2> QED BY <1>1, <1>2, <1>11, <2>1, <2>2, ChargeStep DEF SameUse
  <1> QED BY <1>3, <1>10, <1>11

LEMMA TickSound == ASSUME SoundInv, IInv', Tick PROVE SoundInv' /\ KeysAreValid
  <1>1. /\ now \in Nat /\ now' = now + 1 /\ now < Horizon
        /\ UNCHANGED <<account, rotation, withdrawn, denied, window, certs, holder, request>>
    BY DEF SoundInv, IInv, Tick, redis, google
  <1>2. \A r \in Requests : request[r].pc = "fetch" => now < request[r].at + FetchTimeout
    BY DEF Tick, At
  <1>3. Published' /\ Cached' /\ Banned' /\ Locked'
    BY <1>1, ConstantTypes DEF SoundInv, Published, Cached, Banned, Locked
  <1>4. \A r \in Requests : Sound(request[r])'
    BY <1>1, <1>2, ConstantTypes DEF SoundInv, Sound, Dated, Fetching
  <1>5. Recorded'
    BY <1>1, SameRecord DEF SoundInv, SameUse
  <1>6. KeysAreValid
    BY <1>1 DEF KeysAreValid
  <1> QED BY <1>3, <1>4, <1>5, <1>6 DEF SoundInv

LEMMA AccountSound == ASSUME SoundInv, IInv', AccountChanges PROVE SoundInv' /\ KeysAreValid
  <1>1. /\ now \in Nat /\ account' \in Accounts
        /\ UNCHANGED <<now, rotation, withdrawn, denied, window, certs, holder>>
    BY DEF SoundInv, IInv, AccountChanges, redis, google
  <1>2. \A r \in Requests :
          /\ request'[r].pc = request[r].pc /\ request'[r].token = request[r].token
          /\ request'[r].route = request[r].route /\ request'[r].at = request[r].at
          /\ request'[r].used = request[r].used /\ request'[r].who = request[r].who
          /\ request'[r].fault = request[r].fault /\ request'[r].from = request[r].from
          /\ request'[r].held \subseteq request[r].held \cup {account'}
    BY DEF AccountChanges, SoundInv, IInv, Record
  <1>3. \A r \in Requests : Sound(request[r])'
    BY <1>1, <1>2 DEF SoundInv, Sound, Dated, Fetching
  <1>4. Published' /\ Cached' /\ Banned' /\ Locked'
    BY <1>1, <1>2 DEF SoundInv, Published, Cached, Banned, Locked
  <1>5. Recorded'
    BY <1>1, <1>2, SameRecord DEF SoundInv, SameUse
  <1>6. KeysAreValid
    BY <1>2 DEF KeysAreValid
  <1> QED BY <1>3, <1>4, <1>5, <1>6 DEF SoundInv

\* A key is withdrawn no earlier than the answers that still hold it were asked for.
LEMMA RotateSound == ASSUME SoundInv, IInv', Rotate PROVE SoundInv' /\ KeysAreValid
  <1>1. /\ now \in 0 .. Horizon /\ rotation' = rotation + 1 /\ rotation < Len(Rotation)
        /\ rotation \in 1 .. Len(Rotation) /\ withdrawn \in 0 .. Horizon + 1
        /\ UNCHANGED <<now, account, denied, window, certs, holder, request>>
    BY DEF SoundInv, IInv, Published, Rotate, redis, google
  <1>2. /\ withdrawn' = IF 1 \in Rotation[rotation'] THEN Horizon + 1
                        ELSE IF 1 \in Rotation[rotation] THEN now ELSE withdrawn
    BY <1>1 DEF Rotate
  <1>3. Published'
    BY <1>1, <1>2, ConstantTypes DEF SoundInv, Published
  <1>4. Cached' /\ Banned' /\ Locked'
    BY <1>1, <1>2, ConstantTypes DEF SoundInv, Cached, Banned, Locked
  <1>5. ASSUME NEW q, Dated(q), Fetching(q) PROVE Fetching(q)'
    <2> SUFFICES ASSUME NEW i \in q.from .. rotation', 1 \in Rotation[i] PROVE withdrawn' >= q.at
      BY <1>1, <1>5 DEF Fetching
    <2>1. CASE i = rotation'
      BY <1>1, <1>2, <1>5, <2>1, ConstantTypes DEF Dated
    <2>2. CASE i # rotation'
      <3>1. i \in q.from .. rotation
        BY <1>1, <1>5, <2>2 DEF Fetching
      <3> QED BY <1>1, <1>2, <1>5, <3>1, ConstantTypes DEF Dated, Fetching
    <2> QED BY <2>1, <2>2
  <1>6. \A r \in Requests : Sound(request[r])'
    BY <1>1, <1>5 DEF SoundInv, Sound, Dated
  <1>7. Recorded'
    BY <1>1, SameRecord DEF SoundInv, SameUse
  <1>8. KeysAreValid
    BY <1>1 DEF KeysAreValid
  <1> QED BY <1>3, <1>4, <1>6, <1>7, <1>8 DEF SoundInv

LEMMA NextSound == SoundInv /\ [Next]_vars => SoundInv' /\ KeysAreValid
  <1> SUFFICES ASSUME SoundInv, [Next]_vars PROVE SoundInv' /\ KeysAreValid
    OBVIOUS
  <1>1. IInv'
    BY NextServesWell DEF SoundInv
  <1>2. ASSUME NEW r \in Requests, Arrive(r) PROVE SoundInv' /\ KeysAreValid
    BY <1>1, <1>2, ArriveSound
  <1>3. ASSUME NEW r \in Requests, Progress(r) PROVE SoundInv' /\ KeysAreValid
    BY <1>1, <1>3, TakeLockSound, FetchReturnsSound, FetchFailsSound, IsRevokedSound, ResolveSound,
       EnterSound, RevokeSound, CheckRateLimitSound, RevalidateSound, WriteSound, ToolSound
       DEF Progress
  <1>4. CASE Tick
    BY <1>1, <1>4, TickSound
  <1>5. CASE AccountChanges
    BY <1>1, <1>5, AccountSound
  <1>6. CASE Rotate
    BY <1>1, <1>6, RotateSound
  <1>7. CASE UNCHANGED vars
    <2>1. UNCHANGED <<now, account, rotation, withdrawn, denied, window, certs, holder, request>>
      BY <1>7 DEF vars, world, redis, google
    <2>2. Published' /\ Cached' /\ Banned' /\ Locked'
      BY <2>1 DEF SoundInv, Published, Cached, Banned, Locked
    <2>3. \A r \in Requests : Sound(request[r])'
      BY <2>1 DEF SoundInv, Sound, Dated, Fetching
    <2>4. Recorded' /\ KeysAreValid
      BY <2>1, SameRecord DEF SoundInv, IInv, SameUse, KeysAreValid
    <2> QED BY <1>1, <2>2, <2>3, <2>4 DEF SoundInv
  <1> QED BY <1>2, <1>3, <1>4, <1>5, <1>6, <1>7 DEF Next

LEMMA AlwaysSound == Spec => []SoundInv
  BY InitSound, NextSound, PTL DEF Spec

\* However late Google answers and whatever it publishes meanwhile, no signature
\* is accepted of a key that has been withdrawn for as long as an answer may be
\* cached (_signing_key dates its answer before the request).
THEOREM WithdrawnKeysExpire == Spec => RetiredKeyIsRefused
  <1>1. SoundInv /\ [Next]_vars => SoundInv' /\ [\A r \in Requests :
          /\ request[r].pc \in {"idle", "lock", "fetch"} /\ request'[r].pc = "revocation"
          /\ request'[r].token \in Firebase /\ KeyOf(request'[r].token) = 1
          => now < withdrawn + MaxAge]_vars
    BY NextSound DEF KeysAreValid, Valid
  <1> QED BY <1>1, InitSound, PTL DEF Spec, RetiredKeyIsRefused

\* The sliding window admits no more than the limit in any window of time,
\* whatever the number of workers and whichever calls of Redis are lost
\* (_RATE_LIMIT_SCRIPT records a request before it counts).
THEOREM BudgetsHold == Spec => []BudgetHolds
  <1>1. SoundInv => BudgetHolds
    <2> SUFFICES ASSUME SoundInv, NEW x \in 0 .. now, NEW b \in DOMAIN window
                 PROVE  Cardinality(Admissions(b, x)) <= Limit
      BY DEF BudgetHolds, Admissions
    <2>1. now \in Nat
      BY DEF SoundInv, IInv
    <2> QED BY <2>1 DEF SoundInv, Recorded
  <1> QED BY <1>1, AlwaysSound, PTL

\* Types: the lock has the one holder that fetches, the deny list and the windows
\* are of the past (_certificate_lock, revoke_token, _RATE_LIMIT_SCRIPT).
THEOREM TypeCorrect == Spec => []TypeOK
  <1>1. SoundInv => TypeOK
    <2> SUFFICES ASSUME SoundInv PROVE TypeOK
      OBVIOUS
    <2>1. /\ now \in 0 .. Horizon /\ account \in Accounts /\ rotation \in DOMAIN Rotation
          /\ withdrawn \in 0 .. Horizon + 1
      BY ConstantTypes DEF SoundInv, IInv, Published
    <2>2. /\ certs.keys \subseteq {1, 2} /\ certs.fetched \in 0 .. now
          /\ certs.expires \in certs.fetched .. certs.fetched + MaxAge
      BY DEF SoundInv, Cached
    <2>3. holder \in Requests \cup {Nobody} /\ (holder # Nobody <=> At("fetch") = {holder})
      <3>1. holder \in Requests \cup {Nobody} /\ \A r \in At("fetch") : r \in Requests /\ holder = r
        BY DEF SoundInv, Locked, At
      <3>2. holder # Nobody => holder \in At("fetch")
        BY DEF SoundInv, Locked, At
      <3> QED BY <3>1, <3>2, ConstantTypes
    <2>4. (\A t \in Bearers : denied[t] \in 0 .. Horizon + Expiry) /\ loggedOut \subseteq Bearers
      BY DEF SoundInv, Banned, IInv, DenyList
    <2>5. \A b \in DOMAIN window : window[b] \subseteq (0 .. now) \X Requests
      BY DEF SoundInv, Recorded
    <2>6. \A r \in Requests :
            /\ request[r].pc \in Statuses \cup {"idle", "lock", "fetch", "revocation", "resolve",
                   "route", "revoke", "limit", "revalidate", "write", "tool"}
            /\ request[r].who \in Accounts \cup {Customer}
            /\ request[r].held \subseteq Accounts /\ request[r].fault \in {"none", "blind", "broken"}
      BY DEF SoundInv, Sound, Stages
    <2> QED BY <2>1, <2>2, <2>3, <2>4, <2>5, <2>6 DEF TypeOK
  <1> QED BY <1>1, AlwaysSound, PTL
=============================================================================
