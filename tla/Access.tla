-------------------------------- MODULE Access --------------------------------
(***************************************************************************)
(* Who may do what at this moment: verification and revocation of bearer    *)
(* tokens (app/security), the operational account behind them               *)
(* (app/database/identity.py), the request budgets (app/cache/rate_limit.py)*)
(* and the service tokens of MCP and A2A (app/integrations/mcp_a2a.py).     *)
(*                                                                         *)
(* Meanwhile time passes, accounts change, Google rotates its keys, and any *)
(* call of Redis, PostgreSQL or Google may fail.  A tick is half a second:  *)
(* tokens expire at full seconds.                                           *)
(***************************************************************************)
EXTENDS Integers, FiniteSets, Sequences

CONSTANTS Requests,
          Workloads,      \* sets of calls, pairs of a token and a route, that meet
          Accounts,       \* states of the operational account, Gone for none
          Gone,
          Claims,         \* the account a local token was issued for
          Configured,     \* the account of the service tokens, Gone for none
          Expiry,         \* exp of the bearer tokens, an even tick
          Rotation,       \* the key sets Google publishes, one after the other
          MaxAges,        \* max-age of its answers, capped by _signing_key
          MaxAge,         \* that cap
          RefetchAfter,   \* how soon an unknown key asks Google again
          FetchTimeout,   \* how long Google may take to answer
          Window, Limit,  \* rate_limit_window_seconds and requests in it
          Horizon,        \* bound: the last tick
          Nobody

\* A local token with usuario_id, one of the legacy form without jti and
\* usuario_id, Firebase tokens of a member of the staff signed with the keys 1
\* and 2, one of a customer.
Bearers == {"local", "legacy", "firebase1", "firebase2", "customer"}

Firebase == {"firebase1", "firebase2", "customer"}

ASSUME AccessAssumption ==
    /\ UNION Workloads \subseteq
           (Bearers \X {"logout", "write", "analysis"}) \cup ({"service"} \X {"mcp", "a2a"})
    /\ Gone \in Accounts /\ Claims \in Accounts \ {Gone} /\ Configured \in Accounts
    /\ Horizon \in Nat /\ Expiry \in {2 * s : s \in 1 .. Horizon}
    /\ Rotation \in Seq(SUBSET {1, 2}) \ {<<>>}
    /\ MaxAge \in Nat \ {0} /\ MaxAges \subseteq 0 .. MaxAge /\ FetchTimeout \in 0 .. MaxAge - 1
    /\ Window \in Nat \ {0} /\ Limit \in Nat \ {0} /\ RefetchAfter \in Nat
    /\ Nobody \notin Requests

VARIABLES now,
          calls,     \* the workload
          account,   \* app_user, employee, role, store and company in one
          rotation,  \* index in Rotation of what Google publishes
          withdrawn, \* history: since when key 1 is withdrawn, Horizon + 1 if it is not
          certs,     \* _certificates, _fetched_at, _expires_at of the process
          holder,    \* holder of _certificate_lock
          denied,    \* Redis: until when a token is on the deny list
          loggedOut, \* history: tokens whose logout was answered
          window,    \* Redis: the sorted set of each budget
          request

world == <<now, calls, account, rotation, withdrawn>>
redis == <<denied, loggedOut, window>>
google == <<certs, holder>>
vars == <<world, redis, google, request>>

KeyOf(token) == IF token = "firebase2" THEN 2 ELSE 1

Customer == [role |-> "CLIENTE", store |-> 0]

\* who: the authenticated identity, identified if it may act on the
\* operational database; at: when the clock was read, before an await; used:
\* when the budget admitted it, plus one; held: history, the accounts since the check of
\* the account began; after: history, it came after an answered logout of its
\* token; fault: history, what failed on its way.
Unborn == [pc |-> "idle", token |-> "", route |-> "", who |-> Gone, identified |-> FALSE,
           at |-> 0, used |-> 0, from |-> 1, held |-> {}, after |-> FALSE, fault |-> "none"]

Init ==
    /\ now = 0 /\ calls \in Workloads /\ account = Claims /\ rotation = 1 /\ withdrawn = Horizon + 1
    /\ certs = [keys |-> {}, fetched |-> 0, expires |-> 0] /\ holder = Nobody
    /\ denied = [t \in Bearers |-> 0] /\ loggedOut = {}
    /\ window = [b \in {"analysis", "mcp", "a2a"} |-> {}]
    /\ request = [r \in Requests |-> Unborn]

Become(r, q) == request' = [request EXCEPT ![r] = q]

\* The reply ends the request; an admission to a budget remains on record.
Replied(q, status) ==
    IF q.used > 0 THEN [Unborn EXCEPT !.pc = status, !.route = q.route, !.at = q.at, !.used = q.used]
    ELSE [Unborn EXCEPT !.pc = status]

\* A dependency failed.
Broken(q, status) == [Replied(q, status) EXCEPT !.fault = "broken"]

Statuses == {"200", "400", "401", "403", "429", "500", "503", "error"}

At(pc) == {r \in Requests : request[r].pc = pc}

-----------------------------------------------------------------------------
(* Firebase certificates *)

\* No refresh is needed for this key.
Fresh(kid) ==
    now < certs.expires /\ (kid \in certs.keys \/ now - certs.fetched <= RefetchAfter)

\* The signature and the expiry, once the certificates are chosen.
Decoded(q, keys) ==
    IF KeyOf(q.token) \in keys /\ now < Expiry
    THEN [q EXCEPT !.pc = "revocation", !.at = 0, !.from = 1]
    ELSE Replied(q, "401")

SigningKey(q) == IF Fresh(KeyOf(q.token)) THEN Decoded(q, certs.keys) ELSE [q EXCEPT !.pc = "lock"]

\* Whoever gets the lock looks again: the one before may have refreshed.
TakeLock(r) ==
    /\ request[r].pc = "lock" /\ holder = Nobody
    /\ IF Fresh(KeyOf(request[r].token))
       THEN Become(r, Decoded(request[r], certs.keys)) /\ UNCHANGED holder
       ELSE /\ Become(r, [request[r] EXCEPT !.pc = "fetch", !.at = now, !.from = rotation])
            /\ holder' = r
    /\ UNCHANGED <<world, redis, certs>>

\* Bug: the age counts from the end of the request.
DatedAtTheEnd(r) ==
    /\ request[r].pc = "fetch"
    /\ \E i \in request[r].from .. rotation, age \in MaxAges :
         /\ certs' = [keys |-> Rotation[i], fetched |-> now, expires |-> now + age]
         /\ Become(r, Decoded(request[r], Rotation[i]))
    /\ holder' = Nobody
    /\ UNCHANGED <<world, redis>>

\* The answer is of some moment since the request; it is dated before it.
FetchReturns(r) ==
    /\ request[r].pc = "fetch"
    /\ \E i \in request[r].from .. rotation, age \in MaxAges :
         /\ certs' = [keys |-> Rotation[i], fetched |-> request[r].at,
                      expires |-> request[r].at + age]
         /\ Become(r, Decoded(request[r], Rotation[i]))
    /\ holder' = Nobody
    /\ UNCHANGED <<world, redis>>

\* Bug: the lock is kept by a failed fetch.
FailureKeepsLock(r) ==
    /\ request[r].pc = "fetch"
    /\ Become(r, Broken(request[r], "503"))
    /\ UNCHANGED <<world, redis, google>>

\* A timeout or a malformed answer; the old certificates stay as they are.
FetchFails(r) ==
    /\ request[r].pc = "fetch"
    /\ Become(r, Broken(request[r], "503"))
    /\ holder' = Nobody
    /\ UNCHANGED <<world, redis, certs>>

-----------------------------------------------------------------------------
(* Authentication *)

\* Legacy tokens carry the identity themselves.
Arrived(q) ==
    IF q.token = "service" THEN [q EXCEPT !.pc = "limit", !.at = now]
    ELSE IF q.token \in Firebase THEN SigningKey(q)
    ELSE IF now >= Expiry THEN Replied(q, "401")
    ELSE IF q.token = "local" THEN [q EXCEPT !.pc = "revocation"]
    ELSE [q EXCEPT !.pc = "route", !.who = Claims, !.identified = TRUE]

Arrive(r) ==
    /\ request[r].pc = "idle"
    /\ \E call \in calls :
         Become(r, Arrived([Unborn EXCEPT !.token = call[1], !.route = call[2], !.after = (call[1] \in loggedOut)]))
    /\ UNCHANGED <<world, redis, google>>

\* A service token is refused before anything else is looked at.
ServiceRefused(r) ==
    /\ request[r].pc = "limit" /\ request[r].token = "service"
    /\ Become(r, Replied(request[r], IF request[r].route = "a2a" THEN "401" ELSE "error"))
    /\ UNCHANGED <<world, redis, google>>

\* _is_revoked: the check fails open.
IsRevoked(r) ==
    /\ request[r].pc = "revocation"
    /\ LET passed == [request[r] EXCEPT !.pc = "resolve"] IN
       \/ Become(r, IF denied[request[r].token] > now THEN Replied(request[r], "401") ELSE passed)
       \/ Become(r, [passed EXCEPT !.fault = "blind"])
    /\ UNCHANGED <<world, redis, google>>

Matches(a, who) ==
    a # Gone /\ who # Gone /\ a.role = who.role /\ (who.store # 0 => a.store = who.store)

\* resolve_firebase_customer_identity, resolve_firebase_identity, and for a
\* local token the comparison of its claims with the account.
Resolve(r) ==
    LET q == request[r] IN
    /\ q.pc = "resolve"
    /\ \/ Become(r,
            IF q.token = "customer" THEN [q EXCEPT !.pc = "route", !.who = Customer]
            ELSE IF q.token = "local" /\ ~Matches(account, Claims) THEN Replied(q, "401")
            ELSE IF account = Gone THEN Replied(q, "403")
            ELSE [q EXCEPT !.pc = "route", !.who = account, !.identified = TRUE])
       \/ Become(r, Broken(q, "500"))
    /\ UNCHANGED <<world, redis, google>>

RequireRoles == [x \in {"write", "analysis"} |->
    IF x = "write" THEN {"ESTOQUISTA", "GERENTE", "DONO"} ELSE {"DONO"}]

\* Bug: the remaining time is rounded off.
TtlRoundedOff(t) == Expiry - 2 * ((t + 1) \div 2)

\* exp - int(time.time())
Ttl(t) == Expiry - 2 * (t \div 2)

\* Expired on its own between its check and here: nothing to revoke.
LogoutRoute(q) ==
    IF q.token = "legacy" THEN Replied(q, "400")
    ELSE IF Ttl(now) <= 0 THEN Replied(q, "200") ELSE [q EXCEPT !.pc = "revoke", !.at = now]

Enter(r) ==
    LET q == request[r] IN
    /\ q.pc = "route"
    /\ Become(r,
         IF q.route = "logout" THEN LogoutRoute(q)
         ELSE IF q.who.role \notin RequireRoles[q.route] THEN Replied(q, "403")
         ELSE IF q.route = "write" THEN [q EXCEPT !.pc = "revalidate", !.held = {account}]
         ELSE [q EXCEPT !.pc = "limit", !.at = now])
    /\ UNCHANGED <<world, redis, google>>

\* revoke_token does not fail open; SET may have been executed all the same.
Revoke(r) ==
    LET q == request[r]
        set == [denied EXCEPT ![q.token] = now + Ttl(q.at)]
    IN
    /\ q.pc = "revoke"
    /\ \/ /\ denied' = set /\ loggedOut' = loggedOut \cup {q.token}
          /\ Become(r, Replied(q, "200"))
       \/ /\ denied' \in {denied, set} /\ UNCHANGED loggedOut
          /\ Become(r, Broken(q, "503"))
    /\ UNCHANGED <<world, google, window>>

-----------------------------------------------------------------------------
(* Budgets *)

\* Bug: the window is a tick too short.
ShortCutoff(t) == t - Window + 1

Cutoff(t) == t - Window

\* The script: evict, record this request whatever becomes of it, count.  Its
\* EXPIRE drops the key a window after its last entry, when all would be evicted.
Charged(q, r) ==
    {e \in window[q.route] : e[1] > Cutoff(q.at)} \cup {<<q.at, r>>}

\* Requests to the tools: the company is bound, the configured account
\* entered; a malformed or foreign request ends here.
Admitted(q) ==
    IF q.token = "service"
    THEN {[q EXCEPT !.pc = "tool", !.used = now + 1, !.who = Configured, !.held = {account}],
          Replied([q EXCEPT !.used = now + 1], "error")}
    ELSE {Replied([q EXCEPT !.used = now + 1], "200")}

CheckRateLimit(r) ==
    LET q == request[r]
        charged == [window EXCEPT ![q.route] = Charged(q, r)]
    IN
    /\ q.pc = "limit"
    /\ \/ /\ window' = charged
          /\ IF Cardinality(charged[q.route]) <= Limit
             THEN \E a \in Admitted(q) : Become(r, a)
             ELSE Become(r, Replied(q, "429"))
       \/ /\ window' \in {window, charged}
          /\ Become(r, Broken(q, "503"))
    /\ UNCHANGED <<world, google, denied, loggedOut>>

-----------------------------------------------------------------------------
(* The operational account *)

\* initialize_pg_context; a read of the customer role has no identity at all.
MayAct(q) == q.identified /\ Matches(account, q.who)

\* Bug: a replay needs no look at the account.
RevalidateWritesOnly(r) ==
    /\ request[r].pc = "revalidate"
    /\ \/ Become(r, [request[r] EXCEPT !.pc = "write", !.held = {account}])
       \/ Become(r, Replied(request[r], "200"))
    /\ UNCHANGED <<world, redis, google>>

\* Before the write and before the replay of a stored result.
Revalidate(r) ==
    LET q == request[r] IN
    /\ q.pc = "revalidate"
    /\ \/ /\ MayAct(q)
          /\ \/ Become(r, [q EXCEPT !.pc = "write", !.held = {account}])
             \/ Become(r, Replied(q, "200"))
       \/ ~MayAct(q) /\ Become(r, Replied(q, "403"))
       \/ Become(r, Broken(q, "500"))
    /\ UNCHANGED <<world, redis, google>>

\* The write's own transaction begins with the same check.
Write(r) ==
    LET q == request[r] IN
    /\ q.pc = "write"
    /\ \/ Become(r, IF MayAct(q) THEN Replied(q, "200") ELSE Replied(q, "403"))
       \/ Become(r, Broken(q, "500"))
    /\ UNCHANGED <<world, redis, google>>

\* mcp_expose_tool with the configured identity: refused, or nothing published.
\* MCP puts that into its result; the A2A route takes the text for an object and
\* fails.
Tool(r) ==
    LET q == [request[r] EXCEPT !.identified = (request[r].who # Gone)] IN
    /\ q.pc = "tool"
    /\ \/ MayAct(q) /\ Become(r, Replied(q, "200"))
       \/ Become(r, Replied(q, IF q.route = "a2a" THEN "500" ELSE "error"))
       \/ Become(r, Broken(q, "500"))
    /\ UNCHANGED <<world, redis, google>>

-----------------------------------------------------------------------------
(* The world *)

\* Google answers within the timeout or is given up.
Tick ==
    /\ now < Horizon
    /\ \A r \in At("fetch") : now < request[r].at + FetchTimeout
    /\ now' = now + 1
    /\ UNCHANGED <<calls, account, rotation, withdrawn, redis, google, request>>

\* Deactivated, moved to another store, given another role, or back again.
AccountChanges ==
    /\ \E a \in Accounts \ {account} :
         /\ account' = a
         /\ request' = [r \in Requests |->
              IF request[r].held = {} THEN request[r]
              ELSE [request[r] EXCEPT !.held = @ \cup {a}]]
    /\ UNCHANGED <<now, calls, rotation, withdrawn, redis, google>>

\* Without Firebase tokens it makes no difference.
Rotate ==
    /\ rotation < Len(Rotation) /\ \E call \in calls : call[1] \in Firebase
    /\ rotation' = rotation + 1
    /\ withdrawn' = IF 1 \in Rotation[rotation + 1] THEN Horizon + 1
                    ELSE IF 1 \in Rotation[rotation] THEN now ELSE withdrawn
    /\ UNCHANGED <<now, calls, account, redis, google, request>>

Progress(r) ==
    \/ TakeLock(r) \/ FetchReturns(r) \/ FetchFails(r) \/ IsRevoked(r) \/ Resolve(r) \/ Enter(r)
    \/ Revoke(r) \/ CheckRateLimit(r) \/ Revalidate(r) \/ Write(r) \/ Tool(r) \/ ServiceRefused(r)

Next ==
    \/ \E r \in Requests : Arrive(r) \/ Progress(r)
    \/ Tick \/ AccountChanges \/ Rotate

Spec == Init /\ [][Next]_vars

\* Every call of a dependency ends, with a result or a failure, and a free lock
\* is handed to a waiter.
FairSpec == Spec /\ \A r \in Requests : WF_vars(Progress(r))

-----------------------------------------------------------------------------
(* Properties *)

TypeOK ==
    /\ now \in 0 .. Horizon /\ account \in Accounts /\ rotation \in DOMAIN Rotation
    /\ withdrawn \in 0 .. Horizon + 1
    /\ certs.keys \subseteq {1, 2} /\ certs.fetched \in 0 .. now
    /\ certs.expires \in certs.fetched .. certs.fetched + MaxAge
    /\ holder \in Requests \cup {Nobody} /\ (holder # Nobody <=> At("fetch") = {holder})
    /\ \A t \in Bearers : denied[t] \in 0 .. Horizon + Expiry
    /\ loggedOut \subseteq Bearers
    /\ \A b \in DOMAIN window : window[b] \subseteq (0 .. now) \X Requests
    /\ \A r \in Requests :
         /\ request[r].pc \in Statuses \cup {"idle", "lock", "fetch", "revocation", "resolve",
                "route", "revoke", "limit", "revalidate", "write", "tool"}
         /\ request[r].who \in Accounts \cup {Customer}
         /\ request[r].held \subseteq Accounts /\ request[r].fault \in {"none", "blind", "broken"}

Served(r) == request[r].pc # "200" /\ request'[r].pc = "200"

\* A token whose logout was answered opens nothing any more until it expires,
\* unless the deny list could not be read (revoke_token, _is_revoked).
RevokedIsRefused == [][\A r \in Requests :
    Served(r) /\ request[r].after => request[r].fault = "blind" \/ now >= Expiry]_vars

\* Whatever acts on the operational database for a caller, a replayed write and
\* a tool of a service included, was allowed by the account as it was while the
\* call was being served (require_operational_roles, initialize_pg_context).
OperationsAreCurrent == [][\A r \in Requests :
    Served(r) /\ request[r].route \in {"write", "mcp", "a2a"} =>
        \E a \in request[r].held : Matches(a, request[r].who)]_vars

\* No signature is accepted of a key that Google has withdrawn MaxAge ago: a
\* fetch that Google answers late is not dated late (_signing_key).
RetiredKeyIsRefused == [][\A r \in Requests :
    /\ request[r].pc \in {"idle", "lock", "fetch"} /\ request'[r].pc = "revocation"
    /\ request'[r].token \in Firebase /\ KeyOf(request'[r].token) = 1
    => now < withdrawn + MaxAge]_vars

\* In no window of time are more than Limit requests admitted from the reading
\* of the clock to the admission: workers share the budget (_RATE_LIMIT_SCRIPT).
BudgetHolds == \A x \in 0 .. now, b \in DOMAIN window :
    Cardinality({r \in Requests : /\ request[r].route = b /\ request[r].used > 0
                                  /\ request[r].at >= x /\ request[r].used - 1 < x + Window}) <= Limit

\* Every request is answered: none waits for ever for the certificates that
\* another one fetches.
EveryRequestAnswered == \A r \in Requests :
    request[r].pc # "idle" ~> request[r].pc \in Statuses

\* The catch-all answers 500 "only for something genuinely unexpected (a raw
\* DB/driver error, a bug)" (main.py): never for a refusal.
RefusalsAreReplies == \A r \in Requests :
    request[r].pc = "500" => request[r].fault = "broken"
=============================================================================
