----------------------------- MODULE ControlPlane -----------------------------
(***************************************************************************)
(* The control plane: dashboard users and their sessions, API keys, and    *)
(* the integration tokens that are exchanged for access tokens.  Rows live *)
(* in the store; each gateway answers from a copy in memory, which it      *)
(* replaces now and then by what it reads, table by table, in the store.   *)
(*                                                                         *)
(* A handler reads the copy, writes whole rows to the store, an await      *)
(* each, and only then to the copy.  A row is a record with a status and   *)
(* what handlers compare; times, hashes and account bindings are left out. *)
(***************************************************************************)
EXTENDS Integers, Sequences

CONSTANTS
  Gateways,    \* instances
  Slots,       \* calls that may be under way at once
  Users, Sessions, Keys, Tokens, Accesses,  \* identifiers of rows
  Requests,    \* what clients ask
  MaxSecret,   \* bound on the secrets a key has one after the other
  MaxFailures  \* bound on the loads that fail

Tables == {Users, Sessions, Keys, Tokens, Accesses} \ {{}}
Ids == UNION Tables

ASSUME ControlPlaneAssumption ==
  /\ \A i, j \in 1..5 : i # j =>
       LET tables == <<Users, Sessions, Keys, Tokens, Accesses>> IN tables[i] \cap tables[j] = {}
  /\ \A q \in Requests :
       /\ q.name = "register" => q.user \in Users
       /\ q.name \in {"register", "login", "me", "logout"} => q.session \in Sessions
       /\ q.name \in {"createKey", "rotateKey", "revokeKey", "useKey"} => q.key \in Keys
       /\ q.name \in {"issue", "exchange"} => q.token \in Tokens
       /\ q.name \in {"exchange", "useAccess"} => q.access \in Accesses
  /\ MaxSecret \in Nat /\ MaxFailures \in Nat

VARIABLES
  store,     \* per row: what the database holds
  mem,       \* per gateway and row: state.controlPlane
  load,      \* per gateway: the refresh under way: the rows it has read
  failures,  \* loads that failed
  calls,     \* per slot: the call under way
  granted,   \* requests for sessions that were answered with one
  lastSeen   \* per session: how its last use was answered

vars == <<store, mem, load, failures, calls, granted, lastSeen>>

NoRow == [status |-> "none"]
NoLoad == [id \in {"none"} |-> NoRow]
Idle == [at |-> "idle"]
With(row, status) == [row EXCEPT !.status = status]

----------------------------------------------------------------------------
\* Calls.

\* The rows a request makes; their identifiers are random and so new.
Makes(q) ==
  CASE q.name = "register" -> {q.user, q.session}
    [] q.name = "login" -> {q.session}
    [] q.name = "createKey" -> {q.key}
    [] q.name = "issue" -> {q.token}
    [] q.name = "exchange" -> {q.access}
    [] OTHER -> {}
New(id) ==
  /\ store[id] = NoRow
  /\ \A s \in Slots : calls[s] # Idle => id \notin Makes(calls[s].request)

Routed(s, name) == calls[s].at = "routed" /\ calls[s].request.name = name
Request(s) == calls[s].request
Row(s, id) == mem[calls[s].gw][id]

End(s) == calls' = [calls EXCEPT ![s] = Idle]
Unread == UNCHANGED <<store, mem, load, failures>>
Refuse(s) == End(s) /\ Unread /\ UNCHANGED <<granted, lastSeen>>

\* A plan: groups of rows put into the store one by one, then kept in the copy.
Group(rows) == [put |-> rows, keep |-> rows]
Put(id, row) == [id |-> id, row |-> row]
StartWriting(s, plan) ==
  /\ calls' = [calls EXCEPT ![s] = [at |-> "writing", gw |-> @.gw, request |-> @.request,
                                          forced |-> @.forced, plan |-> plan]]
  /\ Unread /\ UNCHANGED granted
Write(s, plan) == StartWriting(s, plan) /\ UNCHANGED lastSeen

\* refreshControlPlaneStateFromStore: the calls of a gateway wait for one load.
AwaitLoad(s, call) ==
  /\ calls' = [calls EXCEPT ![s] = [call EXCEPT !.at = "waiting"]]
  /\ load' = [load EXCEPT ![call.gw] = IF @ = NoLoad THEN <<>> ELSE @]

\* The throttle of the refreshes is over, or is not.
Arrive(s, g, q, refresh) ==
  /\ calls[s] = Idle
  /\ \A id \in Makes(q) : New(id)
  /\ LET call == [at |-> "routed", gw |-> g, request |-> q, forced |-> FALSE]
     IN  IF refresh THEN AwaitLoad(s, call)
         ELSE calls' = [calls EXCEPT ![s] = call] /\ UNCHANGED load
  /\ UNCHANGED <<store, mem, failures, granted, lastSeen>>

\* What is not found is read through, once; a load that began before counts too.
SubjectOf(q) ==
  CASE q.name \in {"me", "logout"} -> q.session
    [] q.name = "exchange" -> q.token
    [] q.name = "useAccess" -> q.access
    [] q.name = "useKey" -> q.key
KeyMatches(s, k, n) == Row(s, k).status = "active" /\ Row(s, k).secret = n
AnyKey(s) == \E k \in Keys : Row(s, k).status = "active"
Found(s) ==
  CASE Request(s).name = "useKey" -> KeyMatches(s, Request(s).key, Request(s).secret)
    [] Request(s).name = "issue" -> AnyKey(s)
    [] Request(s).name \in {"me", "logout", "exchange", "useAccess"} -> Row(s, SubjectOf(Request(s))) # NoRow
    [] OTHER -> TRUE
Ready(s, name) == Routed(s, name) /\ (Found(s) \/ calls[s].forced)

ReadThrough(s) ==
  /\ calls[s].at = "routed" /\ ~Found(s) /\ ~calls[s].forced
  /\ AwaitLoad(s, [calls[s] EXCEPT !.forced = TRUE])
  /\ UNCHANGED <<store, mem, failures, granted, lastSeen>>

----------------------------------------------------------------------------
\* Users and sessions.

UsersWith(s, email) == {u \in Users : Row(s, u) # NoRow /\ Row(s, u).email = email}
NewSession(u) == [status |-> "active", user |-> u]

Register(s) ==
  /\ Routed(s, "register")
  /\ LET q == Request(s)
         user == <<Put(q.user, [status |-> "active", email |-> q.email])>>
     IN  IF UsersWith(s, q.email) # {} THEN Refuse(s)
         ELSE Write(s, <<Group(user), Group(<<Put(q.session, NewSession(q.user))>>), Group(user)>>)

Login(s) ==
  /\ Routed(s, "login")
  /\ LET q == Request(s)
     IN  \/ UsersWith(s, q.email) = {} /\ Refuse(s)
         \/ \E u \in UsersWith(s, q.email) :
              Write(s, <<Group(<<Put(q.session, NewSession(u))>>), Group(<<Put(u, Row(s, u))>>)>>)

\* resolveDashboardSession: a session whose user is not in the copy is dropped
\* from it.
SessionHolds(s) ==
  LET row == Row(s, Request(s).session)
  IN  row.status = "active" /\ Row(s, row.user).status = "active"
\* Fault: the session is dropped from the store as well.
DropsForGood(s) ==
  LET row == Row(s, Request(s).session)
  IN  IF row.status = "active"
      THEN /\ mem' = [mem EXCEPT ![calls[s].gw][Request(s).session] = With(row, "revoked")]
           /\ store' = [store EXCEPT ![Request(s).session] = With(row, "revoked")]
      ELSE UNCHANGED <<mem, store>>
DropSession(s) ==
  LET row == Row(s, Request(s).session)
  IN  IF row.status = "active"
      THEN mem' = [mem EXCEPT ![calls[s].gw][Request(s).session] = With(row, "revoked")] /\ UNCHANGED store
      ELSE UNCHANGED <<mem, store>>

See(s, answer) ==
  lastSeen' = [lastSeen EXCEPT ![Request(s).session] = IF @ = "left" THEN @ ELSE answer]

Me(s) ==
  /\ Ready(s, "me")
  /\ End(s)
  /\ IF SessionHolds(s) THEN See(s, "accepted") /\ UNCHANGED <<mem, store>>
     ELSE See(s, "refused") /\ DropSession(s)
  /\ UNCHANGED <<load, failures, granted>>

Logout(s) ==
  /\ Ready(s, "logout")
  /\ IF SessionHolds(s)
     THEN /\ StartWriting(s, <<Group(<<Put(Request(s).session, With(Row(s, Request(s).session), "revoked"))>>)>>)
          /\ See(s, "left")
     ELSE /\ End(s) /\ DropSession(s)
          /\ UNCHANGED <<load, failures, granted, lastSeen>>

----------------------------------------------------------------------------
\* API keys.

CreateKey(s) ==
  /\ Routed(s, "createKey")
  /\ Write(s, <<Group(<<Put(Request(s).key, [status |-> "active", secret |-> 1])>>)>>)

RotateKey(s) ==
  /\ Routed(s, "rotateKey")
  /\ LET k == Request(s).key
         row == Row(s, k)
     IN  IF row = NoRow \/ row.secret = MaxSecret THEN Refuse(s)  \* the second is the bound
         ELSE Write(s, <<Group(<<Put(k, [status |-> "active", secret |-> row.secret + 1])>>)>>)

RevokeKey(s) ==
  /\ Routed(s, "revokeKey")
  /\ LET k == Request(s).key
     IN  IF Row(s, k).status # "active" THEN Refuse(s)
         ELSE Write(s, <<Group(<<Put(k, With(Row(s, k), "revoked"))>>)>>)

\* A key that is used is written back as it was read, with the time of its use.
UseKey(s) ==
  /\ Ready(s, "useKey")
  /\ LET k == Request(s).key
     IN  IF ~KeyMatches(s, k, Request(s).secret) THEN Refuse(s)
         ELSE Write(s, <<Group(<<Put(k, Row(s, k))>>)>>)

----------------------------------------------------------------------------
\* Integration tokens and access tokens.

IssueToken(s) ==
  /\ Ready(s, "issue")
  /\ IF ~AnyKey(s) THEN Refuse(s)
     ELSE Write(s, <<Group(<<Put(Request(s).token, [status |-> "active"])>>)>>)

Exchanged(s, t) == \E a \in Accesses : Row(s, a) # NoRow /\ Row(s, a).source = t

\* Fault: the access token is stored before the token it is exchanged for is spent.
GrantsFirst(s) ==
  /\ Ready(s, "exchange") /\ Row(s, Request(s).token).status = "active"
  /\ Write(s, <<Group(<<Put(Request(s).access, [status |-> "active", source |-> Request(s).token]),
                        Put(Request(s).token, [status |-> "used"])>>)>>)

\* Its time is over: the clean-up says so in the copy alone.
CleanUp(s, id) ==
  /\ Row(s, id).status = "active"
  /\ mem' = [mem EXCEPT ![calls[s].gw][id] = With(@, "expired")]
  /\ End(s)
  /\ UNCHANGED <<store, load, failures, granted, lastSeen>>

\* A token that is missing, spent, revoked or over is refused; one whose time is
\* too short, or that an access token is known for, is put away first.
Exchange(s) ==
  /\ Ready(s, "exchange")
  /\ LET t == Request(s).token
         spent == Put(t, [status |-> "used"])
     IN  \/ Row(s, t).status # "active" /\ Refuse(s)
         \/ CleanUp(s, t)
         \/ Row(s, t).status = "active" /\ Exchanged(s, t) /\ Write(s, <<Group(<<spent>>)>>)
         \/ Row(s, t).status = "active" /\ ~Exchanged(s, t) /\ Write(s, <<Group(<<Put(t, [status |-> "expired"])>>)>>)
         \/ /\ Row(s, t).status = "active" /\ ~Exchanged(s, t)
            /\ Write(s, <<Group(<<spent, Put(Request(s).access, [status |-> "active", source |-> t])>>)>>)

UseAccess(s) ==
  /\ Ready(s, "useAccess")
  /\ LET a == Request(s).access
     IN  \/ Row(s, a).status # "active" /\ Refuse(s)
         \/ CleanUp(s, a)
         \/ Row(s, a).status = "active" /\ Write(s, <<Group(<<Put(a, Row(s, a))>>)>>)
         \/ Row(s, a).status = "active" /\ Write(s, <<Group(<<Put(a, With(Row(s, a), "expired"))>>)>>)

----------------------------------------------------------------------------
\* Writes.

Head1(s) == Head(calls[s].plan)
Pending(s) == calls[s].at = "writing" /\ Head1(s).put # <<>>

\* Fault: nothing in the store keeps two users from one address.
FreeAlways(p) == FALSE
Taken(p) ==
  /\ p.id \in Users
  /\ \E u \in Users \ {p.id} : store[u] # NoRow /\ store[u].email = p.row.email

Commit(s) ==
  /\ Pending(s)
  /\ LET p == Head(Head1(s).put)
     IN  /\ ~Taken(p)
         /\ store' = [store EXCEPT ![p.id] = p.row]
  /\ calls' = [calls EXCEPT ![s].plan[1].put = Tail(@)]
  /\ UNCHANGED <<mem, load, failures, granted, lastSeen>>

\* The write fails, or its answer is lost; the rest of the plan is dropped.
WriteFails(s) ==
  /\ Pending(s)
  /\ LET p == Head(Head1(s).put)
     IN  store' = store \/ (~Taken(p) /\ store' = [store EXCEPT ![p.id] = p.row])
  /\ End(s)
  /\ UNCHANGED <<mem, load, failures, granted, lastSeen>>

SessionRequests == {q \in Requests : q.name \in {"register", "login"}}
\* The rows of a group have ids of their own.
Kept(rows, copy) ==
  [id \in DOMAIN copy |->
     IF \E i \in DOMAIN rows : rows[i].id = id
     THEN rows[CHOOSE i \in DOMAIN rows : rows[i].id = id].row ELSE copy[id]]

KeepRows(s) ==
  /\ calls[s].at = "writing" /\ Head1(s).put = <<>>
  /\ mem' = [mem EXCEPT ![calls[s].gw] = Kept(Head1(s).keep, @)]
  /\ IF Len(calls[s].plan) = 1
     THEN End(s) /\ granted' = granted \cup ({Request(s)} \cap SessionRequests)
     ELSE calls' = [calls EXCEPT ![s].plan = Tail(@)] /\ UNCHANGED granted
  /\ UNCHANGED <<store, load, failures, lastSeen>>

----------------------------------------------------------------------------
\* Refreshes.  Seven queries on as many connections: each sees the store when it
\* runs.

LoadReads(g, T) ==
  /\ load[g] # NoLoad /\ T \cap DOMAIN load[g] = {}
  /\ load' = [load EXCEPT ![g] = [id \in DOMAIN @ \cup T |-> IF id \in T THEN store[id] ELSE @[id]]]
  /\ UNCHANGED <<store, mem, failures, calls, granted, lastSeen>>

Resumed(g) ==
  [s \in Slots |-> IF calls[s].at = "waiting" /\ calls[s].gw = g THEN [calls[s] EXCEPT !.at = "routed"]
                   ELSE calls[s]]

LoadEnds(g) ==
  /\ load[g] # NoLoad /\ DOMAIN load[g] = Ids
  /\ mem' = [mem EXCEPT ![g] = load[g]]
  /\ load' = [load EXCEPT ![g] = NoLoad]
  /\ calls' = Resumed(g)
  /\ UNCHANGED <<store, failures, granted, lastSeen>>

\* The calls go on with the copy there is.
LoadFails(g) ==
  /\ load[g] # NoLoad /\ failures < MaxFailures /\ failures' = failures + 1
  /\ load' = [load EXCEPT ![g] = NoLoad]
  /\ calls' = Resumed(g)
  /\ UNCHANGED <<store, mem, granted, lastSeen>>

----------------------------------------------------------------------------
Init ==
  /\ store = [id \in Ids |-> NoRow]
  /\ mem = [g \in Gateways |-> store]
  /\ load = [g \in Gateways |-> NoLoad]
  /\ calls = [s \in Slots |-> Idle]
  /\ failures = 0 /\ granted = {}
  /\ lastSeen = [x \in Sessions |-> "unused"]

Step(s) ==
  \/ ReadThrough(s) \/ Register(s) \/ Login(s) \/ Me(s) \/ Logout(s) \/ CreateKey(s) \/ RotateKey(s)
  \/ RevokeKey(s) \/ UseKey(s) \/ IssueToken(s) \/ Exchange(s) \/ UseAccess(s)
  \/ Commit(s) \/ WriteFails(s) \/ KeepRows(s)

Next ==
  \/ \E s \in Slots : Step(s) \/ \E g \in Gateways, q \in Requests, refresh \in BOOLEAN : Arrive(s, g, q, refresh)
  \/ \E g \in Gateways :
       \/ \E T \in Tables : LoadReads(g, T)
       \/ LoadEnds(g) \/ LoadFails(g)

Uses(x) == {q \in Requests : q.name = "me" /\ q.session = x}

\* The store answers again in the end, time passes, and clients go on using their
\* sessions.
Fairness ==
  /\ \A s \in Slots : WF_vars(Step(s))
  /\ \A g \in Gateways :
       /\ \A T \in Tables : WF_vars(LoadReads(g, T))
       /\ WF_vars(LoadEnds(g))
       /\ \A x \in Sessions : SF_vars(\E s \in Slots, q \in Uses(x) : Arrive(s, g, q, TRUE))

Spec == Init /\ [][Next]_vars /\ Fairness

----------------------------------------------------------------------------
(* Of the clients that register under one address, however their calls overlap
   and wherever they go, one at most is told that it did; and no two rows ever
   hold the address, in the store or in any copy. *)
OneUserPerEmail ==
  /\ \A p, q \in {r \in granted : r.name = "register"} : p.email = q.email => p = q
  /\ \A u, v \in Users, g \in Gateways :
       /\ u # v
       => /\ store[u] # NoRow /\ store[v] # NoRow => store[u].email # store[v].email
          /\ mem[g][u] # NoRow /\ mem[g][v] # NoRow => mem[g][u].email # mem[g][v].email

(* An integration token is spent before its access token exists: whatever write of
   an exchange fails, and whatever other calls write the token back, the store
   never holds an access token whose source it would still let be exchanged. *)
SourceSpentFirst ==
  \A a \in Accesses : store[a] # NoRow => store[store[a].source].status # "active"

(* A session that was given to a client, and that no client left, is accepted again and
   again, though loads tear it from its user and gateways drop it for that, though
   loads fail, and wherever the client goes. *)
SessionsHold ==
  \A x \in Sessions :
    (\E q \in granted : q.session = x)
      ~> lastSeen[x] \in {"accepted", "left"}
=============================================================================
