---------------------------- MODULE ConfigDelivery ----------------------------
(***************************************************************************)
(* The configuration endpoint of the SDKs, in front of what is published.  *)
(* An entry of the cache is fresh for its time to live; after that every   *)
(* request resolves the configuration anew, and while the entry is in its  *)
(* grace period a failing resolution is covered by it.  The resolver is a  *)
(* function the service is given: it reads the current version at some     *)
(* moment between its call and its answer.  Requests that wait for it      *)
(* overlap, and each stores what it got.  The entries of the cache are     *)
(* independent: one of them, that of a placement, is modelled.             *)
(***************************************************************************)
EXTENDS ConfigPublish

CONSTANTS
  Gets,        \* processes that ask for the configuration
  Etags,       \* versions a client may name, Nothing for none
  Placement,   \* the unit it is resolved from
  BuiltIn,     \* the version that holds before one is published
  TtlOf,       \* per version, ttlSec of its effective configuration, or 0
  DefaultTtl,
  Grace        \* staleGraceWindowSec

ASSUME DeliveryAssumption ==
  /\ Placement \in Units /\ BuiltIn \in Versions
  /\ TtlOf \in [Versions -> Nat] /\ Etags \subseteq Versions \cup {Nothing}
  /\ DefaultTtl \in Nat \ {0} /\ Grace \in Nat

VARIABLES
  entry,         \* what the cache holds
  get,           \* per request, how far it is and what it has captured
  lastCurrent    \* history: when a version was last the current one

vars == <<now, publishVars, entry, get, lastCurrent>>

CurrentVersion == IF unit[Placement].current = Nothing THEN BuiltIn ELSE unit[Placement].current

NoEntry == [version |-> Nothing, expireAt |-> 0, staleUntil |-> 0]

\* Fault: the entry lives from the moment it is stored.
EntryFromStore(version, at) ==
  LET ttl == IF TtlOf[version] = 0 THEN DefaultTtl ELSE TtlOf[version]
  IN  [version |-> version, expireAt |-> now + ttl, staleUntil |-> now + ttl + Grace]

\* setFromSnapshot: the clock is that of the request, read before it waited.
EntryOf(version, at) ==
  LET ttl == IF TtlOf[version] = 0 THEN DefaultTtl ELSE TtlOf[version]
  IN  [version |-> version, expireAt |-> at + ttl, staleUntil |-> at + ttl + Grace]

readState ==
  IF entry = NoEntry THEN "miss"
  ELSE IF now < entry.expireAt THEN "fresh"
  ELSE IF now <= entry.staleUntil THEN "stale_grace"
  ELSE "expired_hard"

Idle == [stage |-> "idle", etag |-> Nothing, at |-> 0, state |-> "none", cached |-> NoEntry,
         version |-> Nothing, status |-> 0]

\* The version answered, and 304 if the client named it.
Served(g, version) ==
  [g EXCEPT !.stage = "answered", !.version = version,
            !.status = IF g.etag = version THEN 304 ELSE 200]
Failed(g) == [g EXCEPT !.stage = "answered", !.version = Nothing, !.status = 503]

\* A request that lacks a field, or does not ask for "prod".
RefuseGet(g) ==
  /\ get[g].stage = "idle"
  /\ get' = [get EXCEPT ![g] = [Idle EXCEPT !.stage = "answered", !.status = 400]]
  /\ UNCHANGED <<now, publishVars, entry, lastCurrent>>

\* The etag is the one of a version the client has, or none that counts.
Received(etag) ==
  [Idle EXCEPT !.stage = "waiting", !.etag = etag, !.at = now, !.state = readState, !.cached = entry]

handleGetConfig(g, etag) ==
  /\ get[g].stage = "idle"
  /\ get' = [get EXCEPT ![g] =
       IF readState = "fresh" THEN Served(Received(etag), entry.version) ELSE Received(etag)]
  /\ UNCHANGED <<now, publishVars, entry, lastCurrent>>

\* The resolver reads what is published.
Resolve(g) ==
  /\ get[g].stage = "waiting"
  /\ get' = [get EXCEPT ![g].stage = "resolved", ![g].version = CurrentVersion]
  /\ UNCHANGED <<now, publishVars, entry, lastCurrent>>

\* Whatever was stored meanwhile is replaced.
refreshEntry(g) ==
  /\ get[g].stage = "resolved"
  /\ entry' = EntryOf(get[g].version, get[g].at)
  /\ get' = [get EXCEPT ![g] = Served(@, get[g].version)]
  /\ UNCHANGED <<now, publishVars, lastCurrent>>

\* A stale entry is sent whole, whatever the client has.
ServedStale(g) == [g EXCEPT !.stage = "answered", !.version = g.cached.version, !.status = 200]

\* The resolver throws, or its snapshot has no etag: what the request saw in the
\* cache when it came counts, not what the cache holds now.
RefreshFails(g) ==
  /\ get[g].stage \in {"waiting", "resolved"}
  /\ get' = [get EXCEPT ![g] = IF get[g].state = "stale_grace" THEN ServedStale(@) ELSE Failed(@)]
  /\ UNCHANGED <<now, publishVars, entry, lastCurrent>>

\* A request process takes the next request.
NextGet(g) ==
  /\ get[g].stage = "answered"
  /\ get' = [get EXCEPT ![g] = Idle]
  /\ UNCHANGED <<now, publishVars, entry, lastCurrent>>

PublishStep ==
  /\ \E r \in PublishRequests : publishConfig(r)
  /\ lastCurrent' = IF CurrentVersion' = CurrentVersion THEN lastCurrent
                    ELSE [lastCurrent EXCEPT ![CurrentVersion] = now]
  /\ UNCHANGED <<now, entry, get>>

Tick ==
  /\ now < MaxTime
  /\ now' = now + 1
  /\ UNCHANGED <<publishVars, entry, get, lastCurrent>>

Init ==
  /\ PublishInit
  /\ entry = NoEntry
  /\ get = [g \in Gets |-> Idle]
  /\ lastCurrent = [v \in Versions |-> 0]

Next ==
  \/ PublishStep
  \/ \E g \in Gets :
       \/ RefuseGet(g) \/ Resolve(g) \/ refreshEntry(g) \/ RefreshFails(g) \/ NextGet(g)
       \/ \E etag \in Etags : handleGetConfig(g, etag)
  \/ Tick

Spec == Init /\ [][Next]_vars

----------------------------------------------------------------------------
EntryType == [version : Versions \cup {Nothing}, expireAt : Nat, staleUntil : Nat]
TypeOK ==
  /\ PublishTypeOK
  /\ entry \in EntryType
  /\ get \in [Gets -> [stage : {"idle", "waiting", "resolved", "answered"},
                       etag : Versions \cup {Nothing}, at : 0 .. MaxTime,
                       state : {"none", "miss", "fresh", "stale_grace", "expired_hard"},
                       cached : EntryType, version : Versions \cup {Nothing},
                       status : {0, 200, 304, 400, 503}]]
  /\ lastCurrent \in [Versions -> 0 .. MaxTime]

LongestTtl(v) == IF TtlOf[v] = 0 THEN DefaultTtl ELSE TtlOf[v]

(* A client is told of a version that was the published one no longer ago than
   its time to live and the grace period, counted back from the moment the client
   asked: whatever the resolver takes to answer, however refreshes overlap, and
   though a slow one may put an older version back into the cache. *)
ServedIsRecent ==
  \A g \in Gets : get[g].stage = "answered" /\ get[g].status \in {200, 304} =>
    LET v == get[g].version
    IN  v # CurrentVersion => get[g].at <= lastCurrent[v] + LongestTtl(v) + Grace
=============================================================================
