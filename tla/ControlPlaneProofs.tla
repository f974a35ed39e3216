------------------------- MODULE ControlPlaneProofs -------------------------
(***************************************************************************)
(* What MCControlPlane checks on two calls holds for any gateways, calls,  *)
(* clients and requests: one user registers under an address, and a token  *)
(* is spent before what it is exchanged for exists.                        *)
(*                                                                         *)
(* A row that a gateway has in its copy, a load has read, or a call is     *)
(* about to write may be old, but it stands on what the store holds: the   *)
(* user is there under this address, the token is there, the source of     *)
(* the access token is spent.  What the store holds in this sense it       *)
(* keeps, so that an old row that is written back changes none of it; and  *)
(* a row that is not there yet is written only by the call that makes it.  *)
(***************************************************************************)
EXTENDS ControlPlane, TLAPS

\* Rows for which it matters whether they are there already.
Guarded == Users \cup Tokens

Spent(db, t) == t \in Tokens /\ db[t] # NoRow /\ db[t].status # "active"

\* What a row stands on.
Backed(db, id, row) ==
  /\ id \in Users => db[id] # NoRow /\ row.email = db[id].email
  /\ id \in Tokens => db[id] # NoRow
  /\ id \in Accesses => {"status", "source"} \subseteq DOMAIN row /\ Spent(db, row.source)

StoreSound ==
  /\ DOMAIN store = Ids
  /\ \A id \in Ids : store[id] # NoRow => Backed(store, id, store[id])
  /\ \A u, v \in Users : u # v /\ store[u] # NoRow /\ store[v] # NoRow => store[u].email # store[v].email

CopyBacked(db, copy) == \A id \in DOMAIN copy : copy[id] # NoRow => Backed(db, id, copy[id])

CopiesBacked ==
  /\ DOMAIN mem = Gateways /\ DOMAIN load = Gateways
  /\ \A g \in Gateways : DOMAIN mem[g] = Ids /\ CopyBacked(store, mem[g]) /\ CopyBacked(store, load[g])

----------------------------------------------------------------------------
ActiveToken(p) == p.id \in Tokens /\ p.row.status = "active"

\* The i-th row that is put: it may be written when its turn comes.
Writable(db, q, put, i) ==
  LET id  == put[i].id
      row == put[i].row
  IN /\ id \in Ids
     /\ id \in Guarded => row # NoRow /\ (db[id] # NoRow \/ id \in Makes(q))
     /\ id \in Users => /\ id \in Makes(q) => row.email = q.email
                        /\ db[id] # NoRow => db[id].email = row.email
     /\ ActiveToken(put[i]) => db[id] = NoRow
     /\ id \in Accesses =>
          /\ {"status", "source"} \subseteq DOMAIN row
          /\ \/ Spent(db, row.source)
             \/ /\ row.source \in Tokens
                /\ \E j \in 1 .. i - 1 : put[j].id = row.source /\ put[j].row.status # "active"

IsSeq(s) == s \in Seq({s[i] : i \in DOMAIN s})

\* What is kept has been put, or is about to be.
GroupSound(db, q, group) ==
  /\ DOMAIN group = {"put", "keep"} /\ IsSeq(group.put)
  /\ \A i \in DOMAIN group.put : Writable(db, q, group.put, i)
  /\ \A i \in DOMAIN group.keep :
       \/ Backed(db, group.keep[i].id, group.keep[i].row)
       \/ \E j \in DOMAIN group.put : group.put[j] = group.keep[i]

\* The rows tell who has registered.
ShowsUser(q, rows) == \E i \in DOMAIN rows : rows[i].id = q.user /\ rows[i].row.email = q.email

PlanSound(db, q, plan) ==
  /\ IsSeq(plan) /\ plan # <<>>
  /\ \A k \in DOMAIN plan : GroupSound(db, q, plan[k])
  /\ \A k \in DOMAIN plan : \A i \in DOMAIN plan[k].put :
       ActiveToken(plan[k].put[i]) =>
         Len(plan) = 1 /\ Len(plan[1].put) = 1
  /\ q.name = "register" => ShowsUser(q, plan[Len(plan)].keep)

CallSound(db, c) ==
  c # Idle =>
    /\ c.request \in Requests /\ c.gw \in Gateways /\ c.at \in {"routed", "waiting", "writing"}
    /\ c.at # "writing" => /\ DOMAIN c = {"at", "gw", "request", "forced"}
                           /\ \A id \in Makes(c.request) \cap Guarded : db[id] = NoRow
    /\ c.at = "writing" => /\ DOMAIN c = {"at", "gw", "request", "forced", "plan"}
                           /\ PlanSound(db, c.request, c.plan)

CallsSound ==
  /\ DOMAIN calls = Slots
  /\ \A s \in Slots : CallSound(store, calls[s])
  /\ \A s, z \in Slots : s # z /\ calls[s] # Idle /\ calls[z] # Idle =>
       Makes(calls[s].request) \cap Makes(calls[z].request) = {}

Registrations == {p \in granted : p.name = "register"}

GrantsStand ==
  /\ granted \subseteq Requests
  /\ \A p \in Registrations : store[p.user] # NoRow /\ store[p.user].email = p.email
  /\ \A p, q \in Registrations : p.user = q.user => p = q
  /\ \A s \in Slots : calls[s] # Idle /\ calls[s].request.name = "register" =>
       \A p \in Registrations : p.user # calls[s].request.user

ControlInv == StoreSound /\ CopiesBacked /\ CallsSound /\ GrantsStand

----------------------------------------------------------------------------
(* Sequences and tables. *)

LEMMA SequenceIsSeq ==
  ASSUME NEW S, NEW s \in Seq(S)
  PROVE  IsSeq(s)
<1>1. /\ Len(s) \in Nat /\ DOMAIN s = 1 .. Len(s)
  OBVIOUS
<1>2. s \in [1 .. Len(s) -> {s[i] : i \in DOMAIN s}]
  BY <1>1
<1> QED BY <1>1, <1>2 DEF IsSeq

LEMMA TailOf ==
  ASSUME NEW s, IsSeq(s), s # <<>>
  PROVE  /\ Len(s) \in Nat \ {0} /\ DOMAIN s = 1 .. Len(s) /\ Head(s) = s[1]
         /\ IsSeq(Tail(s)) /\ Len(Tail(s)) = Len(s) - 1 /\ DOMAIN Tail(s) = 1 .. Len(s) - 1
         /\ \A i \in 1 .. Len(s) - 1 : Tail(s)[i] = s[i + 1]
<1> PICK S : s \in Seq(S)
  BY DEF IsSeq
<1>1. /\ Len(s) \in Nat \ {0} /\ DOMAIN s = 1 .. Len(s) /\ Head(s) = s[1]
  OBVIOUS
<1>2. Tail(s) \in Seq(S) /\ Len(Tail(s)) = Len(s) - 1
  OBVIOUS
<1>3. DOMAIN Tail(s) = 1 .. Len(s) - 1 /\ \A i \in 1 .. Len(s) - 1 : Tail(s)[i] = s[i + 1]
  BY <1>1, <1>2
<1> QED BY <1>1, <1>2, <1>3, SequenceIsSeq

LEMMA Singles ==
  /\ \A x : IsSeq(<<x>>) /\ Len(<<x>>) = 1 /\ DOMAIN <<x>> = {1}
  /\ \A x, y : IsSeq(<<x, y>>) /\ Len(<<x, y>>) = 2 /\ DOMAIN <<x, y>> = {1, 2}
  /\ \A x, y, z : IsSeq(<<x, y, z>>) /\ Len(<<x, y, z>>) = 3 /\ DOMAIN <<x, y, z>> = {1, 2, 3}
<1>1. ASSUME NEW x PROVE IsSeq(<<x>>) /\ Len(<<x>>) = 1 /\ DOMAIN <<x>> = {1}
  <2>1. <<x>> \in Seq({x})
    OBVIOUS
  <2>2. IsSeq(<<x>>)
    BY <2>1, SequenceIsSeq
  <2>3. Len(<<x>>) = 1 /\ DOMAIN <<x>> = {1}
    OBVIOUS
  <2> QED BY <2>2, <2>3
<1>2. ASSUME NEW x, NEW y PROVE IsSeq(<<x, y>>) /\ Len(<<x, y>>) = 2 /\ DOMAIN <<x, y>> = {1, 2}
  <2>1. <<x, y>> \in Seq({x, y})
    OBVIOUS
  <2>2. IsSeq(<<x, y>>)
    BY <2>1, SequenceIsSeq
  <2>3. Len(<<x, y>>) = 2 /\ DOMAIN <<x, y>> = {1, 2}
    OBVIOUS
  <2> QED BY <2>2, <2>3
<1>3. ASSUME NEW x, NEW y, NEW z
      PROVE  IsSeq(<<x, y, z>>) /\ Len(<<x, y, z>>) = 3 /\ DOMAIN <<x, y, z>> = {1, 2, 3}
  <2>1. <<x, y, z>> \in Seq({x, y, z})
    OBVIOUS
  <2>2. IsSeq(<<x, y, z>>)
    BY <2>1, SequenceIsSeq
  <2>3. Len(<<x, y, z>>) = 3 /\ DOMAIN <<x, y, z>> = {1, 2, 3}
    OBVIOUS
  <2> QED BY <2>2, <2>3
<1> QED BY <1>1, <1>2, <1>3

LEMMA TablesApart ==
  /\ Users \cap Sessions = {} /\ Users \cap Keys = {} /\ Users \cap Tokens = {} /\ Users \cap Accesses = {}
  /\ Sessions \cap Keys = {} /\ Sessions \cap Tokens = {} /\ Sessions \cap Accesses = {}
  /\ Keys \cap Tokens = {} /\ Keys \cap Accesses = {} /\ Tokens \cap Accesses = {}
<1> DEFINE tables == <<Users, Sessions, Keys, Tokens, Accesses>>
<1>1. \A i, j \in 1 .. 5 : i # j => tables[i] \cap tables[j] = {}
  BY ControlPlaneAssumption
<1>2. /\ tables[1] = Users /\ tables[2] = Sessions /\ tables[3] = Keys
      /\ tables[4] = Tokens /\ tables[5] = Accesses
  OBVIOUS
<1> HIDE DEF tables
<1>3. /\ tables[1] \cap tables[2] = {} /\ tables[1] \cap tables[3] = {} /\ tables[1] \cap tables[4] = {}
      /\ tables[1] \cap tables[5] = {} /\ tables[2] \cap tables[3] = {} /\ tables[2] \cap tables[4] = {}
      /\ tables[2] \cap tables[5] = {} /\ tables[3] \cap tables[4] = {} /\ tables[3] \cap tables[5] = {}
      /\ tables[4] \cap tables[5] = {}
  BY <1>1
<1> QED BY <1>2, <1>3

LEMMA IdsOfTables ==
  /\ Ids = Users \cup Sessions \cup Keys \cup Tokens \cup Accesses
  /\ \A T \in Tables : T \subseteq Ids
BY DEF Ids, Tables

----------------------------------------------------------------------------
(* What the store holds it keeps. *)

Keeps(db, new) ==
  \A id \in Guarded : db[id] # NoRow =>
    /\ new[id] # NoRow
    /\ id \in Users => new[id].email = db[id].email
    /\ id \in Tokens /\ db[id].status # "active" => new[id].status # "active"

LEMMA BackedStays ==
  ASSUME NEW db, NEW new, Keeps(db, new), NEW id, NEW row, Backed(db, id, row)
  PROVE  Backed(new, id, row)
BY DEF Keeps, Backed, Spent, Guarded

LEMMA CopiesStay ==
  ASSUME CopiesBacked, Keeps(store, store'), UNCHANGED <<mem, load>>
  PROVE  CopiesBacked'
<1>1. \A g \in Gateways : /\ CopyBacked(store', mem[g])
                          /\ CopyBacked(store', load[g])
  BY BackedStays DEF CopiesBacked, CopyBacked
<1> QED BY <1>1 DEF CopiesBacked

LEMMA GroupStays ==
  ASSUME NEW db, NEW new, Keeps(db, new), NEW q, NEW group, GroupSound(db, q, group),
         \A id \in Makes(q) \cap Guarded : db[id] = NoRow => new[id] = NoRow
  PROVE  GroupSound(new, q, group)
<1>1. ASSUME NEW i \in DOMAIN group.put PROVE Writable(new, q, group.put, i)
  BY <1>1 DEF GroupSound, Writable, Keeps, Spent, Guarded, ActiveToken
<1>2. \A i \in DOMAIN group.keep :
        Backed(db, group.keep[i].id, group.keep[i].row) => Backed(new, group.keep[i].id, group.keep[i].row)
  BY BackedStays
<1> QED BY <1>1, <1>2 DEF GroupSound

LEMMA CallStays ==
  ASSUME NEW db, NEW new, Keeps(db, new), NEW c, CallSound(db, c),
         c # Idle => \A id \in Makes(c.request) \cap Guarded : db[id] = NoRow => new[id] = NoRow
  PROVE  CallSound(new, c)
<1> SUFFICES ASSUME c # Idle PROVE CallSound(new, c)
  BY DEF CallSound
<1>1. ASSUME c.at = "writing" PROVE PlanSound(new, c.request, c.plan)
  <2>1. PlanSound(db, c.request, c.plan)
    BY <1>1 DEF CallSound
  <2>2. \A k \in DOMAIN c.plan : GroupSound(new, c.request, c.plan[k])
    BY <2>1, GroupStays DEF PlanSound
  <2> QED BY <2>1, <2>2 DEF PlanSound
<1> QED BY <1>1 DEF CallSound

(* A row that is written when its turn has come disturbs nobody. *)
LEMMA RowIsWritten ==
  ASSUME StoreSound, CallsSound, NEW s \in Slots, calls[s].at = "writing",
         NEW put, NEW h, h = put[1], Writable(store, calls[s].request, put, 1), ~Taken(h),
         store' = [store EXCEPT ![h.id] = h.row]
  PROVE  /\ StoreSound' /\ Keeps(store, store') /\ Backed(store', h.id, h.row)
         /\ \A z \in Slots \ {s} : CallSound(store', calls[z])
<1> PICK q : q = calls[s].request
  OBVIOUS
<1>1. /\ h.id \in Ids
      /\ h.id \in Guarded => h.row # NoRow /\ (store[h.id] # NoRow \/ h.id \in Makes(q))
      /\ h.id \in Users => (store[h.id] # NoRow => store[h.id].email = h.row.email)
      /\ ActiveToken(h) => store[h.id] = NoRow
      /\ h.id \in Accesses => {"status", "source"} \subseteq DOMAIN h.row /\ Spent(store, h.row.source)
  BY DEF Writable
<1>2. /\ DOMAIN store' = Ids /\ store'[h.id] = h.row
      /\ \A id \in Ids \ {h.id} : store'[id] = store[id]
  BY <1>1 DEF StoreSound
<1>3. Guarded \subseteq Ids /\ Users \cap Tokens = {} /\ Users \cap Accesses = {} /\ Tokens \cap Accesses = {}
  BY TablesApart, IdsOfTables DEF Guarded
<1>4. Keeps(store, store')
  BY <1>1, <1>2, <1>3 DEF Keeps, Guarded, ActiveToken
<1>5. Backed(store', h.id, h.row)
  <2>1. CASE h.id \in Users
    BY <1>1, <1>2, <1>3, <2>1 DEF Backed, Guarded
  <2>2. CASE h.id \in Tokens
    BY <1>1, <1>2, <1>3, <2>2 DEF Backed, Guarded
  <2>3. CASE h.id \in Accesses
    <3>1. Spent(store', h.row.source)
      BY <1>1, <1>4, <2>3 DEF Spent, Keeps, Guarded
    <3> QED BY <1>1, <1>3, <2>3, <3>1 DEF Backed
  <2> QED BY <2>1, <2>2, <2>3 DEF Backed
<1>6. StoreSound'
  <2>1. \A id \in Ids : store'[id] # NoRow => Backed(store', id, store'[id])
    BY <1>2, <1>4, <1>5, BackedStays DEF StoreSound
  <2>2. ASSUME NEW u \in Users, NEW v \in Users, u # v, store'[u] # NoRow, store'[v] # NoRow
        PROVE  store'[u].email # store'[v].email
    <3>1. u \in Ids /\ v \in Ids
      BY <1>3 DEF Guarded
    <3>2. h.id \in Users => \A x \in Users \ {h.id} : store[x] # NoRow => store[x].email # h.row.email
      BY DEF Taken
    <3>3. CASE u = h.id
      BY <1>2, <2>2, <3>1, <3>2, <3>3
    <3>4. CASE v = h.id
      BY <1>2, <2>2, <3>1, <3>2, <3>4
    <3>5. CASE u # h.id /\ v # h.id
      BY <1>2, <2>2, <3>1, <3>5 DEF StoreSound
    <3> QED BY <3>3, <3>4, <3>5
  <2> QED BY <1>2, <2>1, <2>2 DEF StoreSound
<1>7. ASSUME NEW z \in Slots \ {s} PROVE CallSound(store', calls[z])
  <2>1. CallSound(store, calls[z])
    BY DEF CallsSound
  <2>2. calls[z] # Idle =>
          \A id \in Makes(calls[z].request) \cap Guarded : store[id] = NoRow => store'[id] = NoRow
    <3> SUFFICES ASSUME calls[z] # Idle, NEW id \in Makes(calls[z].request) \cap Guarded, store[id] = NoRow
                 PROVE  store'[id] = NoRow
      OBVIOUS
    <3>1. calls[s] # Idle
      BY DEF Idle
    <3>2. id \notin Makes(q)
      BY <3>1 DEF CallsSound
    <3>3. id # h.id
      BY <1>1, <3>2
    <3> QED BY <1>2, <1>3, <3>3
  <2> QED BY <1>4, <2>1, <2>2, CallStays, Zenon
<1> QED BY <1>4, <1>5, <1>6, <1>7

\* What the clients were told stands.
LEMMA GrantsStay ==
  ASSUME GrantsStand, Keeps(store, store'), UNCHANGED granted,
         \A z \in Slots : calls'[z] # Idle => calls[z] # Idle /\ calls'[z].request = calls[z].request
  PROVE  GrantsStand'
<1>1. \A p \in Registrations : p.user \in Users
  BY ControlPlaneAssumption DEF Registrations, GrantsStand
<1>2. \A p \in Registrations : store'[p.user] # NoRow /\ store'[p.user].email = p.email
  BY <1>1 DEF GrantsStand, Keeps, Guarded
<1>3. Registrations' = Registrations
  BY DEF Registrations
<1> QED BY <1>2, <1>3 DEF GrantsStand

(* A call that goes on, or ends, and writes nothing. *)
LEMMA CallGoesOn ==
  ASSUME ControlInv, NEW s \in Slots, calls[s] # Idle, NEW new,
         calls' = [calls EXCEPT ![s] = new],
         new # Idle => new.request = calls[s].request,
         CallSound(store, new), UNCHANGED <<store, granted>>, CopiesBacked'
  PROVE  ControlInv'
<1>1. /\ DOMAIN calls' = Slots
      /\ \A z \in Slots : calls'[z] = IF z = s THEN new ELSE calls[z]
  BY DEF ControlInv, CallsSound
<1>2. \A z \in Slots : CallSound(store, calls'[z])
  BY <1>1 DEF ControlInv, CallsSound
<1>3. \A z \in Slots : calls'[z] # Idle => calls[z] # Idle /\ calls'[z].request = calls[z].request
  BY <1>1
<1>4. CallsSound'
  BY <1>1, <1>2, <1>3 DEF ControlInv, CallsSound
<1>5. StoreSound'
  BY DEF ControlInv, StoreSound
<1>6. Keeps(store, store')
  BY DEF Keeps
<1>7. GrantsStand'
  BY <1>3, <1>6, GrantsStay DEF ControlInv
<1> QED BY <1>4, <1>5, <1>7 DEF ControlInv

LEMMA CopiesSame ==
  ASSUME CopiesBacked, UNCHANGED <<store, mem, load>>
  PROVE  CopiesBacked'
BY DEF CopiesBacked

LEMMA IdleSound == \A db : CallSound(db, Idle)
BY DEF CallSound

(* A call that ends and changes nothing. *)
LEMMA EndsQuietly ==
  ASSUME ControlInv, NEW s \in Slots, calls[s] # Idle, End(s), UNCHANGED <<store, mem, load, granted>>
  PROVE  ControlInv'
<1>1. CopiesBacked'
  BY CopiesSame DEF ControlInv
<1> QED BY <1>1, CallGoesOn, IdleSound DEF End

(* A row of the copy is changed, under the same name. *)
LEMMA RowOfCopyChanges ==
  ASSUME CopiesBacked, NEW g \in Gateways, NEW id \in Ids, NEW row,
         row # NoRow => Backed(store, id, row),
         mem' = [mem EXCEPT ![g][id] = row], UNCHANGED <<store, load>>
  PROVE  CopiesBacked'
<1>1. /\ DOMAIN mem' = Gateways
      /\ \A x \in Gateways : DOMAIN mem'[x] = Ids
      /\ \A x \in Gateways, y \in Ids : mem'[x][y] = IF x = g /\ y = id THEN row ELSE mem[x][y]
  BY DEF CopiesBacked
<1>2. \A x \in Gateways : CopyBacked(store, mem'[x])
  BY <1>1 DEF CopiesBacked, CopyBacked
<1> QED BY <1>1, <1>2 DEF CopiesBacked

----------------------------------------------------------------------------
(* Plans. *)

LEMMA GroupOfRows ==
  ASSUME NEW db, NEW q, NEW rows, IsSeq(rows), \A i \in DOMAIN rows : Writable(db, q, rows, i)
  PROVE  GroupSound(db, q, Group(rows))
BY DEF GroupSound, Group

LEMMA PlanStarts ==
  ASSUME ControlInv, NEW s \in Slots, calls[s].at = "routed", NEW plan, StartWriting(s, plan),
         PlanSound(store, calls[s].request, plan)
  PROVE  ControlInv'
<1> PICK new : new = [at |-> "writing", gw |-> calls[s].gw, request |-> calls[s].request,
                      forced |-> calls[s].forced, plan |-> plan]
  OBVIOUS
<1>1. CallSound(store, calls[s]) /\ calls[s] # Idle /\ DOMAIN calls = Slots
  BY DEF ControlInv, CallsSound, Idle
<1>2. CallSound(store, new)
  BY <1>1 DEF CallSound
<1>3. calls' = [calls EXCEPT ![s] = new] /\ UNCHANGED <<store, mem, load, granted>>
  BY <1>1 DEF StartWriting, Unread
<1>4. CopiesBacked'
  BY <1>3, CopiesSame DEF ControlInv
<1> QED BY <1>1, <1>2, <1>3, <1>4, CallGoesOn

(* The plan of a call that writes one row. *)
LEMMA OneRow ==
  ASSUME ControlInv, NEW s \in Slots, calls[s].at = "routed", NEW id, NEW row,
         StartWriting(s, <<Group(<<Put(id, row)>>)>>), calls[s].request.name # "register",
         Writable(store, calls[s].request, <<Put(id, row)>>, 1)
  PROVE  ControlInv'
<1> PICK q : q = calls[s].request
  OBVIOUS
<1> PICK put : put = <<Put(id, row)>>
  OBVIOUS
<1> PICK group : group = Group(put)
  OBVIOUS
<1>1. IsSeq(put) /\ Len(put) = 1 /\ DOMAIN put = {1}
  BY Singles
<1>2. GroupSound(store, q, group) /\ group.put = put
  BY <1>1, GroupOfRows DEF Group
<1> PICK plan : plan = <<group>>
  OBVIOUS
<1>3. IsSeq(plan) /\ Len(plan) = 1 /\ DOMAIN plan = {1} /\ plan[1] = group /\ plan # <<>>
  BY Singles
<1>4. PlanSound(store, q, plan)
  BY <1>1, <1>2, <1>3 DEF PlanSound
<1> QED BY <1>4, PlanStarts

(* A row whose table nobody fights over, or one that is in the copy, may be written. *)
LEMMA FreeRow ==
  ASSUME NEW db, NEW q, NEW put, NEW i, put[i].id \in Sessions \cup Keys
  PROVE  Writable(db, q, put, i)
BY TablesApart, IdsOfTables DEF Writable, Guarded, ActiveToken

LEMMA MemRow ==
  ASSUME ControlInv, NEW s \in Slots, calls[s] # Idle, NEW id \in Ids
  PROVE  /\ calls[s].gw \in Gateways /\ Row(s, id) = mem[calls[s].gw][id]
         /\ Row(s, id).status = "active" => Row(s, id) # NoRow
         /\ Row(s, id) # NoRow => Backed(store, id, Row(s, id))
<1>1. calls[s].gw \in Gateways
  BY DEF ControlInv, CallsSound, CallSound
<1>2. Row(s, id) = mem[calls[s].gw][id]
  BY DEF Row
<1>3. Row(s, id).status = "active" => Row(s, id) # NoRow
  BY DEF NoRow
<1>4. Row(s, id) # NoRow => Backed(store, id, Row(s, id))
  BY <1>1, <1>2 DEF ControlInv, CopiesBacked, CopyBacked
<1> QED BY <1>1, <1>2, <1>3, <1>4

LEMMA RegisterKeeps ==
  ASSUME ControlInv, NEW s \in Slots, Register(s)
  PROVE  ControlInv'
<1> PICK q : q = calls[s].request
  OBVIOUS
<1>1. /\ calls[s].at = "routed" /\ calls[s] # Idle /\ q.name = "register" /\ q \in Requests
      /\ \A id \in Makes(q) \cap Guarded : store[id] = NoRow
  BY DEF Register, Routed, Idle, ControlInv, CallsSound, CallSound
<1>2. q.user \in Users /\ q.session \in Sessions /\ Makes(q) = {q.user, q.session}
  BY <1>1, ControlPlaneAssumption DEF Makes
<1>3. CASE UsersWith(s, q.email) # {}
  <2>1. End(s) /\ UNCHANGED <<store, mem, load, granted>>
    BY <1>3 DEF Register, Refuse, Unread, Request
  <2> QED BY <1>1, <2>1, EndsQuietly
<1>4. CASE UsersWith(s, q.email) = {}
  <2> PICK row : row = [status |-> "active", email |-> q.email]
    OBVIOUS
  <2> PICK user : user = <<Put(q.user, row)>>
    OBVIOUS
  <2> PICK session : session = <<Put(q.session, NewSession(q.user))>>
    OBVIOUS
  <2> DEFINE plan == <<Group(user), Group(session), Group(user)>>
  <2>1. StartWriting(s, plan)
    BY <1>4 DEF Register, Write, Request
  <2>2. /\ IsSeq(user) /\ DOMAIN user = {1} /\ user[1].id = q.user /\ user[1].row = row
        /\ IsSeq(session) /\ DOMAIN session = {1} /\ session[1].id = q.session
    BY Singles DEF Put
  <2>3. row # NoRow /\ row.email = q.email
    BY DEF NoRow
  <2>4. Writable(store, q, user, 1)
    BY <1>1, <1>2, <2>2, <2>3, TablesApart, IdsOfTables DEF Writable, Guarded, ActiveToken
  <2>5. Writable(store, q, session, 1)
    BY <1>2, <2>2, FreeRow
  <2>6. GroupSound(store, q, Group(user)) /\ GroupSound(store, q, Group(session))
    BY <2>2, <2>4, <2>5, GroupOfRows
  <2>7. /\ IsSeq(plan) /\ Len(plan) = 3 /\ DOMAIN plan = {1, 2, 3} /\ plan # <<>>
        /\ plan[1] = Group(user) /\ plan[2] = Group(session) /\ plan[3] = Group(user)
    BY Singles
  <2> HIDE DEF plan
  <2>8. \A k \in DOMAIN plan : GroupSound(store, q, plan[k])
    BY <2>6, <2>7
  <2>9. \A k \in DOMAIN plan : \A i \in DOMAIN plan[k].put : ~ActiveToken(plan[k].put[i])
    <3>1. Group(user).put = user /\ Group(session).put = session
      BY DEF Group
    <3> QED BY <1>2, <2>2, <2>7, <3>1, TablesApart DEF ActiveToken
  <2>10. ShowsUser(q, plan[Len(plan)].keep)
    <3>1. plan[Len(plan)].keep = user
      BY <2>7 DEF Group
    <3>2. ShowsUser(q, user)
      BY <2>2, <2>3 DEF ShowsUser
    <3> QED BY <3>1, <3>2
  <2>11. PlanSound(store, q, plan)
    BY <2>7, <2>8, <2>9, <2>10 DEF PlanSound
  <2> QED BY <1>1, <2>1, <2>11, PlanStarts
<1> QED BY <1>3, <1>4

LEMMA LoginKeeps ==
  ASSUME ControlInv, NEW s \in Slots, Login(s)
  PROVE  ControlInv'
<1> PICK q : q = calls[s].request
  OBVIOUS
<1>1. calls[s].at = "routed" /\ calls[s] # Idle /\ q.name = "login" /\ q \in Requests
  BY DEF Login, Routed, Idle, ControlInv, CallsSound, CallSound
<1>2. q.session \in Sessions /\ Makes(q) = {q.session}
  BY <1>1, ControlPlaneAssumption DEF Makes
<1>3. CASE Refuse(s)
  <2>1. End(s) /\ UNCHANGED <<store, mem, load, granted>>
    BY <1>3 DEF Refuse, Unread
  <2> QED BY <1>1, <2>1, EndsQuietly
<1>4. ASSUME NEW u \in UsersWith(s, q.email),
             Write(s, <<Group(<<Put(q.session, NewSession(u))>>), Group(<<Put(u, Row(s, u))>>)>>)
      PROVE  ControlInv'
  <2> PICK session : session = <<Put(q.session, NewSession(u))>>
    OBVIOUS
  <2> PICK user : user = <<Put(u, Row(s, u))>>
    OBVIOUS
  <2> PICK plan : plan = <<Group(session), Group(user)>>
    OBVIOUS
  <2>1. StartWriting(s, plan)
    BY <1>4 DEF Write
  <2>2. /\ IsSeq(user) /\ DOMAIN user = {1} /\ user[1].id = u /\ user[1].row = Row(s, u)
        /\ IsSeq(session) /\ DOMAIN session = {1} /\ session[1].id = q.session
    BY Singles DEF Put
  <2>3. u \in Users /\ u \in Ids /\ Row(s, u) # NoRow
    BY IdsOfTables DEF UsersWith
  <2>4. store[u] # NoRow /\ Row(s, u).email = store[u].email
    BY <1>1, <2>3, MemRow DEF Backed
  <2>5. Writable(store, q, user, 1)
    BY <1>2, <2>2, <2>3, <2>4, TablesApart, IdsOfTables DEF Writable, Guarded, ActiveToken
  <2>6. Writable(store, q, session, 1)
    BY <1>2, <2>2, FreeRow
  <2>7. GroupSound(store, q, Group(user)) /\ GroupSound(store, q, Group(session))
    BY <2>2, <2>5, <2>6, GroupOfRows
  <2>8. /\ IsSeq(plan) /\ Len(plan) = 2 /\ DOMAIN plan = {1, 2} /\ plan # <<>>
        /\ plan[1] = Group(session) /\ plan[2] = Group(user)
    BY Singles
  <2>9. \A k \in DOMAIN plan : \A i \in DOMAIN plan[k].put : ~ActiveToken(plan[k].put[i])
    <3>1. Group(user).put = user /\ Group(session).put = session
      BY DEF Group
    <3> QED BY <1>2, <2>2, <2>3, <2>8, <3>1, TablesApart DEF ActiveToken
  <2>10. PlanSound(store, q, plan)
    BY <1>1, <2>7, <2>8, <2>9 DEF PlanSound
  <2> QED BY <1>1, <2>1, <2>10, PlanStarts
<1> QED BY <1>3, <1>4 DEF Login, Request

----------------------------------------------------------------------------
(* Handlers. *)

LEMMA RoutedCall ==
  ASSUME ControlInv, NEW s \in Slots, calls[s].at = "routed"
  PROVE  /\ calls[s] # Idle /\ calls[s].request \in Requests /\ calls[s].gw \in Gateways
         /\ DOMAIN calls[s] = {"at", "gw", "request", "forced"}
         /\ \A id \in Makes(calls[s].request) \cap Guarded : store[id] = NoRow
<1>1. calls[s] # Idle
  BY DEF Idle
<1> QED BY <1>1 DEF ControlInv, CallsSound, CallSound

LEMMA RefuseKeeps ==
  ASSUME ControlInv, NEW s \in Slots, calls[s].at = "routed", Refuse(s)
  PROVE  ControlInv'
<1>1. End(s) /\ UNCHANGED <<store, mem, load, granted>>
  BY DEF Refuse, Unread
<1> QED BY <1>1, RoutedCall, EndsQuietly

LEMMA LoadIsAwaited ==
  ASSUME CopiesBacked, NEW g \in Gateways,
         load' = [load EXCEPT ![g] = IF @ = NoLoad THEN <<>> ELSE @], UNCHANGED <<store, mem>>
  PROVE  CopiesBacked'
<1>1. /\ DOMAIN load' = Gateways
      /\ \A x \in Gateways : load'[x] = load[x] \/ load'[x] = <<>>
  BY DEF CopiesBacked
<1>2. CopyBacked(store, <<>>)
  BY DEF CopyBacked
<1>3. \A x \in Gateways : CopyBacked(store, load'[x])
  BY <1>1, <1>2 DEF CopiesBacked
<1> QED BY <1>1, <1>3 DEF CopiesBacked

LEMMA ReadThroughKeeps ==
  ASSUME ControlInv, NEW s \in Slots, ReadThrough(s)
  PROVE  ControlInv'
<1> PICK c : c = calls[s]
  OBVIOUS
<1>1. c.at = "routed"
  BY DEF ReadThrough
<1>2. /\ c # Idle /\ c.gw \in Gateways /\ DOMAIN c = {"at", "gw", "request", "forced"}
      /\ CallSound(store, c)
  BY <1>1, RoutedCall DEF ControlInv, CallsSound
<1> PICK new : new = [[c EXCEPT !.forced = TRUE] EXCEPT !.at = "waiting"]
  OBVIOUS
<1>3. /\ DOMAIN new = {"at", "gw", "request", "forced"} /\ new.at = "waiting"
      /\ new.gw = c.gw /\ new.request = c.request
  BY <1>2
<1>4. CallSound(store, new)
  BY <1>1, <1>2, <1>3 DEF CallSound
<1>5. /\ calls' = [calls EXCEPT ![s] = new]
      /\ load' = [load EXCEPT ![c.gw] = IF @ = NoLoad THEN <<>> ELSE @]
      /\ UNCHANGED <<store, mem, granted>>
  BY <1>2 DEF ReadThrough, AwaitLoad
<1>6. CopiesBacked'
  BY <1>2, <1>5, LoadIsAwaited DEF ControlInv
<1> QED BY <1>2, <1>3, <1>4, <1>5, <1>6, CallGoesOn

LEMMA SessionIsDropped ==
  ASSUME ControlInv, NEW s \in Slots, calls[s].at = "routed", Request(s).session \in Sessions,
         End(s), DropSession(s), UNCHANGED <<load, granted>>
  PROVE  ControlInv'
<1> PICK id : id = Request(s).session
  OBVIOUS
<1> PICK row : row = With(Row(s, id), "revoked")
  OBVIOUS
<1>1. calls[s] # Idle /\ calls[s].gw \in Gateways /\ id \in Ids
  BY RoutedCall, IdsOfTables
<1>2. Backed(store, id, row)
  BY TablesApart DEF Backed
<1>3. CASE mem' = [mem EXCEPT ![calls[s].gw][id] = row] /\ UNCHANGED store
  <2>1. CopiesBacked'
    BY <1>1, <1>2, <1>3, RowOfCopyChanges DEF ControlInv
  <2> QED BY <1>1, <1>3, <2>1, CallGoesOn, IdleSound DEF End
<1>4. CASE UNCHANGED <<mem, store>>
  BY <1>1, <1>4, EndsQuietly
<1> QED BY <1>3, <1>4 DEF DropSession

LEMMA MeKeeps ==
  ASSUME ControlInv, NEW s \in Slots, Me(s)
  PROVE  ControlInv'
<1>1. /\ calls[s].at = "routed" /\ Request(s).name = "me"
      /\ End(s) /\ UNCHANGED <<load, granted>>
  BY DEF Me, Ready, Routed, Request
<1>2. calls[s] # Idle /\ Request(s).session \in Sessions
  BY <1>1, RoutedCall, ControlPlaneAssumption DEF Request
<1>3. CASE UNCHANGED <<mem, store>>
  BY <1>1, <1>2, <1>3, EndsQuietly
<1>4. CASE DropSession(s)
  BY <1>1, <1>2, <1>4, SessionIsDropped
<1> QED BY <1>3, <1>4 DEF Me

LEMMA LogoutKeeps ==
  ASSUME ControlInv, NEW s \in Slots, Logout(s)
  PROVE  ControlInv'
<1>1. calls[s].at = "routed" /\ Request(s).name = "logout" /\ Request(s) = calls[s].request
  BY DEF Logout, Ready, Routed, Request
<1>2. calls[s] # Idle /\ Request(s).session \in Sessions
  BY <1>1, RoutedCall, ControlPlaneAssumption
<1>3. CASE SessionHolds(s)
  <2> PICK row : row = With(Row(s, Request(s).session), "revoked")
    OBVIOUS
  <2>1. StartWriting(s, <<Group(<<Put(Request(s).session, row)>>)>>)
    BY <1>3 DEF Logout
  <2>2. Writable(store, calls[s].request, <<Put(Request(s).session, row)>>, 1)
    BY <1>2, FreeRow DEF Put
  <2> QED BY <1>1, <2>1, <2>2, OneRow
<1>4. CASE ~SessionHolds(s)
  <2>1. End(s) /\ DropSession(s) /\ UNCHANGED <<load, granted>>
    BY <1>4 DEF Logout
  <2> QED BY <1>1, <1>2, <2>1, SessionIsDropped
<1> QED BY <1>3, <1>4

LEMMA KeyIsWritten ==
  ASSUME ControlInv, NEW s \in Slots, calls[s].at = "routed", NEW row,
         Request(s).name \in {"createKey", "rotateKey", "revokeKey", "useKey"},
         Write(s, <<Group(<<Put(Request(s).key, row)>>)>>)
  PROVE  ControlInv'
<1>1. Request(s) = calls[s].request /\ Request(s).key \in Keys /\ Request(s).name # "register"
  BY RoutedCall, ControlPlaneAssumption DEF Request
<1>2. Writable(store, calls[s].request, <<Put(Request(s).key, row)>>, 1)
  BY <1>1, FreeRow DEF Put
<1> QED BY <1>1, <1>2, OneRow DEF Write

LEMMA KeysKeep ==
  ASSUME ControlInv, NEW s \in Slots, CreateKey(s) \/ RotateKey(s) \/ RevokeKey(s) \/ UseKey(s)
  PROVE  ControlInv'
<1>1. CASE CreateKey(s)
  BY <1>1, KeyIsWritten DEF CreateKey, Routed, Request
<1>2. CASE RotateKey(s)
  <2> PICK k : k = Request(s).key
    OBVIOUS
  <2> PICK row : row = [status |-> "active", secret |-> Row(s, k).secret + 1]
    OBVIOUS
  <2>1. calls[s].at = "routed" /\ Request(s).name = "rotateKey"
    BY <1>2 DEF RotateKey, Routed, Request
  <2>2. Refuse(s) \/ Write(s, <<Group(<<Put(Request(s).key, row)>>)>>)
    BY <1>2 DEF RotateKey
  <2> QED BY <2>1, <2>2, KeyIsWritten, RefuseKeeps
<1>3. CASE RevokeKey(s)
  BY <1>3, KeyIsWritten, RefuseKeeps DEF RevokeKey, Routed, Request
<1>4. CASE UseKey(s)
  BY <1>4, KeyIsWritten, RefuseKeeps DEF UseKey, Ready, Routed, Request
<1> QED BY <1>1, <1>2, <1>3, <1>4

LEMMA IssueTokenKeeps ==
  ASSUME ControlInv, NEW s \in Slots, IssueToken(s)
  PROVE  ControlInv'
<1> PICK q : q = calls[s].request
  OBVIOUS
<1> PICK row : row = [status |-> "active"]
  OBVIOUS
<1>1. calls[s].at = "routed" /\ q.name = "issue" /\ Request(s) = q
  BY DEF IssueToken, Ready, Routed, Request
<1>2. q.token \in Tokens /\ Makes(q) = {q.token} /\ store[q.token] = NoRow
  BY <1>1, RoutedCall, ControlPlaneAssumption DEF Makes, Guarded
<1>3. Refuse(s) \/ StartWriting(s, <<Group(<<Put(q.token, row)>>)>>)
  BY <1>1 DEF IssueToken, Write
<1>4. row # NoRow
  BY DEF NoRow
<1>5. Writable(store, q, <<Put(q.token, row)>>, 1)
  BY <1>2, <1>4, TablesApart, IdsOfTables DEF Writable, Guarded, ActiveToken, Put
<1> QED BY <1>1, <1>3, <1>5, RefuseKeeps, OneRow

LEMMA CleanUpKeeps ==
  ASSUME ControlInv, NEW s \in Slots, calls[s].at = "routed", NEW id \in Tokens \cup Accesses, CleanUp(s, id)
  PROVE  ControlInv'
<1> PICK old : old = Row(s, id)
  OBVIOUS
<1> PICK row : row = With(old, "expired")
  OBVIOUS
<1>1. calls[s] # Idle /\ calls[s].gw \in Gateways /\ id \in Ids /\ old.status = "active"
  BY RoutedCall, IdsOfTables DEF CleanUp
<1>2. old # NoRow /\ Backed(store, id, old)
  BY <1>1, MemRow
<1>3. Backed(store, id, row)
  BY <1>2, TablesApart DEF Backed, With
<1>4. mem' = [mem EXCEPT ![calls[s].gw][id] = row] /\ End(s) /\ UNCHANGED <<store, load, granted>>
  BY DEF CleanUp, Row
<1>5. CopiesBacked'
  BY <1>1, <1>3, <1>4, RowOfCopyChanges DEF ControlInv
<1> QED BY <1>1, <1>4, <1>5, CallGoesOn, IdleSound DEF End

(* The token is spent in front of the access token that it pays for. *)
LEMMA ExchangeIsPlanned ==
  ASSUME ControlInv, NEW s \in Slots, calls[s].at = "routed", NEW t \in Tokens, NEW a \in Accesses,
         calls[s].request.name # "register", Row(s, t).status = "active",
         StartWriting(s, <<Group(<<Put(t, [status |-> "used"]),
                                   Put(a, [status |-> "active", source |-> t])>>)>>)
  PROVE  ControlInv'
<1> PICK q : q = calls[s].request
  OBVIOUS
<1> DEFINE put == <<Put(t, [status |-> "used"]), Put(a, [status |-> "active", source |-> t])>>
           plan == <<Group(put)>>
<1>1. /\ IsSeq(put) /\ DOMAIN put = {1, 2} /\ put[1].id = t /\ put[1].row = [status |-> "used"]
      /\ put[2].id = a /\ put[2].row = [status |-> "active", source |-> t]
  BY Singles DEF Put
<1>2. IsSeq(plan) /\ Len(plan) = 1 /\ DOMAIN plan = {1} /\ plan # <<>> /\ plan[1] = Group(put)
  BY Singles
<1> HIDE DEF put, plan
<1>3. store[t] # NoRow
  BY RoutedCall, MemRow, IdsOfTables DEF Backed
<1>4. Writable(store, q, put, 1)
  <2>1. put[1].row # NoRow /\ put[1].row.status = "used"
    BY <1>1 DEF NoRow
  <2> QED BY <1>1, <1>3, <2>1, TablesApart, IdsOfTables DEF Writable, Guarded, ActiveToken
<1>5. Writable(store, q, put, 2)
  <2>1. {"status", "source"} \subseteq DOMAIN put[2].row /\ put[2].row.source = t
    BY <1>1
  <2>2. \E j \in 1 .. 2 - 1 : put[j].id = put[2].row.source /\ put[j].row.status # "active"
    BY <1>1, <2>1
  <2> QED BY <1>1, <2>1, <2>2, TablesApart, IdsOfTables DEF Writable, Guarded, ActiveToken
<1>6. GroupSound(store, q, Group(put)) /\ Group(put).put = put
  <2>1. \A i \in DOMAIN put : Writable(store, q, put, i)
    BY <1>1, <1>4, <1>5
  <2> QED BY <1>1, <2>1, GroupOfRows DEF Group
<1>7. \A i \in DOMAIN put : ~ActiveToken(put[i])
  BY <1>1, TablesApart DEF ActiveToken
<1>8. PlanSound(store, q, plan)
  BY <1>2, <1>6, <1>7 DEF PlanSound
<1>9. StartWriting(s, plan)
  BY DEF plan, put
<1> QED BY <1>8, <1>9, PlanStarts

LEMMA TokenIsWritten ==
  ASSUME ControlInv, NEW s \in Slots, calls[s].at = "routed", NEW t \in Tokens, NEW row,
         calls[s].request.name # "register", Row(s, t).status = "active",
         row # NoRow, row.status # "active",
         StartWriting(s, <<Group(<<Put(t, row)>>)>>)
  PROVE  ControlInv'
<1>1. store[t] # NoRow
  BY RoutedCall, MemRow, IdsOfTables DEF Backed
<1>2. Writable(store, calls[s].request, <<Put(t, row)>>, 1)
  BY <1>1, TablesApart, IdsOfTables DEF Writable, Guarded, ActiveToken, Put
<1> QED BY <1>2, OneRow

LEMMA ExchangeKeeps ==
  ASSUME ControlInv, NEW s \in Slots, Exchange(s)
  PROVE  ControlInv'
<1> PICK q : q = calls[s].request
  OBVIOUS
<1> PICK t : t = q.token
  OBVIOUS
<1>1. calls[s].at = "routed" /\ q.name = "exchange" /\ Request(s) = q
  BY DEF Exchange, Ready, Routed, Request
<1>2. t \in Tokens /\ q.access \in Accesses
  BY <1>1, RoutedCall, ControlPlaneAssumption
<1>3. CASE Refuse(s)
  BY <1>1, <1>3, RefuseKeeps
<1>4. CASE CleanUp(s, t)
  BY <1>1, <1>2, <1>4, CleanUpKeeps
<1>5. CASE Row(s, t).status = "active" /\ Write(s, <<Group(<<Put(t, [status |-> "used"])>>)>>)
  <2> PICK row : row = [status |-> "used"]
    OBVIOUS
  <2>1. row # NoRow /\ row.status # "active"
    BY DEF NoRow
  <2> QED BY <1>1, <1>2, <1>5, <2>1, TokenIsWritten DEF Write
<1>6. CASE Row(s, t).status = "active" /\ Write(s, <<Group(<<Put(t, [status |-> "expired"])>>)>>)
  <2> PICK row : row = [status |-> "expired"]
    OBVIOUS
  <2>1. row # NoRow /\ row.status # "active"
    BY DEF NoRow
  <2> QED BY <1>1, <1>2, <1>6, <2>1, TokenIsWritten DEF Write
<1>7. CASE /\ Row(s, t).status = "active"
           /\ Write(s, <<Group(<<Put(t, [status |-> "used"]),
                                 Put(q.access, [status |-> "active", source |-> t])>>)>>)
  BY <1>1, <1>2, <1>7, ExchangeIsPlanned DEF Write
<1> QED BY <1>1, <1>3, <1>4, <1>5, <1>6, <1>7 DEF Exchange

LEMMA UseAccessKeeps ==
  ASSUME ControlInv, NEW s \in Slots, UseAccess(s)
  PROVE  ControlInv'
<1> PICK q : q = calls[s].request
  OBVIOUS
<1> PICK a : a = q.access
  OBVIOUS
<1> PICK old : old = Row(s, a)
  OBVIOUS
<1>1. calls[s].at = "routed" /\ q.name = "useAccess" /\ Request(s) = q
  BY DEF UseAccess, Ready, Routed, Request
<1>2. a \in Accesses /\ a \in Ids
  BY <1>1, RoutedCall, ControlPlaneAssumption, IdsOfTables
<1>3. old.status = "active" => Backed(store, a, old)
  BY <1>1, <1>2, RoutedCall, MemRow
<1>4. ASSUME NEW row, old.status = "active", row \in {old, With(old, "expired")},
             StartWriting(s, <<Group(<<Put(a, row)>>)>>)
      PROVE  ControlInv'
  <2>1. {"status", "source"} \subseteq DOMAIN old /\ Spent(store, old.source)
    BY <1>2, <1>3, <1>4 DEF Backed
  <2>2. {"status", "source"} \subseteq DOMAIN row /\ row.source = old.source
    BY <1>4, <2>1 DEF With
  <2>3. Writable(store, q, <<Put(a, row)>>, 1)
    BY <1>2, <2>1, <2>2, TablesApart DEF Writable, Guarded, ActiveToken, Put
  <2> QED BY <1>1, <1>4, <2>3, OneRow
<1>5. CASE Refuse(s)
  BY <1>1, <1>5, RefuseKeeps
<1>6. CASE CleanUp(s, a)
  BY <1>1, <1>2, <1>6, CleanUpKeeps
<1>7. CASE old.status = "active" /\ Write(s, <<Group(<<Put(a, old)>>)>>)
  BY <1>4, <1>7 DEF Write
<1>8. CASE old.status = "active" /\ Write(s, <<Group(<<Put(a, With(old, "expired"))>>)>>)
  BY <1>4, <1>8 DEF Write
<1> QED BY <1>1, <1>5, <1>6, <1>7, <1>8 DEF UseAccess

----------------------------------------------------------------------------
(* Writes. *)

LEMMA SameLength ==
  ASSUME NEW s, IsSeq(s), s # <<>>, NEW t, DOMAIN t = DOMAIN s, t = [k \in DOMAIN t |-> t[k]]
  PROVE  IsSeq(t) /\ t # <<>> /\ Len(t) = Len(s)
<1>1. Len(s) \in Nat \ {0} /\ DOMAIN s = 1 .. Len(s)
  BY TailOf
<1>2. t \in Seq({t[k] : k \in DOMAIN t})
  <2>1. t \in [1 .. Len(s) -> {t[k] : k \in DOMAIN t}]
    BY <1>1
  <2> QED BY <1>1, <2>1
<1>3. Len(t) = Len(s)
  BY <1>1, <1>2
<1>4. t # <<>>
  BY <1>1
<1> QED BY <1>2, <1>3, <1>4 DEF IsSeq

(* A row stays writable when another is written, ... *)
LEMMA RowStaysWritable ==
  ASSUME NEW db, NEW new, NEW q, NEW h, NEW put, NEW i,
         DOMAIN db = Ids, h.id \in Ids, new = [db EXCEPT ![h.id] = h.row], Keeps(db, new),
         h.id \in Users /\ db[h.id] = NoRow => h.id \in Makes(q) /\ h.row.email = q.email,
         h.id \in Users /\ db[h.id] # NoRow => h.row.email = db[h.id].email,
         Writable(db, q, put, i), ~ActiveToken(put[i])
  PROVE  Writable(new, q, put, i)
<1> PICK id : id = put[i].id
  OBVIOUS
<1> PICK row : row = put[i].row
  OBVIOUS
<1>1. id \in Ids /\ (id \in Guarded => row # NoRow /\ (new[id] # NoRow \/ id \in Makes(q)))
  BY DEF Writable, Keeps
<1>2. id \in Users => /\ id \in Makes(q) => row.email = q.email
                      /\ new[id] # NoRow => new[id].email = row.email
  BY <1>1 DEF Writable, Guarded
<1>3. id \in Accesses /\ Spent(db, row.source) => Spent(new, row.source)
  BY DEF Spent, Keeps, Guarded
<1> QED BY <1>1, <1>2, <1>3 DEF Writable

\* A group whose first row is written; a plan with another first group.
Advanced(new, group) ==
  DOMAIN new = {"put", "keep"} /\ new.put = Tail(group.put) /\ new.keep = group.keep
Replaced(left, plan, first) ==
  /\ DOMAIN left = DOMAIN plan /\ left = [k \in DOMAIN left |-> left[k]]
  /\ left[1] = first /\ \A k \in DOMAIN plan \ {1} : left[k] = plan[k]

(* ... and when its turn comes nearer. *)
LEMMA GroupAdvances ==
  ASSUME NEW db, NEW q, NEW group, DOMAIN group = {"put", "keep"}, IsSeq(group.put), group.put # <<>>,
         \A i \in DOMAIN group.put \ {1} :
           Writable(db, q, group.put, i) /\ ~ActiveToken(group.put[i]),
         \A i \in DOMAIN group.keep :
           \/ Backed(db, group.keep[i].id, group.keep[i].row)
           \/ \E j \in DOMAIN group.put : group.put[j] = group.keep[i],
         NEW h, h = group.put[1], Backed(db, h.id, h.row),
         h.id \in Tokens => db[h.id] = h.row,
         NEW new, Advanced(new, group)
  PROVE  GroupSound(db, q, new)
<1> PICK put : put = group.put
  OBVIOUS
<1> PICK rest : rest = Tail(put)
  OBVIOUS
<1>1. /\ Len(put) \in Nat \ {0} /\ DOMAIN put = 1 .. Len(put)
      /\ IsSeq(rest) /\ DOMAIN rest = 1 .. Len(put) - 1
      /\ \A i \in 1 .. Len(put) - 1 : rest[i] = put[i + 1]
  BY TailOf
<1>2. h.id \in Tokens /\ h.row.status # "active" => Spent(db, h.id)
  BY DEF Backed, Spent
<1>3. ASSUME NEW i \in DOMAIN rest PROVE Writable(db, q, rest, i)
  <2>1. i \in Nat \ {0} /\ i + 1 \in DOMAIN put \ {1} /\ rest[i] = put[i + 1]
    BY <1>1
  <2>2. Writable(db, q, put, i + 1) /\ ~ActiveToken(put[i + 1])
    BY <2>1
  <2>3. rest[i].id \in Accesses =>
          \/ Spent(db, rest[i].row.source)
          \/ /\ rest[i].row.source \in Tokens
             /\ \E k \in 1 .. i - 1 : rest[k].id = rest[i].row.source /\ rest[k].row.status # "active"
    <3> SUFFICES ASSUME rest[i].id \in Accesses, ~Spent(db, rest[i].row.source)
                 PROVE  /\ rest[i].row.source \in Tokens
                        /\ \E k \in 1 .. i - 1 : rest[k].id = rest[i].row.source /\ rest[k].row.status # "active"
      OBVIOUS
    <3> PICK a : a = rest[i].row.source
      OBVIOUS
    <3>1. /\ a \in Tokens
          /\ \E j \in 1 .. (i + 1) - 1 : put[j].id = a /\ put[j].row.status # "active"
      BY <2>1, <2>2 DEF Writable
    <3>2. \E k \in 1 .. i - 1 : rest[k].id = a /\ rest[k].row.status # "active"
      <4> PICK j \in 1 .. (i + 1) - 1 : put[j].id = a /\ put[j].row.status # "active"
        BY <3>1
      <4>1. ~Spent(db, a)
        OBVIOUS
      <4>2. j # 1
        <5> SUFFICES ASSUME j = 1 PROVE FALSE
          OBVIOUS
        <5>1. h.id = a /\ h.row.status # "active"
          OBVIOUS
        <5> QED BY <1>2, <3>1, <4>1, <5>1
      <4>3. j - 1 \in 1 .. i - 1 /\ rest[j - 1] = put[j]
        BY <1>1, <2>1, <4>2
      <4> QED BY <4>3
    <3> QED BY <3>1, <3>2
  <2> QED BY <2>1, <2>2, <2>3 DEF Writable
<1>4. DOMAIN new = {"put", "keep"} /\ new.put = rest /\ new.keep = group.keep
  BY DEF Advanced
<1>5. ASSUME NEW i \in DOMAIN group.keep
      PROVE  Backed(db, group.keep[i].id, group.keep[i].row) \/ \E j \in DOMAIN rest : rest[j] = group.keep[i]
  <2>1. ASSUME NEW j \in DOMAIN put, put[j] = group.keep[i], j # 1
        PROVE  \E k \in DOMAIN rest : rest[k] = group.keep[i]
    <3>1. j - 1 \in DOMAIN rest /\ rest[j - 1] = group.keep[i]
      BY <1>1, <2>1
    <3> QED BY <3>1
  <2> QED BY <2>1
<1> QED BY <1>1, <1>3, <1>4, <1>5 DEF GroupSound

(* A call writes a row, and goes on or is over. *)
LEMMA CallWrites ==
  ASSUME ControlInv, NEW s \in Slots, calls[s].at = "writing",
         NEW put, NEW h, h = put[1], Writable(store, calls[s].request, put, 1), ~Taken(h),
         store' = [store EXCEPT ![h.id] = h.row], UNCHANGED <<mem, load, granted>>,
         NEW new, calls' = [calls EXCEPT ![s] = new],
         new # Idle => new.request = calls[s].request, CallSound(store', new)
  PROVE  ControlInv'
<1>1. StoreSound' /\ Keeps(store, store') /\ \A z \in Slots \ {s} : CallSound(store', calls[z])
  BY RowIsWritten DEF ControlInv
<1>2. /\ calls[s] # Idle /\ DOMAIN calls' = Slots
      /\ \A z \in Slots : calls'[z] = IF z = s THEN new ELSE calls[z]
  BY DEF ControlInv, CallsSound, Idle
<1>3. \A z \in Slots : CallSound(store', calls'[z])
  BY <1>1, <1>2
<1>4. \A z \in Slots : calls'[z] # Idle => calls[z] # Idle /\ calls'[z].request = calls[z].request
  BY <1>2
<1>5. CallsSound'
  BY <1>2, <1>3, <1>4 DEF ControlInv, CallsSound
<1>6. CopiesBacked'
  BY <1>1, CopiesStay DEF ControlInv
<1>7. GrantsStand'
  BY <1>1, <1>4, GrantsStay DEF ControlInv
<1> QED BY <1>1, <1>5, <1>6, <1>7 DEF ControlInv

LEMMA PendingCall ==
  ASSUME ControlInv, NEW s \in Slots, calls[s].at = "writing"
  PROVE  /\ calls[s] # Idle /\ calls[s].request \in Requests /\ calls[s].gw \in Gateways
         /\ DOMAIN calls[s] = {"at", "gw", "request", "forced", "plan"}
         /\ PlanSound(store, calls[s].request, calls[s].plan)
         /\ Len(calls[s].plan) \in Nat \ {0} /\ DOMAIN calls[s].plan = 1 .. Len(calls[s].plan)
         /\ Head1(s) = calls[s].plan[1] /\ GroupSound(store, calls[s].request, Head1(s))
<1>1. calls[s] # Idle
  BY DEF Idle
<1>2. /\ calls[s].request \in Requests /\ calls[s].gw \in Gateways
      /\ DOMAIN calls[s] = {"at", "gw", "request", "forced", "plan"}
      /\ PlanSound(store, calls[s].request, calls[s].plan)
  BY <1>1 DEF ControlInv, CallsSound, CallSound
<1> PICK plan : plan = calls[s].plan
  OBVIOUS
<1>3. IsSeq(plan) /\ plan # <<>>
  BY <1>2 DEF PlanSound
<1>4. Len(plan) \in Nat \ {0} /\ DOMAIN plan = 1 .. Len(plan) /\ Head(plan) = plan[1]
  BY <1>3, TailOf
<1>5. GroupSound(store, calls[s].request, plan[1])
  BY <1>2, <1>4 DEF PlanSound
<1> QED BY <1>1, <1>2, <1>4, <1>5 DEF Head1

LEMMA FirstOfGroup ==
  ASSUME ControlInv, NEW s \in Slots, Pending(s), NEW put, put = Head1(s).put
  PROVE  /\ IsSeq(put) /\ put # <<>> /\ Head(put) = put[1] /\ 1 \in DOMAIN put
         /\ Len(put) \in Nat \ {0} /\ DOMAIN put = 1 .. Len(put)
         /\ Writable(store, calls[s].request, put, 1)
<1>1. GroupSound(store, calls[s].request, Head1(s))
  BY PendingCall DEF Pending
<1>2. IsSeq(put) /\ put # <<>> /\ \A i \in DOMAIN put : Writable(store, calls[s].request, put, i)
  BY <1>1 DEF GroupSound, Pending
<1>3. Len(put) \in Nat \ {0} /\ DOMAIN put = 1 .. Len(put) /\ Head(put) = put[1]
  BY <1>2, TailOf
<1> QED BY <1>2, <1>3

LEMMA WriteFailsKeeps ==
  ASSUME ControlInv, NEW s \in Slots, WriteFails(s)
  PROVE  ControlInv'
<1> PICK put : put = Head1(s).put
  OBVIOUS
<1> PICK h : h = Head(put)
  OBVIOUS
<1>1. calls[s].at = "writing" /\ calls[s] # Idle
  BY PendingCall DEF WriteFails, Pending
<1>2. h = put[1] /\ Writable(store, calls[s].request, put, 1)
  BY FirstOfGroup DEF WriteFails
<1>3. CASE UNCHANGED store
  BY <1>1, <1>3, EndsQuietly DEF WriteFails
<1>4. CASE ~Taken(h) /\ store' = [store EXCEPT ![h.id] = h.row]
  <2>1. calls' = [calls EXCEPT ![s] = Idle] /\ UNCHANGED <<mem, load, granted>>
    BY DEF WriteFails, End
  <2> QED BY <1>1, <1>2, <1>4, <2>1, IdleSound, CallWrites
<1> QED BY <1>3, <1>4 DEF WriteFails

LEMMA WritableUser ==
  ASSUME NEW db, NEW q, NEW put, NEW h, h = put[1], Writable(db, q, put, 1)
  PROVE  /\ h.id \in Ids /\ (h.id \in Users /\ db[h.id] # NoRow => h.row.email = db[h.id].email)
         /\ h.id \in Users /\ db[h.id] = NoRow => h.id \in Makes(q) /\ h.row.email = q.email
<1> PICK row : row = put[1].row
  OBVIOUS
<1>1. /\ h.id \in Ids
      /\ h.id \in Guarded => db[h.id] # NoRow \/ h.id \in Makes(q)
      /\ h.id \in Users => (h.id \in Makes(q) => row.email = q.email) /\ (db[h.id] # NoRow => db[h.id].email = row.email)
  BY DEF Writable
<1> QED BY <1>1 DEF Guarded

LEMMA FirstChanges ==
  ASSUME NEW db, NEW q, NEW plan, IsSeq(plan), plan # <<>>,
         q.name = "register" => ShowsUser(q, plan[Len(plan)].keep),
         NEW first, first.keep = plan[1].keep, NEW left, Replaced(left, plan, first),
         GroupSound(db, q, first), \A i \in DOMAIN first.put : ~ActiveToken(first.put[i]),
         \A k \in DOMAIN plan \ {1} :
           GroupSound(db, q, plan[k]) /\ \A i \in DOMAIN plan[k].put : ~ActiveToken(plan[k].put[i])
  PROVE  PlanSound(db, q, left)
<1> PICK n : n = Len(plan)
  OBVIOUS
<1>1. n \in Nat \ {0} /\ DOMAIN plan = 1 .. n
  BY TailOf
<1>2. n \in DOMAIN plan /\ 1 \in DOMAIN plan
  BY <1>1
<1>3. IsSeq(left) /\ left # <<>> /\ Len(left) = n
  BY SameLength DEF Replaced
<1>4. \A k \in DOMAIN left : GroupSound(db, q, left[k]) /\ \A i \in DOMAIN left[k].put : ~ActiveToken(left[k].put[i])
  BY <1>2 DEF Replaced
<1>5. left[n].keep = plan[n].keep
  BY <1>2 DEF Replaced
<1> QED BY <1>3, <1>4, <1>5 DEF PlanSound

\* An active token is written alone.
LEMMA TokenAlone ==
  ASSUME NEW db, NEW q, NEW plan, PlanSound(db, q, plan)
  PROVE  \A k \in DOMAIN plan : \A i \in DOMAIN plan[k].put : ActiveToken(plan[k].put[i]) => k = 1 /\ i = 1
<1> SUFFICES ASSUME NEW k \in DOMAIN plan, NEW i \in DOMAIN plan[k].put, ActiveToken(plan[k].put[i])
             PROVE  k = 1 /\ i = 1
  OBVIOUS
<1>1. Len(plan) = 1 /\ Len(plan[1].put) = 1
  BY DEF PlanSound
<1>2. DOMAIN plan = 1 .. Len(plan)
  BY TailOf DEF PlanSound
<1>3. k = 1
  BY <1>1, <1>2
<1>4. IsSeq(plan[1].put) /\ plan[1].put # <<>>
  BY <1>3 DEF PlanSound, GroupSound
<1>5. DOMAIN plan[1].put = 1 .. Len(plan[1].put)
  BY <1>4, TailOf
<1> QED BY <1>1, <1>3, <1>5

\* What is left of a plan whose first row is written.
LEMMA PlanAdvances ==
  ASSUME NEW db, NEW new, DOMAIN db = Ids, Keeps(db, new), NEW q, NEW plan, PlanSound(db, q, plan),
         NEW put, put = plan[1].put, put # <<>>, NEW h, h = put[1],
         new = [db EXCEPT ![h.id] = h.row], Backed(new, h.id, h.row),
         NEW first, Advanced(first, plan[1]), NEW left, Replaced(left, plan, first)
  PROVE  PlanSound(new, q, left)
<1>1. /\ IsSeq(plan) /\ plan # <<>> /\ 1 \in DOMAIN plan
      /\ \A k \in DOMAIN plan : GroupSound(db, q, plan[k])
      /\ q.name = "register" => ShowsUser(q, plan[Len(plan)].keep)
  BY TailOf DEF PlanSound
<1>2. IsSeq(put) /\ DOMAIN plan[1] = {"put", "keep"}
  BY <1>1 DEF GroupSound
<1>3. Len(put) \in Nat \ {0} /\ DOMAIN put = 1 .. Len(put) /\ 1 \in DOMAIN put
  BY <1>2, TailOf
<1>4. Writable(db, q, put, 1)
  BY <1>1, <1>3, SMTT(20) DEF GroupSound
<1>5. /\ h.id \in Ids /\ (h.id \in Users /\ db[h.id] # NoRow => h.row.email = db[h.id].email)
      /\ h.id \in Users /\ db[h.id] = NoRow => h.id \in Makes(q) /\ h.row.email = q.email
  BY <1>4, WritableUser
<1>6. \A k \in DOMAIN plan : \A i \in DOMAIN plan[k].put : ~(k = 1 /\ i = 1) => ~ActiveToken(plan[k].put[i])
  BY TokenAlone
<1>7. \A k \in DOMAIN plan : \A i \in DOMAIN plan[k].put :
        ~(k = 1 /\ i = 1) => Writable(new, q, plan[k].put, i)
  <2> SUFFICES ASSUME NEW k \in DOMAIN plan, NEW i \in DOMAIN plan[k].put, ~(k = 1 /\ i = 1)
               PROVE  Writable(new, q, plan[k].put, i)
    OBVIOUS
  <2> PICK rows : rows = plan[k].put
    OBVIOUS
  <2>1. Writable(db, q, rows, i)
    BY <1>1 DEF GroupSound
  <2>2. ~ActiveToken(rows[i])
    BY <1>6, SMTT(20)
  <2>3. Writable(new, q, rows, i)
    BY <1>5, <2>1, <2>2, RowStaysWritable
  <2> QED BY <2>3
<1>8. \A k \in DOMAIN plan : \A i \in DOMAIN plan[k].keep :
        \/ Backed(new, plan[k].keep[i].id, plan[k].keep[i].row)
        \/ \E j \in DOMAIN plan[k].put : plan[k].put[j] = plan[k].keep[i]
  BY <1>1, BackedStays DEF GroupSound
<1>9. GroupSound(new, q, first)
  <2> PICK group : group = plan[1]
    OBVIOUS
  <2>1. new[h.id] = h.row
    BY <1>5
  <2>2. \A i \in DOMAIN group.put \ {1} : Writable(new, q, group.put, i) /\ ~ActiveToken(group.put[i])
    BY <1>1, <1>6, <1>7
  <2>3. \A i \in DOMAIN group.keep :
          \/ Backed(new, group.keep[i].id, group.keep[i].row)
          \/ \E j \in DOMAIN group.put : group.put[j] = group.keep[i]
    BY <1>1, <1>8
  <2>4. /\ DOMAIN group = {"put", "keep"} /\ IsSeq(group.put) /\ group.put # <<>> /\ h = group.put[1]
    BY <1>2
  <2>5. Advanced(first, group)
    OBVIOUS
  <2> QED BY <2>1, <2>2, <2>3, <2>4, <2>5, GroupAdvances
<1>10. \A k \in DOMAIN plan \ {1} :
         GroupSound(new, q, plan[k]) /\ \A i \in DOMAIN plan[k].put : ~ActiveToken(plan[k].put[i])
  BY <1>1, <1>6, <1>7, <1>8 DEF GroupSound
<1> PICK rest : rest = Tail(put)
  OBVIOUS
<1>11. first.put = rest /\ first.keep = plan[1].keep
  BY DEF Advanced
<1>12. DOMAIN rest = 1 .. Len(put) - 1 /\ \A j \in 1 .. Len(put) - 1 : rest[j] = put[j + 1]
  BY <1>2, TailOf
<1>13. \A j \in DOMAIN rest : j + 1 \in DOMAIN put /\ j + 1 # 1 /\ rest[j] = put[j + 1]
  BY <1>3, <1>12
<1>14. \A j \in DOMAIN rest : ~ActiveToken(rest[j])
  <2>1. \A i \in DOMAIN put : i # 1 => ~ActiveToken(put[i])
    BY <1>1, <1>6, Zenon
  <2> QED BY <1>13, <2>1, Zenon
<1> QED BY <1>1, <1>9, <1>10, <1>11, <1>14, FirstChanges

LEMMA CommitKeeps ==
  ASSUME ControlInv, NEW s \in Slots, Commit(s)
  PROVE  ControlInv'
<1> PICK c : c = calls[s]
  OBVIOUS
<1> PICK put : put = Head1(s).put
  OBVIOUS
<1> PICK h : h = Head(put)
  OBVIOUS
<1>1. /\ c.at = "writing" /\ c # Idle /\ c.request \in Requests /\ c.gw \in Gateways
      /\ DOMAIN c = {"at", "gw", "request", "forced", "plan"} /\ PlanSound(store, c.request, c.plan)
      /\ put = c.plan[1].put /\ 1 \in DOMAIN c.plan /\ DOMAIN calls = Slots
  <2>1. DOMAIN calls = Slots /\ c.at = "writing"
    BY DEF Commit, Pending, ControlInv, CallsSound
  <2> PICK n : n = Len(c.plan)
    OBVIOUS
  <2>2. /\ c # Idle /\ c.request \in Requests /\ c.gw \in Gateways
        /\ DOMAIN c = {"at", "gw", "request", "forced", "plan"} /\ PlanSound(store, c.request, c.plan)
        /\ put = c.plan[1].put /\ n \in Nat \ {0} /\ DOMAIN c.plan = 1 .. n
    BY <2>1, PendingCall
  <2>3. 1 \in DOMAIN c.plan
    BY <2>2
  <2> QED BY <2>1, <2>2, <2>3
<1>2. h = put[1] /\ put # <<>> /\ Writable(store, c.request, put, 1)
  BY FirstOfGroup DEF Commit
<1>3. ~Taken(h) /\ store' = [store EXCEPT ![h.id] = h.row] /\ UNCHANGED <<mem, load, granted>>
  BY DEF Commit
<1>4. Keeps(store, store') /\ Backed(store', h.id, h.row)
  <2>1. StoreSound /\ CallsSound
    BY DEF ControlInv
  <2>2. calls[s].at = "writing" /\ Writable(store, calls[s].request, put, 1)
    BY <1>1, <1>2
  <2> QED BY <1>2, <1>3, <2>1, <2>2, RowIsWritten, Zenon
<1>5. \E first, left, new :
        /\ Advanced(first, c.plan[1]) /\ Replaced(left, c.plan, first)
        /\ new.at = "writing" /\ new.request = c.request /\ new.gw = c.gw /\ new.plan = left
        /\ DOMAIN new = {"at", "gw", "request", "forced", "plan"}
        /\ calls' = [calls EXCEPT ![s] = new]
  <2> DEFINE f == [c.plan[1] EXCEPT !.put = Tail(@)]
             l == [c.plan EXCEPT ![1] = f]
             n == [c EXCEPT !.plan = l]
  <2>1. Advanced(f, c.plan[1])
    BY <1>1 DEF Advanced, PlanSound, GroupSound
  <2>2. calls' = [calls EXCEPT ![s] = n]
    BY <1>1 DEF Commit
  <2> HIDE DEF f
  <2>3. Replaced(l, c.plan, f)
    BY <1>1 DEF Replaced
  <2> HIDE DEF l
  <2>4. /\ n.at = "writing" /\ n.request = c.request /\ n.gw = c.gw /\ n.plan = l
        /\ DOMAIN n = {"at", "gw", "request", "forced", "plan"}
    BY <1>1
  <2> HIDE DEF n
  <2> WITNESS f, l, n
  <2> QED BY <2>1, <2>2, <2>3, <2>4
<1> PICK first, left, new :
        /\ Advanced(first, c.plan[1]) /\ Replaced(left, c.plan, first)
        /\ new.at = "writing" /\ new.request = c.request /\ new.gw = c.gw /\ new.plan = left
        /\ DOMAIN new = {"at", "gw", "request", "forced", "plan"}
        /\ calls' = [calls EXCEPT ![s] = new]
  BY <1>5, Zenon
<1>6. PlanSound(store', c.request, left)
  <2>1. DOMAIN store = Ids
    BY DEF ControlInv, StoreSound
  <2> QED BY <1>1, <1>2, <1>3, <1>4, <2>1, PlanAdvances, Zenon
<1>7. CallSound(store', new)
  BY <1>1, <1>6, Zenon DEF CallSound
<1> QED BY <1>1, <1>2, <1>3, <1>7, CallWrites, Zenon

(* What is kept in the copy is in the store. *)
LEMMA RowsAreKept ==
  ASSUME CopiesBacked, NEW g \in Gateways, NEW rows,
         \A i \in DOMAIN rows : Backed(store, rows[i].id, rows[i].row),
         mem' = [mem EXCEPT ![g] = Kept(rows, @)], UNCHANGED <<store, load>>
  PROVE  CopiesBacked'
<1> PICK copy : copy = Kept(rows, mem[g])
  OBVIOUS
<1>1. DOMAIN copy = Ids /\ CopyBacked(store, copy)
  <2>1. DOMAIN copy = Ids
    BY DEF Kept, CopiesBacked
  <2>2. ASSUME NEW id \in Ids, copy[id] # NoRow PROVE Backed(store, id, copy[id])
    <3>1. CASE \E i \in DOMAIN rows : rows[i].id = id
      <4>1. PICK i \in DOMAIN rows : rows[i].id = id /\ copy[id] = rows[i].row
        BY <3>1 DEF Kept, CopiesBacked
      <4> QED BY <4>1
    <3>2. CASE ~\E i \in DOMAIN rows : rows[i].id = id
      <4>1. copy[id] = mem[g][id]
        BY <3>2 DEF Kept, CopiesBacked
      <4> QED BY <2>2, <4>1 DEF CopiesBacked, CopyBacked
    <3> QED BY <3>1, <3>2
  <2> QED BY <2>1, <2>2 DEF CopyBacked
<1>2. /\ DOMAIN mem' = Gateways
      /\ \A x \in Gateways : mem'[x] = IF x = g THEN copy ELSE mem[x]
  BY DEF CopiesBacked
<1> QED BY <1>1, <1>2 DEF CopiesBacked

LEMMA RestOfPlan ==
  ASSUME NEW db, NEW q, NEW plan, PlanSound(db, q, plan), Len(plan) # 1, NEW left, left = Tail(plan)
  PROVE  PlanSound(db, q, left)
<1>1. /\ IsSeq(plan) /\ plan # <<>> /\ \A k \in DOMAIN plan : GroupSound(db, q, plan[k])
  BY DEF PlanSound
<1> PICK n : n = Len(plan)
  OBVIOUS
<1>2. /\ n \in Nat \ {0} /\ DOMAIN plan = 1 .. n
      /\ IsSeq(left) /\ Len(left) = n - 1 /\ DOMAIN left = 1 .. n - 1
      /\ \A k \in 1 .. n - 1 : left[k] = plan[k + 1]
  BY <1>1, TailOf
<1>3. n # 1 /\ n - 1 \in DOMAIN left
  BY <1>2
<1>4. left # <<>>
  BY <1>3
<1>5. \A k \in DOMAIN left : k + 1 \in DOMAIN plan /\ left[k] = plan[k + 1]
  BY <1>2
<1>6. \A k \in DOMAIN left : GroupSound(db, q, left[k])
  BY <1>1, <1>5
<1>7. \A k \in DOMAIN left : \A i \in DOMAIN left[k].put :
        ~ActiveToken(left[k].put[i])
  BY <1>5 DEF PlanSound
<1>8. left[Len(left)] = plan[n]
  BY <1>2, <1>3
<1>9. q.name = "register" => ShowsUser(q, left[Len(left)].keep)
  BY <1>8 DEF PlanSound
<1> QED BY <1>2, <1>4, <1>6, <1>7, <1>9 DEF PlanSound

LEMMA KeepRowsKeeps ==
  ASSUME ControlInv, NEW s \in Slots, KeepRows(s)
  PROVE  ControlInv'
<1> PICK c : c = calls[s]
  OBVIOUS
<1> PICK q : q = c.request
  OBVIOUS
<1> PICK plan : plan = c.plan
  OBVIOUS
<1> PICK rows : rows = Head1(s).keep
  OBVIOUS
<1>1. /\ c.at = "writing" /\ c # Idle /\ q \in Requests /\ c.gw \in Gateways
      /\ DOMAIN c = {"at", "gw", "request", "forced", "plan"} /\ PlanSound(store, q, plan)
      /\ Len(plan) \in Nat \ {0} /\ DOMAIN plan = 1 .. Len(plan)
      /\ rows = plan[1].keep /\ GroupSound(store, q, Head1(s)) /\ Request(s) = q
  BY PendingCall DEF KeepRows, Request
<1>2. \A i \in DOMAIN rows : Backed(store, rows[i].id, rows[i].row)
  <2>1. Head1(s).put = <<>>
    BY DEF KeepRows
  <2>2. DOMAIN Head1(s).put = {}
    BY <2>1
  <2> QED BY <1>1, <2>2 DEF GroupSound
<1>3. mem' = [mem EXCEPT ![c.gw] = Kept(rows, @)] /\ UNCHANGED <<store, load>>
  BY DEF KeepRows
<1>4. CopiesBacked'
  BY <1>1, <1>2, <1>3, RowsAreKept DEF ControlInv
<1>5. CASE Len(plan) # 1
  <2> PICK left : left = Tail(plan)
    OBVIOUS
  <2> PICK new : new = [c EXCEPT !.plan = left]
    OBVIOUS
  <2>1. calls' = [calls EXCEPT ![s] = new] /\ UNCHANGED granted
    BY <1>1, <1>5 DEF KeepRows, ControlInv, CallsSound
  <2>8. PlanSound(store, q, left)
    BY <1>1, <1>5, RestOfPlan
  <2>9. /\ new.at = "writing" /\ new.request = q /\ new.gw = c.gw /\ new.plan = left
        /\ DOMAIN new = {"at", "gw", "request", "forced", "plan"}
    BY <1>1
  <2>10. CallSound(store, new)
    BY <1>1, <2>8, <2>9 DEF CallSound
  <2> QED BY <1>1, <1>3, <1>4, <2>1, <2>9, <2>10, CallGoesOn
<1>6. CASE Len(plan) = 1
  <2>1. /\ End(s) /\ granted' = granted \cup ({q} \cap SessionRequests)
    BY <1>1, <1>6 DEF KeepRows
  <2>2. /\ DOMAIN calls' = Slots
        /\ \A z \in Slots : calls'[z] = IF z = s THEN Idle ELSE calls[z]
    BY <2>1 DEF End, ControlInv, CallsSound
  <2>3. CallsSound'
    <3>1. \A z \in Slots : CallSound(store, calls'[z])
      BY <2>2, IdleSound DEF ControlInv, CallsSound
    <3> QED BY <1>3, <2>2, <3>1 DEF ControlInv, CallsSound
  <2>4. StoreSound'
    BY <1>3 DEF ControlInv, StoreSound
  <2>5. GrantsStand'
    <3>1. granted' \subseteq Requests
      BY <1>1, <2>1 DEF ControlInv, GrantsStand
    <3>2. ASSUME NEW p \in Registrations' PROVE p \in Registrations \/ (p = q /\ q.name = "register")
      BY <2>1 DEF Registrations
    <3>3. q.name = "register" => q.user \in Users /\ store[q.user] # NoRow /\ store[q.user].email = q.email
      <4> SUFFICES ASSUME q.name = "register"
                   PROVE  q.user \in Users /\ store[q.user] # NoRow /\ store[q.user].email = q.email
        OBVIOUS
      <4>1. PICK i \in DOMAIN rows : rows[i].id = q.user /\ rows[i].row.email = q.email
        BY <1>1, <1>6 DEF PlanSound, ShowsUser
      <4>2. Backed(store, q.user, rows[i].row) /\ q.user \in Users
        BY <1>1, <1>2, <4>1, ControlPlaneAssumption
      <4> QED BY <4>1, <4>2 DEF Backed
    <3>4. q.name = "register" => \A p \in Registrations : p.user # q.user
      BY <1>1 DEF ControlInv, GrantsStand
    <3>5. \A p \in Registrations' : store'[p.user] # NoRow /\ store'[p.user].email = p.email
      BY <1>3, <3>2, <3>3 DEF ControlInv, GrantsStand
    <3>6. \A p, r \in Registrations' : p.user = r.user => p = r
      BY <3>2, <3>4 DEF ControlInv, GrantsStand
    <3>7. ASSUME NEW z \in Slots, calls'[z] # Idle, calls'[z].request.name = "register", NEW p \in Registrations'
          PROVE  p.user # calls'[z].request.user
      <4>1. z # s /\ calls'[z] = calls[z]
        BY <2>2, <3>7
      <4>2. CASE p \in Registrations
        BY <3>7, <4>1, <4>2 DEF ControlInv, GrantsStand
      <4>3. CASE p = q /\ q.name = "register"
        <5>1. Makes(q) \cap Makes(calls[z].request) = {}
          BY <1>1, <3>7, <4>1 DEF ControlInv, CallsSound
        <5>2. q.user \in Makes(q) /\ calls[z].request.user \in Makes(calls[z].request)
          BY <3>7, <4>1, <4>3 DEF Makes
        <5> QED BY <4>1, <4>3, <5>1, <5>2
      <4> QED BY <3>2, <4>2, <4>3
    <3> QED BY <3>1, <3>5, <3>6, <3>7 DEF GrantsStand
  <2> QED BY <1>4, <2>3, <2>4, <2>5 DEF ControlInv
<1> QED BY <1>5, <1>6

----------------------------------------------------------------------------
(* Loads, and calls that arrive. *)

LEMMA LoadReadsKeeps ==
  ASSUME ControlInv, NEW g \in Gateways, NEW T \in Tables, LoadReads(g, T)
  PROVE  ControlInv'
<1> PICK read : read = [id \in DOMAIN load[g] \cup T |-> IF id \in T THEN store[id] ELSE load[g][id]]
  OBVIOUS
<1>1. load' = [load EXCEPT ![g] = read] /\ UNCHANGED <<store, mem, calls, granted>>
  BY DEF LoadReads
<1>2. CopyBacked(store, read)
  BY IdsOfTables DEF CopyBacked, ControlInv, StoreSound, CopiesBacked
<1>3. /\ DOMAIN load' = Gateways
      /\ \A x \in Gateways : load'[x] = IF x = g THEN read ELSE load[x]
  BY <1>1 DEF ControlInv, CopiesBacked
<1>4. CopiesBacked'
  BY <1>1, <1>2, <1>3 DEF ControlInv, CopiesBacked
<1>5. StoreSound' /\ CallsSound'
  BY <1>1 DEF ControlInv, StoreSound, CallsSound
<1>6. GrantsStand'
  BY <1>1 DEF ControlInv, GrantsStand, Registrations
<1> QED BY <1>4, <1>5, <1>6 DEF ControlInv

LEMMA CallsResume ==
  ASSUME ControlInv, NEW g, calls' = Resumed(g), UNCHANGED <<store, granted>>, CopiesBacked'
  PROVE  ControlInv'
<1>1. DOMAIN calls' = Slots
  BY DEF Resumed
<1>2. ASSUME NEW z \in Slots
      PROVE  /\ CallSound(store, calls'[z])
             /\ calls'[z] # Idle => calls[z] # Idle /\ calls'[z].request = calls[z].request
  <2> PICK c : c = calls[z]
    OBVIOUS
  <2> PICK new : new = [c EXCEPT !.at = "routed"]
    OBVIOUS
  <2>1. CallSound(store, c)
    BY DEF ControlInv, CallsSound
  <2>2. calls'[z] = IF c.at = "waiting" /\ c.gw = g THEN new ELSE c
    BY DEF Resumed
  <2>3. CASE calls'[z] = c
    BY <2>1, <2>3
  <2>4. CASE calls'[z] = new /\ c.at = "waiting"
    <3>1. c # Idle
      BY <2>4 DEF Idle
    <3>2. /\ DOMAIN new = {"at", "gw", "request", "forced"} /\ new.at = "routed"
          /\ new.gw = c.gw /\ new.request = c.request
      BY <2>1, <2>4, <3>1 DEF CallSound
    <3>3. CallSound(store, new)
      BY <2>1, <2>4, <3>1, <3>2 DEF CallSound
    <3> QED BY <2>4, <3>1, <3>2, <3>3
  <2> QED BY <2>2, <2>3, <2>4
<1>3. CallsSound'
  BY <1>1, <1>2 DEF ControlInv, CallsSound
<1>4. StoreSound'
  BY DEF ControlInv, StoreSound
<1>5. Keeps(store, store')
  BY DEF Keeps
<1>6. GrantsStand'
  BY <1>2, <1>5, GrantsStay DEF ControlInv
<1> QED BY <1>3, <1>4, <1>6 DEF ControlInv

LEMMA NothingRead == CopyBacked(store, NoLoad)
BY DEF CopyBacked, NoLoad

LEMMA LoadEndsKeeps ==
  ASSUME ControlInv, NEW g \in Gateways, LoadEnds(g)
  PROVE  ControlInv'
<1>1. /\ DOMAIN mem' = Gateways /\ DOMAIN load' = Gateways /\ DOMAIN load[g] = Ids
      /\ \A x \in Gateways : mem'[x] = IF x = g THEN load[g] ELSE mem[x]
      /\ \A x \in Gateways : load'[x] = IF x = g THEN NoLoad ELSE load[x]
      /\ calls' = Resumed(g) /\ UNCHANGED <<store, granted>>
  BY DEF LoadEnds, ControlInv, CopiesBacked
<1>2. \A x \in Gateways : /\ DOMAIN mem'[x] = Ids
                          /\ CopyBacked(store, mem'[x])
                          /\ CopyBacked(store, load'[x])
  BY <1>1, NothingRead DEF ControlInv, CopiesBacked
<1>3. CopiesBacked'
  BY <1>1, <1>2 DEF CopiesBacked
<1> QED BY <1>1, <1>3, CallsResume

LEMMA LoadFailsKeeps ==
  ASSUME ControlInv, NEW g \in Gateways, LoadFails(g)
  PROVE  ControlInv'
<1>1. /\ DOMAIN load' = Gateways
      /\ \A x \in Gateways : load'[x] = IF x = g THEN NoLoad ELSE load[x]
      /\ calls' = Resumed(g) /\ UNCHANGED <<store, mem, granted>>
  BY DEF LoadFails, ControlInv, CopiesBacked
<1>2. \A x \in Gateways : CopyBacked(store, load'[x])
  BY <1>1, NothingRead DEF ControlInv, CopiesBacked
<1>3. CopiesBacked'
  BY <1>1, <1>2 DEF ControlInv, CopiesBacked
<1> QED BY <1>1, <1>3, CallsResume

LEMMA ArriveKeeps ==
  ASSUME ControlInv, NEW s \in Slots, NEW g \in Gateways, NEW q \in Requests, NEW refresh \in BOOLEAN,
         Arrive(s, g, q, refresh)
  PROVE  ControlInv'
<1> PICK call : call = [at |-> "routed", gw |-> g, request |-> q, forced |-> FALSE]
  OBVIOUS
<1> PICK new : new = IF refresh THEN [call EXCEPT !.at = "waiting"] ELSE call
  OBVIOUS
<1>1. /\ DOMAIN new = {"at", "gw", "request", "forced"} /\ new.at \in {"routed", "waiting"}
      /\ new.gw = g /\ new.request = q
  OBVIOUS
<1>2. /\ calls[s] = Idle /\ calls' = [calls EXCEPT ![s] = new] /\ UNCHANGED <<store, mem, granted>>
      /\ load' = [load EXCEPT ![g] = IF @ = NoLoad THEN <<>> ELSE @] \/ UNCHANGED load
      /\ \A id \in Makes(q) : New(id)
  BY DEF Arrive, AwaitLoad
<1>3. /\ DOMAIN calls' = Slots
      /\ \A z \in Slots : calls'[z] = IF z = s THEN new ELSE calls[z]
  BY <1>2 DEF ControlInv, CallsSound
<1>4. /\ \A id \in Makes(q) : store[id] = NoRow
      /\ \A z \in Slots : calls[z] # Idle => Makes(q) \cap Makes(calls[z].request) = {}
  BY <1>2 DEF New
<1>5. CopiesBacked'
  BY <1>2, LoadIsAwaited, CopiesSame DEF ControlInv
<1>6. CallsSound'
  <2>1. CallSound(store, new)
    BY <1>1, <1>4 DEF CallSound
  <2>2. \A z \in Slots : CallSound(store, calls'[z])
    BY <1>3, <2>1 DEF ControlInv, CallsSound
  <2>3. ASSUME NEW x \in Slots, NEW z \in Slots, x # z, calls'[x] # Idle, calls'[z] # Idle
        PROVE  Makes(calls'[x].request) \cap Makes(calls'[z].request) = {}
    <3>1. CASE x = s
      BY <1>1, <1>3, <1>4, <2>3, <3>1
    <3>2. CASE z = s
      BY <1>1, <1>3, <1>4, <2>3, <3>2
    <3>3. CASE x # s /\ z # s
      BY <1>3, <2>3, <3>3 DEF ControlInv, CallsSound
    <3> QED BY <3>1, <3>2, <3>3
  <2>4. DOMAIN calls' = Slots /\ store' = store
    BY <1>2, <1>3
  <2> QED BY <2>2, <2>3, <2>4 DEF CallsSound
<1>7. StoreSound'
  BY <1>2 DEF ControlInv, StoreSound
<1>8. GrantsStand'
  <2>1. Registrations' = Registrations
    BY <1>2 DEF Registrations
  <2>2. q.name = "register" => \A p \in Registrations : p.user # q.user
    <3>1. q.name = "register" => store[q.user] = NoRow
      BY <1>4 DEF Makes
    <3> QED BY <3>1 DEF ControlInv, GrantsStand
  <2>3. \A z \in Slots : calls'[z] # Idle /\ calls'[z].request.name = "register" =>
          \A p \in Registrations : p.user # calls'[z].request.user
    BY <1>1, <1>3, <2>2 DEF ControlInv, GrantsStand
  <2> QED BY <1>2, <2>1, <2>3 DEF ControlInv, GrantsStand
<1> QED BY <1>5, <1>6, <1>7, <1>8 DEF ControlInv

----------------------------------------------------------------------------
LEMMA ControlStarts == Init => ControlInv
<1> SUFFICES ASSUME Init PROVE ControlInv
  OBVIOUS
<1>1. StoreSound
  BY IdsOfTables DEF Init, StoreSound
<1>2. CopiesBacked
  BY NothingRead DEF Init, CopiesBacked, CopyBacked
<1>3. CallsSound
  BY IdleSound DEF Init, CallsSound
<1>4. GrantsStand
  BY DEF Init, GrantsStand, Registrations
<1> QED BY <1>1, <1>2, <1>3, <1>4 DEF ControlInv

LEMMA ControlGoesOn == ControlInv /\ [Next]_vars => ControlInv'
<1> SUFFICES ASSUME ControlInv, [Next]_vars PROVE ControlInv'
  OBVIOUS
<1>1. ASSUME NEW s \in Slots, Step(s) PROVE ControlInv'
  <2>1. CASE ReadThrough(s) BY <2>1, ReadThroughKeeps
  <2>2. CASE Register(s) BY <2>2, RegisterKeeps
  <2>3. CASE Login(s) BY <2>3, LoginKeeps
  <2>4. CASE Me(s) BY <2>4, MeKeeps
  <2>5. CASE Logout(s) BY <2>5, LogoutKeeps
  <2>6. CASE CreateKey(s) \/ RotateKey(s) \/ RevokeKey(s) \/ UseKey(s) BY <2>6, KeysKeep
  <2>7. CASE IssueToken(s) BY <2>7, IssueTokenKeeps
  <2>8. CASE Exchange(s) BY <2>8, ExchangeKeeps
  <2>9. CASE UseAccess(s) BY <2>9, UseAccessKeeps
  <2>10. CASE Commit(s) BY <2>10, CommitKeeps
  <2>11. CASE WriteFails(s) BY <2>11, WriteFailsKeeps
  <2>12. CASE KeepRows(s) BY <2>12, KeepRowsKeeps
  <2> QED BY <1>1, <2>1, <2>2, <2>3, <2>4, <2>5, <2>6, <2>7, <2>8, <2>9, <2>10, <2>11, <2>12 DEF Step
<1>2. ASSUME NEW s \in Slots, NEW g \in Gateways, NEW q \in Requests, NEW refresh \in BOOLEAN,
             Arrive(s, g, q, refresh)
      PROVE  ControlInv'
  BY <1>2, ArriveKeeps
<1>3. ASSUME NEW g \in Gateways, NEW T \in Tables, LoadReads(g, T) PROVE ControlInv'
  BY <1>3, LoadReadsKeeps
<1>4. ASSUME NEW g \in Gateways, LoadEnds(g) \/ LoadFails(g) PROVE ControlInv'
  BY <1>4, LoadEndsKeeps, LoadFailsKeeps
<1>5. CASE UNCHANGED vars
  <2>1. StoreSound' /\ CallsSound'
    BY <1>5 DEF ControlInv, StoreSound, CallsSound, vars
  <2>2. CopiesBacked'
    BY <1>5 DEF ControlInv, CopiesBacked, vars
  <2>3. GrantsStand'
    BY <1>5 DEF ControlInv, GrantsStand, Registrations, vars
  <2> QED BY <2>1, <2>2, <2>3 DEF ControlInv
<1> QED BY <1>1, <1>2, <1>3, <1>4, <1>5 DEF Next

LEMMA ControlHolds == Spec => []ControlInv
BY ControlStarts, ControlGoesOn, PTL DEF Spec

(* However calls overlap, wherever they go, whatever writes and loads fail: of
   the clients that register under one address (control-plane-routes.js,
   register) one at most is told that it did, and no two rows hold the address,
   in the store or in a copy. *)
THEOREM OneUserEach == Spec => []OneUserPerEmail
<1>1. ControlInv => OneUserPerEmail
  <2> SUFFICES ASSUME ControlInv PROVE OneUserPerEmail
    OBVIOUS
  <2>1. ASSUME NEW p \in Registrations, NEW q \in Registrations, p.email = q.email PROVE p = q
    <3>1. /\ p.user \in Users /\ store[p.user] # NoRow /\ store[p.user].email = p.email
          /\ q.user \in Users /\ store[q.user] # NoRow /\ store[q.user].email = q.email
      BY ControlPlaneAssumption DEF ControlInv, GrantsStand, Registrations
    <3>2. p.user = q.user
      BY <2>1, <3>1 DEF ControlInv, StoreSound
    <3> QED BY <3>2 DEF ControlInv, GrantsStand
  <2>2. ASSUME NEW u \in Users, NEW v \in Users, NEW g \in Gateways, u # v
        PROVE  /\ store[u] # NoRow /\ store[v] # NoRow => store[u].email # store[v].email
               /\ mem[g][u] # NoRow /\ mem[g][v] # NoRow => mem[g][u].email # mem[g][v].email
    <3>1. store[u] # NoRow /\ store[v] # NoRow => store[u].email # store[v].email
      BY <2>2 DEF ControlInv, StoreSound
    <3>2. \A x \in Users : mem[g][x] # NoRow => store[x] # NoRow /\ mem[g][x].email = store[x].email
      BY IdsOfTables DEF ControlInv, CopiesBacked, CopyBacked, Backed
    <3> QED BY <3>1, <3>2
  <2> QED BY <2>1, <2>2 DEF OneUserPerEmail, Registrations
<1> QED BY <1>1, ControlHolds, PTL

(* The store never holds an access token whose integration token it would still
   let be exchanged (control-plane-routes.js, token-exchange), whichever of the two writes fails and
   whatever old row another call writes back. *)
THEOREM SourcesSpent == Spec => []SourceSpentFirst
<1>1. ControlInv => SourceSpentFirst
  BY IdsOfTables DEF ControlInv, StoreSound, Backed, Spent, SourceSpentFirst
<1> QED BY <1>1, ControlHolds, PTL
=============================================================================
