---------------------------- MODULE MCControlPlane ----------------------------
(***************************************************************************)
(* The control plane for TLC: users and sessions, keys, or the tokens      *)
(* issued under a key.                                                     *)
(***************************************************************************)
EXTENDS ControlPlane

VARIABLE about  \* what the clients of a behaviour are about

RequestsAbout ==
  [users |->
     [name : {"register"}, email : {"e"}, user : Users, session : Sessions]
     \cup [name : {"login"}, email : {"e"}, session : Sessions]
     \cup [name : {"me", "logout"}, session : Sessions],
   keys |->
     [name : {"createKey", "rotateKey", "revokeKey"}, key : Keys]
     \cup [name : {"useKey"}, key : Keys, secret : {2}]
     \cup [name : {"issue"}, token : Tokens],
   tokens |->
     [name : {"issue"}, token : Tokens]
     \cup [name : {"exchange"}, token : Tokens, access : Accesses]
     \cup [name : {"useAccess"}, access : {"a1"}]]
MCRequests == UNION {RequestsAbout[a] : a \in DOMAIN RequestsAbout}

\* Tokens are issued under a key that is there.
MCInit ==
  /\ about \in DOMAIN RequestsAbout
  /\ store = [id \in Ids |-> IF about = "tokens" /\ id \in Keys THEN [status |-> "active", secret |-> 1]
                             ELSE NoRow]
  /\ mem = [g \in Gateways |-> store]
  /\ load = [g \in Gateways |-> NoLoad]
  /\ calls = [s \in Slots |-> Idle]
  /\ failures = 0 /\ granted = {}
  /\ lastSeen = [x \in Sessions |-> "unused"]

\* Tables that nobody writes in a behaviour are read first: when does not matter.
Still ==
  CASE about = "users" -> {Keys, Tokens, Accesses}
    [] about = "keys" -> {Users, Sessions, Accesses}
    [] about = "tokens" -> {Users, Sessions, Keys}
StillUnread(g) == {T \in Still : load[g] # NoLoad /\ T \cap DOMAIN load[g] = {}}

MCNext ==
  /\ UNCHANGED about
  /\ IF \E g \in Gateways : StillUnread(g) # {}
     THEN LET g == CHOOSE h \in Gateways : StillUnread(h) # {}
          IN  LoadReads(g, CHOOSE T \in StillUnread(g) : TRUE)
     ELSE Next
  /\ \A s \in Slots : calls'[s] # Idle => calls'[s].request \in RequestsAbout[about]
MCSpec == MCInit /\ [][MCNext]_<<vars, about>> /\ Fairness
=============================================================================
