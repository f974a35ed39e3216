-------------------------------- MODULE MCAds --------------------------------
(***************************************************************************)
(* How an ad is found, how clients ask for it and what its clicks bring    *)
(* in, for TLC.  A behaviour is about one of these: the ad of one          *)
(* placement, chosen among three offers; a chat turn of the SDK; a call of *)
(* the contracts client; the clicks c1, c2 and c3, where c1 and c2 report  *)
(* one ad and c3 another of the same actor, on a process that enforces the *)
(* risk rules, until the windows have passed; or the postbacks p1 and p2   *)
(* of one conversion with a click, on that process and one that enforces   *)
(* budgets.                                                                *)
(***************************************************************************)
EXTENDS ClickRevenue, OfferSelection, SdkFlow

CONSTANTS c1, c2, c3, p1, p2, i1, i2, t1, j1

MCAdOf == [c \in Clicks |-> IF c = c3 THEN "ad2" ELSE "ad1"]
MCActorOf == [c \in Clicks |-> "actor"]
MCKeyOf == [p \in Postbacks |-> "success"]
OnFirst == [i \in Instances |-> i = i1]
OnSecond == [i \in Instances |-> i = i2]

----------------------------------------------------------------------------
(* Offers that pass the strict gate, a rival that bids more, one of another
   family that is as relevant as the relaxed gate wants, one of the family
   that is, one from a template, one below the floor and one of a third network. *)
Fit == [network |-> "house", lexical |-> 40, vector |-> 50, family |-> "tech", overlap |-> 10,
        support |-> 50, merit |-> 40, bid |-> 10, synthetic |-> FALSE, campaign |-> TRUE]
Rival == [Fit EXCEPT !.bid = 30]
Odd == [Fit EXCEPT !.family = "travel", !.bid = 40, !.network = "cj"]
Fair == [Fit EXCEPT !.support = 25, !.lexical = 20, !.campaign = FALSE]
Template == [Fit EXCEPT !.synthetic = TRUE, !.lexical = 0]
Weak == [Fit EXCEPT !.merit = 0, !.lexical = 0, !.vector = 10, !.bid = 40]
Partner == [Fit EXCEPT !.network = "partnerstack", !.bid = 2]
MCProfiles == {Fit, Rival, Odd, Fair, Template, Weak, Partner}

Ask == [enabled |-> TRUE, permitted |-> TRUE, bidders |-> {}, house |-> FALSE,
        target |-> "tech", locked |-> FALSE,
        policy |-> [on |-> TRUE, mode |-> "enforce", percent |-> 100, bucket |-> 50],
        relaxes |-> TRUE, budgets |-> "on", risk |-> TRUE, store |-> TRUE,
        allowed |-> {"house", "cj"}]
MCRequested ==
  { Ask, [Ask EXCEPT !.enabled = FALSE], [Ask EXCEPT !.permitted = FALSE],
    [Ask EXCEPT !.bidders = {"cj"}], [Ask EXCEPT !.bidders = {"cj"}, !.house = TRUE],
    [Ask EXCEPT !.bidders = {"partnerstack"}], [Ask EXCEPT !.target = "general"],
    [Ask EXCEPT !.locked = TRUE, !.relaxes = FALSE],
    [Ask EXCEPT !.policy.on = FALSE],
    [Ask EXCEPT !.policy.on = FALSE, !.allowed = {"house"}], [Ask EXCEPT !.allowed = {"house", "cj", "partnerstack"}], [Ask EXCEPT !.policy.percent = 20],
    [Ask EXCEPT !.policy.mode = "observe", !.budgets = "off", !.risk = FALSE],
    [Ask EXCEPT !.budgets = "monitor_only"], [Ask EXCEPT !.store = FALSE] }

NoOffers ==
  /\ trait = [o \in Inventory |-> Fit] /\ active = {} /\ wanted = Ask
  /\ selecting = "done" /\ hits = <<>> /\ ranked = <<>> /\ position = 1
  /\ passed = [o \in Inventory |-> "no"] /\ chosen = <<>> /\ reason = "none"

----------------------------------------------------------------------------
\* Turns that differ from an ordinary one in one argument, and the calls of the
\* contracts client, one of each kind that is good and some that are refused.
Impression == [conversion |-> FALSE, card |-> FALSE, complete |-> TRUE, kind |-> "impression"]
Dismissal == [Impression EXCEPT !.kind = "dismiss"]
Key == [kind |-> "key", placement |-> "any", scopes |-> {}]
Token == [kind |-> "access", placement |-> "any", scopes |-> {"mediationConfigRead", "sdkEvaluate"}]
Usual == [fast |-> TRUE, chat |-> TRUE, payload |-> TRUE, ids |-> TRUE, messages |-> TRUE,
          placement |-> "here", failOpen |-> TRUE, factory |-> "object", renders |-> "yes",
          who |-> Key, event |-> Impression]
MCInputs ==
  { Usual, [Usual EXCEPT !.fast = FALSE], [Usual EXCEPT !.chat = FALSE],
    [Usual EXCEPT !.payload = FALSE], [Usual EXCEPT !.messages = FALSE],
    [Usual EXCEPT !.ids = FALSE], [Usual EXCEPT !.failOpen = FALSE],
    [Usual EXCEPT !.factory = "none"], [Usual EXCEPT !.factory = "throws"],
    [Usual EXCEPT !.factory = "scalar"], [Usual EXCEPT !.renders = "no"],
    [Usual EXCEPT !.renders = "throws"], [Usual EXCEPT !.placement = "gone"],
    [Usual EXCEPT !.who.kind = "none"], [Usual EXCEPT !.who.placement = "here"],
    [Usual EXCEPT !.who.placement = "there"], [Usual EXCEPT !.who = Token],
    [Usual EXCEPT !.event = Dismissal],
    [Usual EXCEPT !.event = [Dismissal EXCEPT !.card = TRUE]] }
Bid == [route |-> "bid", placement |-> "any", who |-> Key, valid |-> TRUE, event |-> Impression]
MCOrders ==
  { Bid, [Bid EXCEPT !.placement = "here"], [Bid EXCEPT !.valid = FALSE], [Bid EXCEPT !.who = Token],
    [Bid EXCEPT !.route = "config", !.placement = "here"], [Bid EXCEPT !.route = "event"],
    [Bid EXCEPT !.route = "event", !.event.conversion = TRUE, !.event.kind = "conversion"],
    [Bid EXCEPT !.route = "key"], [Bid EXCEPT !.route = "exchange"] }

NoTurns == turn = [t \in Turns |-> [Fresh EXCEPT !.at = "done"]] /\ input = [t \in Turns |-> Usual]
NoJobs == job = [j \in Jobs |-> [at |-> "failed", n |-> 0]] /\ order = [j \in Jobs |-> Bid]
NoServer == chat = [t \in Turns |-> TRUE] /\ on = {} /\ toggles = MaxToggles

----------------------------------------------------------------------------
VARIABLE about

MCInit ==
  /\ about \in {"offers", "turns", "jobs", "clicks", "postbacks"}
  /\ Init
  /\ about \notin {"clicks", "postbacks"} => \A i \in Instances : decisions[i] = {}
  /\ about = "clicks" => decisions[i2] = {}
  /\ about = "postbacks" => \A i \in Instances : "ad2" \notin decisions[i]
  /\ IF about = "offers"
     THEN /\ SelectInit /\ active = Inventory
          /\ \A o \in Inventory : \E p \in {Fit, Fair, Odd} : trait[o] = p \/ o > 1
          /\ \A o \in Inventory : trait[o] \in {Template, Weak, Partner} => o = 3
     ELSE NoOffers
  /\ wire = <<>> /\ served = {} /\ logged = {} /\ made = {}
  /\ IF about = "turns" THEN TurnsInit ELSE NoTurns
  /\ IF about = "jobs" THEN JobsInit ELSE NoJobs
  /\ IF about \in {"turns", "jobs"} THEN DashboardInit ELSE NoServer

Busy == {c \in Calls : call'[c].at # "idle"}
MCNext ==
  /\ UNCHANGED about
  /\ \/ about = "offers" /\ SelectNext /\ UNCHANGED <<vars, sdkVars>>
     \/ about \in {"turns", "jobs"} /\ SdkNext /\ UNCHANGED <<vars, selectVars>>
     \/ about \in {"clicks", "postbacks"} /\ Next /\ UNCHANGED <<selectVars, sdkVars>>
  /\ about = "clicks" =>
       Busy \subseteq Clicks /\ (\A c \in Busy : call'[c].on = i1) /\ life'[i2] = 1
  /\ about = "postbacks" => Busy \subseteq Postbacks \cup {c1} /\ now' <= 2

MCSpec == MCInit /\ [][MCNext]_<<vars, selectVars, sdkVars, about>> /\ SdkFairness
=============================================================================
