-------------------------- MODULE AdapterRegistry --------------------------
(***************************************************************************)
(* Module D's register of source adapters (supply-routing/                 *)
(* adapter-registry.js): the entry and the life cycle of each source, and  *)
(* the start and stop calls that are waiting for the adapter.  The map     *)
(* holds record objects, so a start or stop that was called before the     *)
(* source was removed and registered again writes to the old object: `gen` *)
(* numbers the objects of a source.  A source declares the same placement  *)
(* types whenever it is registered.                                        *)
(***************************************************************************)
EXTENDS Naturals, FiniteSets

CONSTANTS Sources,                  \* the source ids
          SupportedPlacementTypes,  \* source -> the placement types it declares
          MaxChanges                \* how many operator calls one behaviour makes

VARIABLES entry,        \* source -> [status, life, gen], or an absent one
          lifecycle,    \* the pending start and stop calls
          changes       \* operator calls made so far

registryVars == <<entry, lifecycle, changes>>

Statuses == {"active", "paused", "draining", "disabled"}
Absent(g) == [status |-> "absent", life |-> "absent", gen |-> g]

RegistryInit ==
  /\ entry = [s \in Sources |-> [status |-> "active", life |-> "running", gen |-> 1]]
  /\ lifecycle = {}
  /\ changes = 0

Registered(s) == entry[s].status # "absent"

Operator == changes < MaxChanges /\ changes' = changes + 1

RegisterAdapter(s, status) ==
  /\ Operator
  /\ ~Registered(s)
  /\ entry' = [entry EXCEPT ![s] = [status |-> status, life |-> "running", gen |-> @.gen + 1]]
  /\ UNCHANGED lifecycle

UnregisterAdapter(s) ==
  /\ Operator
  /\ Registered(s)
  /\ entry' = [entry EXCEPT ![s] = Absent(@.gen)]
  /\ UNCHANGED lifecycle

UpdateAdapterStatus(s, status) ==
  /\ Operator
  /\ Registered(s)
  /\ entry' = [entry EXCEPT ![s].status = status]
  /\ UNCHANGED lifecycle

\* start and stop read the record, then wait for the adapter.
CallLifecycle(s, goal) ==
  /\ Operator
  /\ Registered(s)
  /\ lifecycle' = lifecycle \cup {[source |-> s, goal |-> goal, gen |-> entry[s].gen]}
  /\ UNCHANGED entry

\* The adapter answers: the record it was called for takes the new state.
AdapterStarted(call) ==
  /\ call \in lifecycle /\ call.goal = "running"
  /\ lifecycle' = lifecycle \ {call}
  /\ entry' = IF Registered(call.source) /\ entry[call.source].gen = call.gen
              THEN [entry EXCEPT ![call.source].life = "running"] ELSE entry
  /\ UNCHANGED changes

\* Fault: the answer is written to whatever is registered under the id.
StoppedById(call) ==
  /\ call \in lifecycle /\ call.goal = "stopped"
  /\ lifecycle' = lifecycle \ {call}
  /\ entry' = IF Registered(call.source)
              THEN [entry EXCEPT ![call.source].life = "stopped"] ELSE entry
  /\ UNCHANGED changes

AdapterStopped(call) ==
  /\ call \in lifecycle /\ call.goal = "stopped"
  /\ lifecycle' = lifecycle \ {call}
  /\ entry' = IF Registered(call.source) /\ entry[call.source].gen = call.gen
              THEN [entry EXCEPT ![call.source].life = "stopped"] ELSE entry
  /\ UNCHANGED changes

\* The adapter throws: the call reports it and changes nothing.
LifecycleFailed(call) ==
  /\ call \in lifecycle
  /\ lifecycle' = lifecycle \ {call}
  /\ UNCHANGED <<entry, changes>>

\* A request that states no placement type, "", is for every source.
Supports(s, placementType) == placementType = "" \/ placementType \in SupportedPlacementTypes[s]

Routable(s, placementType) ==
  entry[s].status = "active" /\ entry[s].life # "stopped" /\ Supports(s, placementType)

ListRoutableAdapters(placementType) == {s \in Sources : Routable(s, placementType)}

RegistryNext ==
  \/ \E s \in Sources :
       \/ \E status \in Statuses : RegisterAdapter(s, status) \/ UpdateAdapterStatus(s, status)
       \/ UnregisterAdapter(s)
       \/ \E goal \in {"running", "stopped"} : CallLifecycle(s, goal)
  \/ \E call \in lifecycle : AdapterStarted(call) \/ AdapterStopped(call) \/ LifecycleFailed(call)
=============================================================================
