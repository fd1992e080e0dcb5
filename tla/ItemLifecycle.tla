---------------------------- MODULE ItemLifecycle ----------------------------
(***************************************************************************)
(* One item of the ledger as its readers may think of it: captured once,   *)
(* then changed by whole mutations, each of which appends the events it    *)
(* caused to an audit trail.  The stored ledger implements this machine    *)
(* for every item, within one generation.                                  *)
(***************************************************************************)
EXTENDS Domain

CONSTANT Mutations      \* the mutations callers may ask for

ASSUME MutationsAssumption == Mutations \subseteq Mutation

VARIABLES
    item,   \* the current item, None before capture
    trail   \* one entry per effective operation: its revision and its events

vars == <<item, trail>>

Init == item = None /\ trail = << >>

Capture(content) ==
    /\ item = None
    /\ item' = NewItem(content)
    /\ trail' = <<[revision |-> 1, events |-> <<Change("captured", None, None)>>]>>

(* A rejected mutation and a no-op leave everything as it was. *)
Apply(m) ==
    /\ item # None
    /\ MutationError(item, m) = None
    /\ EventsOf(item, m) # << >>
    /\ item.revision < MaxI64
    /\ item' = Mutated(item, m)
    /\ trail' = Append(trail, [revision |-> item'.revision, events |-> EventsOf(item, m)])

Next ==
    \/ \E content \in Contents : Capture(content)
    \/ \E m \in Mutations : Apply(m)

Spec == Init /\ [][Next]_vars

-----------------------------------------------------------------------------
(* Reading the trail back. *)

TypesAt(n) == {trail[n].events[i].type : i \in 1..Len(trail[n].events)}

(* The last value an event of one of `types` left behind, `default` if none did. *)
LastValue(types, default) ==
    LET touches == {n \in 1..Len(trail) : TypesAt(n) \cap types # {}}
        last == CHOOSE n \in touches : \A k \in touches : k <= n
        events == trail[last].events
        i == CHOOSE i \in 1..Len(events) : events[i].type \in types
    IN  IF touches = {} THEN default ELSE events[i].after

LifecycleEvents == {LifecycleEvent[op] : op \in LifecycleOps}

TypeOK ==
    /\ item \in Item \cup {None}
    /\ \A n \in 1..Len(trail) : trail[n].revision \in 1..MaxI64

(* The audit trail alone tells the current status, priority, assignee and  *)
(* revision: no change of an item escapes its history, whatever sequence   *)
(* of compound mutations produced it.                                      *)
TrailReconstructsItem ==
    item # None =>
        /\ item.status = LastValue(LifecycleEvents, "proposed")
        /\ item.priority = LastValue({"priority_changed"}, None)
        /\ item.assignee = LastValue({"assignee_changed"}, None)
        /\ item.revision = Len(trail)
        /\ \A n \in 1..Len(trail) : trail[n].revision = n /\ trail[n].events # << >>

(* A reason is on record exactly while the item is blocked or rejected:    *)
(* resuming or finishing an item never leaves the old reason behind.       *)
ReasonWhileStopped ==
    item # None => (item.status_reason # None <=> item.status \in {"blocked", "rejected"})

(* Once done or rejected an item keeps status, priority and assignee for   *)
(* ever; only notes may still be added.                                    *)
TerminalFrozen ==
    [][item # None /\ item.status \in Terminal =>
          /\ <<item'.status, item'.priority, item'.assignee>>
               = <<item.status, item.priority, item.assignee>>
          /\ item' # item => TypesAt(Len(trail))' = {"note_added"}]_vars
=============================================================================
