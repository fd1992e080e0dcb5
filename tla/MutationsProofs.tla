--------------------------- MODULE MutationsProofs ---------------------------
(***************************************************************************)
(* Mutations for every set of values, requests and hosts.  First one item: *)
(* its type, the reason on record, the numbering of the audit trail, the   *)
(* freezing of terminal items, and that the trail tells the item.  Then    *)
(* the calls that ask for mutations: how the surfaces read them, what is   *)
(* authorized, and what the store keeps of an effect.                      *)
(***************************************************************************)
EXTENDS Mutations, DomainProofs

Entry == [revision : 1..MaxI64, events : Seq(Event)]

(* An item exists exactly when it has a trail, and counts it.              *)
TrailCounted ==
    /\ item = None => trail = << >>
    /\ item # None => item.revision = Len(trail)
    /\ \A n \in 1..Len(trail) : trail[n].revision = n

IInv ==
    /\ item \in Item \cup {None}
    /\ trail \in Seq(Entry)
    /\ TrailCounted
    /\ ReasonWhileStopped

LEMMA InitInvariant == Init => IInv
BY DEF Init, IInv, TrailCounted, ReasonWhileStopped

LEMMA CaptureInvariant ==
    ASSUME IInv, NEW content \in Contents, Capture(content)
    PROVE  IInv'
<1> DEFINE entry == [revision |-> 1, events |-> <<Change("captured", None, None)>>]
<1>1. item' = NewItem(content) /\ trail' = <<entry>>
  BY DEF Capture
<1>2. Change("captured", None, None) \in Event
  BY DEF Change, Event, EventTypes, EventValues
<1>3. 1 \in 1..MaxI64
  BY DomainAssumption
<1>4. entry \in Entry
  BY <1>2, <1>3 DEF Entry
<1>5. item' \in Item /\ item' # None
  BY <1>1, NewItemType, DomainAssumption
<1>6. trail' \in Seq(Entry) /\ Len(trail') = 1 /\ trail'[1].revision = 1
  BY <1>1, <1>4
<1>7. TrailCounted'
  BY <1>1, <1>5, <1>6, NewItemType DEF TrailCounted
<1>8. ReasonWhileStopped'
  BY <1>1, <1>5, NewItemType DEF ReasonWhileStopped
<1>9. QED BY <1>5, <1>6, <1>7, <1>8 DEF IInv

LEMMA ApplyInvariant ==
    ASSUME IInv, NEW m \in Mutations, Apply(m)
    PROVE  IInv'
<1> DEFINE entry == [revision |-> item'.revision, events |-> EventsOf(item, m)]
<1>1. /\ item \in Item /\ item # None /\ m \in Mutation
      /\ MutationError(item, m) = None /\ item.revision < MaxI64
      /\ item' = Mutated(item, m)
      /\ trail' = Append(trail, entry)
  BY MutationsAssumption DEF IInv, Apply
<1>2. /\ item' \in Item
      /\ item'.revision = item.revision + 1
  BY <1>1, MutatedFacts
<1>3. item' # None
  BY <1>2, DomainAssumption
<1>4. ReasonWhileStopped'
  BY <1>1, MutatedFacts DEF IInv, ReasonWhileStopped
<1>5. entry \in Entry /\ entry.revision = item'.revision
  BY <1>1, <1>2, EventsType DEF Entry, Item
<1> HIDE DEF entry
<1>6. trail \in Seq(Entry) /\ trail' \in Seq(Entry)
  BY <1>1, <1>5 DEF IInv
<1>7. /\ Len(trail') = Len(trail) + 1
      /\ trail'[Len(trail) + 1] = entry
      /\ \A n \in 1..Len(trail) : trail'[n] = trail[n]
  BY <1>1, <1>5, <1>6
<1>8. item.revision = Len(trail) /\ \A n \in 1..Len(trail) : trail[n].revision = n
  BY <1>1 DEF IInv, TrailCounted
<1>9. TrailCounted'
  <2>1. \A n \in 1..Len(trail') : trail'[n].revision = n
    BY <1>2, <1>5, <1>6, <1>7, <1>8
  <2>2. QED BY <2>1, <1>2, <1>3, <1>7, <1>8 DEF TrailCounted
<1>10. QED BY <1>2, <1>4, <1>6, <1>9 DEF IInv

LEMMA StepInvariant == IInv /\ [Next]_vars => IInv'
<1> SUFFICES ASSUME IInv, [Next]_vars PROVE IInv'
  OBVIOUS
<1>1. ASSUME NEW content \in Contents, Capture(content) PROVE IInv'
  BY <1>1, CaptureInvariant
<1>2. ASSUME NEW m \in Mutations, Apply(m) PROVE IInv'
  BY <1>2, ApplyInvariant
<1>3. CASE UNCHANGED vars
  BY <1>3 DEF vars, IInv, TrailCounted, ReasonWhileStopped
<1>4. QED BY <1>1, <1>2, <1>3 DEF Next

THEOREM Invariant == Spec => []IInv
<1>1. QED BY InitInvariant, StepInvariant, PTL DEF Spec

(* Every reachable item and trail is well typed (apply_mutation and the    *)
(* revision ceiling in domain.rs and storage.rs).                          *)
THEOREM ItemTypes == Spec => []TypeOK
<1>1. IInv => TypeOK
  <2>1. IInv => \A n \in 1..Len(trail) : trail[n] \in Entry
    BY DEF IInv
  <2>2. QED BY <2>1 DEF IInv, TypeOK, Entry
<1>2. QED BY Invariant, <1>1, PTL

(* A reason is on record exactly while the item is blocked or rejected     *)
(* (transition and transition_with_required_reason of domain.rs).          *)
THEOREM ReasonOnRecord == Spec => []ReasonWhileStopped
<1>1. IInv => ReasonWhileStopped
  BY DEF IInv
<1>2. QED BY Invariant, <1>1, PTL

-----------------------------------------------------------------------------
(* What one accepted mutation does to a terminal item.                     *)
LEMMA ApplyFrozen ==
    ASSUME IInv, NEW m \in Mutations, Apply(m), item.status \in Terminal
    PROVE  /\ item'.status = item.status
           /\ item'.priority = item.priority
           /\ item'.assignee = item.assignee
           /\ TypesAt(Len(trail))' = {"note_added"}
<1> DEFINE note == Change("note_added", None, m.note)
           entry == [revision |-> item'.revision, events |-> EventsOf(item, m)]
<1>1. /\ item \in Item /\ m \in Mutation
      /\ MutationError(item, m) = None /\ item.revision < MaxI64
      /\ EventsOf(item, m) # << >>
      /\ item' = Mutated(item, m)
      /\ trail' = Append(trail, entry)
      /\ trail \in Seq(Entry)
  BY MutationsAssumption DEF IInv, Apply
<1>2. /\ item'.status = item.status
      /\ item'.priority = item.priority
      /\ item'.assignee = item.assignee
  BY <1>1, MutatedFacts, TerminalAcceptsNotesOnly
<1>3. EventsOf(item, m) = <<note>> /\ note.type = "note_added"
  BY <1>1, TerminalAcceptsNotesOnly DEF Change
<1>4. trail'[Len(trail')].events = <<note>>
  BY <1>1, <1>3
<1>5. TypesAt(Len(trail))' = {note.type}
  BY <1>4 DEF TypesAt
<1>6. QED BY <1>2, <1>3, <1>5

(* Once done or rejected an item keeps status, priority and assignee for   *)
(* ever (the terminal check of apply_mutation).                            *)
THEOREM TerminalItemsFrozen == Spec => TerminalFrozen
<1>1. ASSUME IInv, [Next]_vars
      PROVE  [item # None /\ item.status \in Terminal =>
                 /\ <<item'.status, item'.priority, item'.assignee>>
                      = <<item.status, item.priority, item.assignee>>
                 /\ item' # item => TypesAt(Len(trail))' = {"note_added"}]_vars
  <2>1. ASSUME NEW content \in Contents, Capture(content) PROVE item = None
    BY <2>1 DEF Capture
  <2>2. ASSUME NEW m \in Mutations, Apply(m), item.status \in Terminal
        PROVE  /\ <<item'.status, item'.priority, item'.assignee>>
                    = <<item.status, item.priority, item.assignee>>
               /\ TypesAt(Len(trail))' = {"note_added"}
    BY <1>1, <2>2, ApplyFrozen
  <2>3. QED BY <1>1, <2>1, <2>2 DEF Next
<1>2. QED BY Invariant, <1>1, PTL DEF Spec, TerminalFrozen

-----------------------------------------------------------------------------
(* Reading the trail back.                                                  *)

Touches(types, events) == \E e \in EventSet(events) : e.type \in types

(* Events that leave a field at `new`, or say nothing of it and it is still *)
(* `old`.                                                                   *)
Leaves(events, types, old, new) ==
    IF Touches(types, events)
    THEN \A e \in EventSet(events) : e.type \in types => e.after = new
    ELSE new = old

(* An entry that touches a field leaves its value; one that does not leaves *)
(* the field as it was.                                                     *)
LEMMA EventsTell ==
    ASSUME NEW old \in Item, NEW m \in Mutation,
           MutationError(old, m) = None, old.revision < MaxI64
    PROVE  LET new == Mutated(old, m)
               events == EventsOf(old, m)
           IN  /\ Leaves(events, LifecycleEvents, old.status, new.status)
               /\ Leaves(events, {"priority_changed"}, old.priority, new.priority)
               /\ Leaves(events, {"assignee_changed"}, old.assignee, new.assignee)
<1> DEFINE p == Resolve(m.priority, old.priority)
           a == Resolve(m.assignee, old.assignee)
           told == EventSet(EventsOf(old, m))
           new == Mutated(old, m)
           S == IF m.lifecycle = None THEN {}
                ELSE {Change(LifecycleEvent[m.lifecycle], old.status, To[m.lifecycle])}
           P == IF m.triage /\ old.priority # p THEN {Change("priority_changed", old.priority, p)} ELSE {}
           A == IF m.triage /\ old.assignee # a THEN {Change("assignee_changed", old.assignee, a)} ELSE {}
           N == IF m.triage /\ None # m.note THEN {Change("note_added", None, m.note)} ELSE {}
<1>1. told = S \cup P \cup A \cup N
  BY MutationEvents
<1>2. LifecycleEvents \cap {"priority_changed", "assignee_changed", "note_added"} = {}
  BY DEF LifecycleEvents, LifecycleEvent, LifecycleOps
<1>3. m.lifecycle # None => LifecycleEvent[m.lifecycle] \in LifecycleEvents
  BY DEF LifecycleEvents, Mutation
<1>4. /\ new.status = IF m.lifecycle = None THEN old.status ELSE To[m.lifecycle]
      /\ new.priority = IF m.triage THEN p ELSE old.priority
      /\ new.assignee = IF m.triage THEN a ELSE old.assignee
  <2> DEFINE mid == AfterLifecycle(old, m)
  <2>1. /\ mid \in Item /\ mid.priority = old.priority /\ mid.assignee = old.assignee
        /\ mid.status = IF m.lifecycle = None THEN old.status ELSE To[m.lifecycle]
    <3>1. ~MissingReason(m)
      BY AcceptedMutation
    <3>2. mid.status = IF m.lifecycle = None THEN old.status ELSE To[m.lifecycle]
      BY DEF AfterLifecycle, Item
    <3>3. QED BY <3>1, <3>2, AfterLifecycleFacts
  <2> HIDE DEF mid
  <2>2. AfterTriage(mid, m).status = mid.status
    BY <2>1, AfterTriageFacts
  <2>3. /\ AfterTriage(mid, m).priority = IF m.triage THEN p ELSE old.priority
        /\ AfterTriage(mid, m).assignee = IF m.triage THEN a ELSE old.assignee
    BY <2>1 DEF AfterTriage, Item
  <2>4. Planned(old, m) = AfterTriage(mid, m)
    BY DEF Planned, mid
  <2>5. QED BY <2>1, <2>2, <2>3, <2>4, MutatedFacts
<1> HIDE DEF told, new, p, a
<1>5. /\ \A e \in S : e.type \in LifecycleEvents /\ e.after = new.status
      /\ S = {} => new.status = old.status
  <2>1. CASE m.lifecycle = None
    BY <1>4, <2>1
  <2>2. CASE m.lifecycle # None
    <3> DEFINE e == Change(LifecycleEvent[m.lifecycle], old.status, To[m.lifecycle])
    <3>1. e.type \in LifecycleEvents /\ e.after = new.status
      BY <1>3, <1>4, <2>2 DEF Change
    <3>2. S = {e}
      BY <2>2
    <3> HIDE DEF e, S
    <3>3. QED BY <3>1, <3>2
  <2>3. QED BY <2>1, <2>2
<1>6. /\ \A e \in P : e.type = "priority_changed" /\ e.after = new.priority
      /\ P = {} => new.priority = old.priority
  <2>1. CASE m.triage /\ old.priority # p
    <3> DEFINE e == Change("priority_changed", old.priority, p)
    <3>1. e.type = "priority_changed" /\ e.after = new.priority
      BY <1>4, <2>1 DEF Change
    <3>2. P = {e}
      BY <2>1
    <3> HIDE DEF e, P
    <3>3. QED BY <3>1, <3>2
  <2>2. CASE ~(m.triage /\ old.priority # p)
    BY <1>4, <2>2
  <2>3. QED BY <2>1, <2>2
<1>7. /\ \A e \in A : e.type = "assignee_changed" /\ e.after = new.assignee
      /\ A = {} => new.assignee = old.assignee
  <2>1. CASE m.triage /\ old.assignee # a
    <3> DEFINE e == Change("assignee_changed", old.assignee, a)
    <3>1. e.type = "assignee_changed" /\ e.after = new.assignee
      BY <1>4, <2>1 DEF Change
    <3>2. A = {e}
      BY <2>1
    <3> HIDE DEF e, A
    <3>3. QED BY <3>1, <3>2
  <2>2. CASE ~(m.triage /\ old.assignee # a)
    BY <1>4, <2>2
  <2>3. QED BY <2>1, <2>2
<1>8. \A e \in N : e.type = "note_added"
  BY DEF Change
<1> HIDE DEF S, P, A, N
<1>9. IF \E e \in told : e.type \in LifecycleEvents
      THEN \A e \in told : e.type \in LifecycleEvents => e.after = new.status
      ELSE new.status = old.status
  BY <1>1, <1>2, <1>5, <1>6, <1>7, <1>8
<1>10. IF \E e \in told : e.type \in {"priority_changed"}
       THEN \A e \in told : e.type \in {"priority_changed"} => e.after = new.priority
       ELSE new.priority = old.priority
  BY <1>1, <1>2, <1>5, <1>6, <1>7, <1>8
<1>11. IF \E e \in told : e.type \in {"assignee_changed"}
       THEN \A e \in told : e.type \in {"assignee_changed"} => e.after = new.assignee
       ELSE new.assignee = old.assignee
  BY <1>1, <1>2, <1>5, <1>6, <1>7, <1>8
<1>12. QED BY <1>9, <1>10, <1>11 DEF Leaves, Touches, told, new

(* LastValue, of any trail.                                                 *)
TouchesOf(log, types) ==
    {n \in 1..Len(log) : {log[n].events[i].type : i \in 1..Len(log[n].events)} \cap types # {}}

Latest(touches) == CHOOSE n \in touches : \A k \in touches : k <= n

Left(events, types) == events[CHOOSE i \in 1..Len(events) : events[i].type \in types].after

LastOf(log, types, default) ==
    IF TouchesOf(log, types) = {} THEN default
    ELSE Left(log[Latest(TouchesOf(log, types))].events, types)

(* Among the entries that touch a field there is a latest one.              *)
HasLast(log, types) ==
    TouchesOf(log, types) = {}
    \/ \E n \in TouchesOf(log, types) : \A k \in TouchesOf(log, types) : k <= n

LEMMA LastValueIsLastOf ==
    ASSUME NEW types, NEW default
    PROVE  LastValue(types, default) = LastOf(trail, types, default)
BY DEF LastValue, LastOf, TouchesOf, TypesAt, Latest, Left

(* The latest entry that touches a field decides what is read: an entry     *)
(* leaves the value `new`, or says nothing of it when it is still `old`.    *)
LEMMA ReadOn ==
    ASSUME NEW log, log \in Seq(Entry), NEW entry \in Entry, NEW types, NEW default,
           HasLast(log, types), NEW new,
           Leaves(entry.events, types, LastOf(log, types, default), new)
    PROVE  /\ HasLast(Append(log, entry), types)
           /\ new = LastOf(Append(log, entry), types, default)
<1> DEFINE longer == Append(log, entry)
<1>1. /\ Len(log) \in Nat /\ Len(longer) = Len(log) + 1
      /\ longer[Len(log) + 1] = entry
      /\ \A n \in 1..Len(log) : longer[n] = log[n]
  OBVIOUS
<1> HIDE DEF longer
<1>2. {entry.events[i].type : i \in 1..Len(entry.events)} \cap types # {}
        <=> Touches(types, entry.events)
  BY DEF Touches, EventSet
<1>3. CASE ~Touches(types, entry.events)
  <2>0. new = LastOf(log, types, default)
    BY <1>3 DEF Leaves
  <2>1. TouchesOf(longer, types) = TouchesOf(log, types)
    BY <1>1, <1>2, <1>3 DEF TouchesOf
  <2> DEFINE touches == TouchesOf(log, types)
             last == Latest(touches)
  <2>2. HasLast(longer, types)
    BY <2>1 DEF HasLast
  <2>3. CASE touches = {}
    BY <2>0, <2>1, <2>2, <2>3 DEF LastOf, longer
  <2>4. CASE touches # {}
    <3>1. last \in touches
      BY <2>4 DEF HasLast, Latest
    <3>2. longer[last] = log[last]
      BY <1>1, <3>1 DEF TouchesOf
    <3>3. LastOf(longer, types, default) = Left(longer[last].events, types)
      BY <2>1, <2>4 DEF LastOf
    <3>4. LastOf(log, types, default) = Left(log[last].events, types)
      BY <2>4 DEF LastOf
    <3>5. QED BY <2>0, <2>2, <3>2, <3>3, <3>4 DEF longer
  <2>5. QED BY <2>3, <2>4
<1>4. CASE Touches(types, entry.events)
  <2> DEFINE touches == TouchesOf(longer, types)
             last == Latest(touches)
             i == CHOOSE i \in 1..Len(entry.events) : entry.events[i].type \in types
  <2>1. Len(log) + 1 \in touches /\ \A k \in touches : k \in Nat /\ k <= Len(log) + 1
    BY <1>1, <1>2, <1>4 DEF TouchesOf
  <2>2. \A n \in touches : (\A k \in touches : k <= n) => n = Len(log) + 1
    BY <1>1, <2>1
  <2>3. last = Len(log) + 1
    BY <2>1, <2>2 DEF Latest
  <2>4. i \in 1..Len(entry.events) /\ entry.events[i].type \in types
    BY <1>4 DEF Touches, EventSet
  <2>5. entry.events[i].after = new
    BY <1>4, <2>4 DEF EventSet, Leaves
  <2>6. LastOf(longer, types, default) = Left(longer[last].events, types)
    BY <2>1 DEF LastOf
  <2>7. longer[last] = entry
    BY <1>1, <2>3
  <2>8. HasLast(longer, types)
    BY <2>1 DEF HasLast
  <2>9. Left(entry.events, types) = new
    BY <2>5 DEF Left
  <2>10. QED BY <2>6, <2>7, <2>8, <2>9 DEF longer
<1>5. QED BY <1>3, <1>4

(* What the trail tells, with the latest entry of each field to read it.    *)
TrailTells ==
    /\ HasLast(trail, LifecycleEvents)
    /\ HasLast(trail, {"priority_changed"})
    /\ HasLast(trail, {"assignee_changed"})
    /\ \A n \in 1..Len(trail) : trail[n].events # << >>
    /\ item # None =>
         /\ item.status = LastOf(trail, LifecycleEvents, "proposed")
         /\ item.priority = LastOf(trail, {"priority_changed"}, None)
         /\ item.assignee = LastOf(trail, {"assignee_changed"}, None)

LEMMA TrailTellsInit == Init => TrailTells
BY DEF Init, TrailTells, HasLast, TouchesOf

LEMMA TrailTellsCapture ==
    ASSUME IInv, TrailTells, NEW content \in Contents, Capture(content)
    PROVE  TrailTells'
<1> DEFINE event == Change("captured", None, None)
           entry == [revision |-> 1, events |-> <<event>>]
<1>1. item' = NewItem(content) /\ trail = << >> /\ trail' = <<entry>>
  BY DEF Capture, IInv, TrailCounted
<1>2. event \in Event /\ event.type = "captured"
  BY DEF Change, Event, EventTypes, EventValues
<1>3. 1 \in 1..MaxI64
  BY DomainAssumption
<1>4. entry \in Entry /\ entry.events # << >> /\ EventSet(entry.events) = {event}
  BY <1>2, <1>3 DEF Entry, EventSet
<1>5. "captured" \notin LifecycleEvents
  BY DEF LifecycleEvents, LifecycleEvent, LifecycleOps
<1>6. trail \in Seq(Entry) /\ trail' = Append(trail, entry) /\ trail'[1] = entry /\ Len(trail') = 1
  BY <1>1
<1> HIDE DEF event, entry
<1>7. ASSUME NEW types \in {LifecycleEvents, {"priority_changed"}, {"assignee_changed"}}, NEW default
      PROVE  HasLast(trail', types) /\ LastOf(trail', types, default) = default
  <2>1. "captured" \notin types
    BY <1>5
  <2>2. TouchesOf(trail', types) = {}
    <3>1. Len(entry.events) = 1 /\ entry.events[1].type = "captured"
      BY <1>2, <1>4 DEF entry
    <3>2. QED BY <1>6, <2>1, <3>1 DEF TouchesOf
  <2>3. QED BY <2>2 DEF HasLast, LastOf
<1>8. /\ item'.status = "proposed" /\ item'.priority = None /\ item'.assignee = None
  BY <1>1 DEF NewItem
<1>9. QED BY <1>4, <1>6, <1>7, <1>8 DEF TrailTells

LEMMA TrailTellsApply ==
    ASSUME IInv, TrailTells, NEW m \in Mutations, Apply(m)
    PROVE  TrailTells'
<1> DEFINE entry == [revision |-> item'.revision, events |-> EventsOf(item, m)]
<1>1. /\ item \in Item /\ item # None /\ m \in Mutation
      /\ MutationError(item, m) = None /\ item.revision < MaxI64
      /\ EventsOf(item, m) # << >>
      /\ item' = Mutated(item, m) /\ trail' = Append(trail, entry) /\ trail \in Seq(Entry)
  BY MutationsAssumption DEF IInv, Apply
<1>2. entry \in Entry /\ entry.events = EventsOf(item, m)
  BY <1>1, EventsType, MutatedFacts DEF Entry, Item
<1> DEFINE new == Mutated(item, m)
<1>3. /\ Leaves(entry.events, LifecycleEvents, item.status, new.status)
      /\ Leaves(entry.events, {"priority_changed"}, item.priority, new.priority)
      /\ Leaves(entry.events, {"assignee_changed"}, item.assignee, new.assignee)
  BY <1>1, <1>2, EventsTell
<1> HIDE DEF entry, new
<1>4. /\ HasLast(trail, LifecycleEvents) /\ HasLast(trail, {"priority_changed"})
      /\ HasLast(trail, {"assignee_changed"})
      /\ item.status = LastOf(trail, LifecycleEvents, "proposed")
      /\ item.priority = LastOf(trail, {"priority_changed"}, None)
      /\ item.assignee = LastOf(trail, {"assignee_changed"}, None)
  BY <1>1 DEF TrailTells
<1>5. /\ HasLast(trail', LifecycleEvents)
      /\ new.status = LastOf(trail', LifecycleEvents, "proposed")
  <2>1. trail \in Seq(Entry) /\ entry \in Entry /\ trail' = Append(trail, entry)
    BY <1>1, <1>2
  <2>2. HasLast(trail, LifecycleEvents)
    BY <1>4
  <2>3. Leaves(entry.events, LifecycleEvents, LastOf(trail, LifecycleEvents, "proposed"), new.status)
    BY <1>3, <1>4
  <2>4. /\ HasLast(Append(trail, entry), LifecycleEvents)
        /\ new.status = LastOf(Append(trail, entry), LifecycleEvents, "proposed")
    BY <2>1, <2>2, <2>3, ReadOn
  <2>5. QED BY <2>1, <2>4
<1>6. /\ HasLast(trail', {"priority_changed"})
      /\ new.priority = LastOf(trail', {"priority_changed"}, None)
  <2>1. trail \in Seq(Entry) /\ entry \in Entry /\ trail' = Append(trail, entry)
    BY <1>1, <1>2
  <2>2. HasLast(trail, {"priority_changed"})
    BY <1>4
  <2>3. Leaves(entry.events, {"priority_changed"}, LastOf(trail, {"priority_changed"}, None), new.priority)
    BY <1>3, <1>4
  <2>4. /\ HasLast(Append(trail, entry), {"priority_changed"})
        /\ new.priority = LastOf(Append(trail, entry), {"priority_changed"}, None)
    BY <2>1, <2>2, <2>3, ReadOn
  <2>5. QED BY <2>1, <2>4
<1>7. /\ HasLast(trail', {"assignee_changed"})
      /\ new.assignee = LastOf(trail', {"assignee_changed"}, None)
  <2>1. trail \in Seq(Entry) /\ entry \in Entry /\ trail' = Append(trail, entry)
    BY <1>1, <1>2
  <2>2. HasLast(trail, {"assignee_changed"})
    BY <1>4
  <2>3. Leaves(entry.events, {"assignee_changed"}, LastOf(trail, {"assignee_changed"}, None), new.assignee)
    BY <1>3, <1>4
  <2>4. /\ HasLast(Append(trail, entry), {"assignee_changed"})
        /\ new.assignee = LastOf(Append(trail, entry), {"assignee_changed"}, None)
    BY <2>1, <2>2, <2>3, ReadOn
  <2>5. QED BY <2>1, <2>4
<1>8. \A n \in 1..Len(trail') : trail'[n].events # << >>
  <2>1. \A n \in 1..Len(trail) : trail[n].events # << >>
    BY DEF TrailTells
  <2>2. QED BY <1>1, <1>2, <2>1
<1>9. item' = new
  BY <1>1 DEF new
<1>10. QED BY <1>5, <1>6, <1>7, <1>8, <1>9 DEF TrailTells

(* The audit trail alone tells the current status, priority, assignee and   *)
(* revision, whatever sequence of compound mutations the item went through: *)
(* the events apply_mutation returns are all a reader of the history needs. *)
THEOREM TrailTellsTheItem == Spec => []TrailReconstructsItem
<1>1. Init => TrailTells
  BY TrailTellsInit
<1>2. IInv /\ TrailTells /\ [Next]_vars => TrailTells'
  <2> SUFFICES ASSUME IInv, TrailTells, [Next]_vars PROVE TrailTells'
    OBVIOUS
  <2>1. CASE UNCHANGED vars
    BY <2>1 DEF vars, TrailTells
  <2>2. QED BY <2>1, TrailTellsCapture, TrailTellsApply DEF Next
<1>3. IInv /\ TrailTells => TrailReconstructsItem
  BY LastValueIsLastOf DEF IInv, TrailCounted, TrailTells, TrailReconstructsItem
<1>4. QED BY Invariant, <1>1, <1>2, <1>3, PTL DEF Spec

-----------------------------------------------------------------------------
(* The calls.  What is known of a call depends on how far it has come.      *)

Running == {"parsing", "receiving", "opening", "prereading", "decoding", "admitting",
            "transacting", "replying"}
Acted(k) == k.events # << >>
ByCli(k) == k.caller.surface = "cli"

(* It has read what it was asked. *)
HasRead(k) ==
    \/ k.phase \in {"prereading", "admitting", "transacting", "replying"} \/ Acted(k)
    \/ k.phase = "opening" /\ ByCli(k)

Shape(k) ==
    /\ DOMAIN k = DOMAIN Surfaces!Idle
    /\ k.phase \in Running \cup {"idle", "answered", "dead"}
    /\ k.phase \in Running \/ Acted(k) =>
          /\ k.caller \in Surfaces!Callers(Hosts) /\ k.input \in Requests
          /\ k.input.command = "capture" => ~ByCli(k)
    /\ k.phase \in {"parsing", "prereading"} => ByCli(k)
    /\ k.phase \in {"receiving", "decoding"} => ~ByCli(k)
    /\ Acted(k) => k.phase \in {"replying", "answered", "dead"}
    /\ k.answer = "internal" => k.phase = "answered" /\ ~Acted(k)

(* What it read is what its surface makes of the words, which are in order. *)
Understood(k) ==
    HasRead(k) =>
        IF k.input.command = "capture" THEN ~Surfaces!CaptureInvalid(k.input)
        ELSE IF ByCli(k)
        THEN /\ ~Surfaces!CliUsageError(k.input)
             /\ k.mutation = Surfaces!CliMutation(k.input)
             /\ k.changes = Surfaces!CliChanges(k.input)
        ELSE /\ ~Surfaces!RpcInvalid(k.input)
             /\ k.mutation = Surfaces!RpcMutation(k.input)
             /\ k.changes = Surfaces!RpcChanges(k.input)

(* It is authorized before it touches the store, and what it did is what it *)
(* was authorized for.                                                      *)
Allowed(k) ==
    /\ k.phase = "transacting" \/ Acted(k) =>
          Surfaces!Authorized(k.caller.facts, k.input.command, k.changes)
    /\ Acted(k) /\ k.input.command # "capture" =>
          \A n \in DOMAIN k.events :
              Surfaces!ChangeOf(k.events[n]) \in Surfaces!AllowedBy(k.changes)

(* Until the store is another one, the item that was counted is the item of *)
(* its revision.                                                            *)
Counted(k, s) ==
    /\ k.phase \in {"admitting", "transacting"} /\ ByCli(k) =>
          /\ k.read \in Nat /\ k.read <= s.generation
          /\ ~k.overtaken /\ k.read = s.generation =>
                /\ k.input.item \in DOMAIN s.items
                /\ s.items[k.input.item].revision >= k.input.expected
                /\ s.items[k.input.item].revision = k.input.expected =>
                      k.ids = Len(Surfaces!EventsOf(s.items[k.input.item], k.mutation))
          /\ ~k.overtaken /\ k.phase = "transacting" => k.pin = k.read
    /\ k.answer = "internal" /\ ByCli(k) => k.overtaken

(* A store, once there, is not taken away, and only what opened it works on it. *)
Opened(k, s) ==
    k.phase \in {"prereading", "decoding", "admitting", "transacting"} => s.ready

(* An effect leaves its key in the store it happened in. *)
Receipted(k, s) ==
    Acted(k) =>
        /\ k.at \in Nat /\ k.at <= s.generation
        /\ k.at = s.generation => \E r \in s.receipts : r.key = k.input.key

(* A receipt of a mutation is younger than the revision it was asked for. *)
StoreInv(s) ==
    /\ DOMAIN s = {"ready", "generation", "items", "receipts"}
    /\ s.ready \in BOOLEAN /\ s.generation \in Nat /\ s.items \in Seq(Item)
    /\ ~s.ready => s.generation = 1 /\ s.items = << >> /\ s.receipts = {}
    /\ \A r \in s.receipts : r.hash[1] = "mutation" =>
          /\ r.hash[2] \in DOMAIN s.items /\ r.hash[3] \in Nat
          /\ s.items[r.hash[2]].revision > r.hash[3]

CallInv(k, s) ==
    /\ Shape(k) /\ Understood(k) /\ Allowed(k)
    /\ Opened(k, s) /\ Counted(k, s) /\ Receipted(k, s)

KeysApart ==
    \A c, d \in Calls :
        c # d /\ Acted(call[c]) /\ Acted(call[d]) /\ call[c].at = call[d].at
        => call[c].input.key # call[d].input.key

SurfacesInv ==
    /\ StoreInv(store)
    /\ DOMAIN call = Calls
    /\ \A c \in Calls : CallInv(call[c], store)
    /\ KeysApart

-----------------------------------------------------------------------------
(* The calls reason with Domain's rules.                                    *)
LEMMA SameRules ==
    ASSUME NEW it, NEW m
    PROVE  /\ Surfaces!MutationError(it, m) = MutationError(it, m)
           /\ Surfaces!EventsOf(it, m) = EventsOf(it, m)
           /\ Surfaces!Mutated(it, m) = Mutated(it, m)
           /\ Surfaces!NewItem(m) = NewItem(m)
<1>1. /\ Surfaces!AfterLifecycle(it, m) = AfterLifecycle(it, m)
      /\ \A planned : Surfaces!AfterTriage(planned, m) = AfterTriage(planned, m)
  BY DEF Surfaces!AfterLifecycle, AfterLifecycle, Surfaces!AfterTriage, AfterTriage,
         Surfaces!To, To, Surfaces!NeedsReason, NeedsReason, Surfaces!Resolve, Resolve,
         Surfaces!Omitted, Omitted, Surfaces!Clear, Clear
<1>2. Surfaces!Planned(it, m) = Planned(it, m)
  BY <1>1 DEF Surfaces!Planned, Planned
<1>3. Surfaces!MutationError(it, m) = MutationError(it, m)
  BY <1>2 DEF Surfaces!MutationError, MutationError, Surfaces!WrongStatus, WrongStatus,
         Surfaces!MissingReason, MissingReason, Surfaces!EmptyTriage, EmptyTriage,
         Surfaces!TerminalChange, TerminalChange, Surfaces!From, From, Surfaces!NeedsReason,
         NeedsReason, Surfaces!Blank, Blank, Surfaces!Terminal, Terminal,
         Surfaces!Omitted, Omitted
<1>4. Surfaces!StatusChange(it, m) = StatusChange(it, m)
  BY DEF Surfaces!StatusChange, StatusChange, Surfaces!Change, Change, Surfaces!LifecycleEvent,
         LifecycleEvent, Surfaces!To, To
<1>5. Surfaces!TriageChanges(it, m) = TriageChanges(it, m)
  BY DEF Surfaces!TriageChanges, TriageChanges, Surfaces!FieldChange, FieldChange,
         Surfaces!Change, Change, Surfaces!Resolve, Resolve, Surfaces!Omitted, Omitted,
         Surfaces!Clear, Clear
<1>6. Surfaces!EventsOf(it, m) = EventsOf(it, m)
  BY <1>4, <1>5 DEF Surfaces!EventsOf, EventsOf
<1>7. Surfaces!Mutated(it, m) = Mutated(it, m)
  BY <1>2 DEF Surfaces!Mutated, Mutated
<1>8. QED BY <1>3, <1>6, <1>7 DEF Surfaces!NewItem, NewItem

(* A text that names someone is normalized to whom it names.                *)
LEMMA NormalizedField ==
    ASSUME NEW a \in Surfaces!Field(Surfaces!Texts)
    PROVE  Surfaces!Normalized(a) \in Field(Assignees)
<1>1. AssigneeId \in [Surfaces!Texts -> Assignees]
  BY CallsAssumption DEF Surfaces!SurfacesAssumption, Surfaces!RequestsAssumption
<1>2. CASE a \in {Surfaces!Omitted, Surfaces!Clear}
  BY <1>2 DEF Surfaces!Normalized, Field, Surfaces!Omitted, Omitted, Surfaces!Clear, Clear
<1>3. CASE a \notin {Surfaces!Omitted, Surfaces!Clear}
  <2>1. a[2] \in Surfaces!Texts
    BY <1>3 DEF Surfaces!Field, Surfaces!Set
  <2>2. AssigneeId[a[2]] \in Assignees
    BY <1>1, <2>1
  <2>3. QED BY <1>3, <2>2 DEF Surfaces!Normalized, Field, Surfaces!Set, Set
<1>4. QED BY <1>2, <1>3

(* What a surface decodes is a mutation.                                    *)
LEMMA DecodedType ==
    ASSUME NEW i \in Surfaces!Input, i.command # "capture"
    PROVE  /\ ~Surfaces!CliUsageError(i) => Surfaces!CliMutation(i) \in Mutation
           /\ ~Surfaces!RpcInvalid(i) => Surfaces!RpcMutation(i) \in Mutation
<1>1. ASSUME NEW op \in LifecycleOps \cup {None}, ~Surfaces!LacksReason(op, i),
             NEW p \in Field(Priorities), NEW a \in Field(Assignees)
      PROVE  Surfaces!MutationOf(op, i, p, a) \in Mutation
  <2>1. (IF Surfaces!NeedsReason(op) THEN i.reason ELSE Surfaces!Blank) \in Reasons \cup {Blank}
    BY <1>1 DEF Surfaces!LacksReason, Surfaces!Input, Surfaces!Blank, Blank
  <2>2. Surfaces!HasTriage(i) \in BOOLEAN /\ i.note \in Notes \cup {None}
    BY DEF Surfaces!HasTriage, Surfaces!Input
  <2>3. QED BY <2>1, <2>2 DEF Surfaces!MutationOf, Mutation
<1>2. ASSUME ~Surfaces!CliUsageError(i) PROVE Surfaces!CliMutation(i) \in Mutation
  <2>1. Surfaces!CliLifecycle(i) \in LifecycleOps \cup {None}
    BY <1>2 DEF Surfaces!CliUsageError, Surfaces!CliLifecycle, Surfaces!Input,
                Surfaces!LifecycleOps, LifecycleOps
  <2>2. Surfaces!CliPriority(i.priority) \in Field(Priorities)
    <3>1. CASE i.priority = Surfaces!Omitted \/ Surfaces!SaysClear(i.priority)
      BY <3>1 DEF Surfaces!CliPriority, Field, Surfaces!Omitted, Omitted, Surfaces!Clear, Clear
    <3>2. CASE i.priority # Surfaces!Omitted /\ ~Surfaces!SaysClear(i.priority)
      <4>1. \E p \in Priorities : i.priority[2] \in {p, Lower[p]}
        BY <1>2, <3>2 DEF Surfaces!CliUsageError, Surfaces!CliFieldError
      <4>2. QED BY <3>2, <4>1 DEF Surfaces!CliPriority, Field, Surfaces!Set, Set
    <3>3. QED BY <3>1, <3>2
  <2>3. Surfaces!CliAssignee(i.assignee) \in Field(Assignees)
    <3>1. CASE Surfaces!SaysClear(i.assignee)
      BY <3>1 DEF Surfaces!CliAssignee, Field, Surfaces!Clear, Clear
    <3>2. CASE ~Surfaces!SaysClear(i.assignee)
      <4>1. i.assignee = Surfaces!Omitted \/ i.assignee[2] \in Surfaces!Texts
        BY <1>2, <3>2 DEF Surfaces!CliUsageError, Surfaces!CliFieldError
      <4>2. \/ i.assignee \in {Surfaces!Omitted, Surfaces!Clear}
            \/ i.assignee = Surfaces!Set(i.assignee[2])
        BY DEF Surfaces!Input, Surfaces!Field, Surfaces!Set
      <4>3. i.assignee \in Surfaces!Field(Surfaces!Texts)
        BY <4>1, <4>2 DEF Surfaces!Field
      <4>4. QED BY <3>2, <4>3, NormalizedField DEF Surfaces!CliAssignee
    <3>3. QED BY <3>1, <3>2
  <2>4. ~Surfaces!LacksReason(Surfaces!CliLifecycle(i), i)
    BY <1>2 DEF Surfaces!CliUsageError
  <2>5. QED BY <1>1, <2>1, <2>2, <2>3, <2>4 DEF Surfaces!CliMutation
<1>3. ASSUME ~Surfaces!RpcInvalid(i) PROVE Surfaces!RpcMutation(i) \in Mutation
  <2>1. Surfaces!RpcLifecycle(i) \in LifecycleOps \cup {None}
    BY <1>3 DEF Surfaces!RpcInvalid, Surfaces!RpcLifecycle, Surfaces!Input,
                Surfaces!LifecycleOps, LifecycleOps
  <2>2. i.priority \in Field(Priorities) /\ Surfaces!Normalized(i.assignee) \in Field(Assignees)
    <3>1. i.priority \in Surfaces!Field(Priorities) /\ i.assignee \in Surfaces!Field(Surfaces!Texts)
      BY <1>3 DEF Surfaces!RpcInvalid, Surfaces!RpcFieldError
    <3>2. i.priority \in Field(Priorities)
      BY <3>1 DEF Surfaces!Field, Field, Surfaces!Omitted, Omitted, Surfaces!Clear, Clear,
                  Surfaces!Set, Set
    <3>3. QED BY <3>1, <3>2, NormalizedField
  <2>3. ~Surfaces!LacksReason(Surfaces!RpcLifecycle(i), i)
    BY <1>3 DEF Surfaces!RpcInvalid
  <2>4. QED BY <1>1, <2>1, <2>2, <2>3 DEF Surfaces!RpcMutation
<1>4. QED BY <1>2, <1>3

(* The same words are the same mutation on every surface.                   *)
LEMMA SameWordsSameMutation ==
    ASSUME NEW i \in Surfaces!Input, NEW j \in Surfaces!Input,
           i.command # "capture", j.command # "capture",
           Surfaces!Said(i) = Surfaces!Said(j)
    PROVE  /\ Surfaces!CliMutation(i) = Surfaces!CliMutation(j)
           /\ Surfaces!RpcMutation(i) = Surfaces!RpcMutation(j)
           /\ /\ ~Surfaces!CliUsageError(i) /\ ~Surfaces!RpcInvalid(j)
              /\ ~\E f \in {i.priority, i.assignee} : f # Surfaces!Clear /\ Surfaces!SaysClear(f)
              => Surfaces!CliMutation(i) = Surfaces!RpcMutation(j)
<1>1. /\ Surfaces!CliLifecycle(i) = Surfaces!CliLifecycle(j)
      /\ i.reason = j.reason /\ i.priority = j.priority /\ i.assignee = j.assignee
      /\ i.note = j.note
  BY DEF Surfaces!Said
<1>2. /\ Surfaces!RpcLifecycle(i) = Surfaces!CliLifecycle(i)
      /\ Surfaces!RpcLifecycle(j) = Surfaces!CliLifecycle(j)
  BY DEF Surfaces!RpcLifecycle, Surfaces!CliLifecycle, Surfaces!LifecycleOps
<1>3. \A op, p, a : Surfaces!MutationOf(op, i, p, a) = Surfaces!MutationOf(op, j, p, a)
  BY <1>1 DEF Surfaces!MutationOf, Surfaces!HasTriage
<1>4. ASSUME ~Surfaces!RpcInvalid(j),
             ~\E f \in {i.priority, i.assignee} : f # Surfaces!Clear /\ Surfaces!SaysClear(f)
      PROVE  /\ Surfaces!CliPriority(i.priority) = j.priority
             /\ Surfaces!CliAssignee(i.assignee) = Surfaces!Normalized(j.assignee)
  <2>1. j.priority \in Surfaces!Field(Priorities)
    BY <1>4 DEF Surfaces!RpcInvalid, Surfaces!RpcFieldError
  <2>2. Surfaces!CliAssignee(i.assignee) = Surfaces!Normalized(i.assignee)
    BY <1>4 DEF Surfaces!CliAssignee, Surfaces!Normalized
  <2>3. CASE j.priority \in {Surfaces!Omitted, Surfaces!Clear}
    BY <1>1, <2>2, <2>3 DEF Surfaces!CliPriority, Surfaces!SaysClear
  <2>4. CASE j.priority \notin {Surfaces!Omitted, Surfaces!Clear}
    <3>1. PICK q \in Priorities : j.priority = Surfaces!Set(q)
      BY <2>1, <2>4 DEF Surfaces!Field
    <3>2. j.priority[2] = q
      BY <3>1 DEF Surfaces!Set
    <3>3. ~Surfaces!SaysClear(j.priority)
      BY <1>1, <1>4, <2>4
    <3>4. \A p \in Priorities : q \in {p, Lower[p]} <=> p = q
      BY CallsAssumption DEF Surfaces!SurfacesAssumption, Surfaces!RequestsAssumption
    <3>5. (CHOOSE p \in Priorities : q \in {p, Lower[p]}) = q
      BY <3>4
    <3>6. Surfaces!CliPriority(j.priority) = Surfaces!Set(q)
      BY <2>4, <3>2, <3>3, <3>5 DEF Surfaces!CliPriority
    <3>7. QED BY <1>1, <2>2, <3>1, <3>6
  <2>5. QED BY <1>1, <2>2, <2>3, <2>4
<1>5. QED BY <1>1, <1>2, <1>3, <1>4 DEF Surfaces!CliMutation, Surfaces!RpcMutation

(* The events a mutation causes, by the names an instruction lists them.    *)
NamesOf(m) ==
    (IF m.lifecycle = None THEN {} ELSE {<<m.lifecycle>>})
    \cup Surfaces!TriageNames(m.priority, m.assignee, m.note)

LEMMA EventsAreNamed ==
    ASSUME NEW it \in Item, NEW m \in Mutation
    PROVE  \A n \in DOMAIN EventsOf(it, m) : Surfaces!ChangeOf(EventsOf(it, m)[n]) \in NamesOf(m)
<1> DEFINE p == Resolve(m.priority, it.priority)
           a == Resolve(m.assignee, it.assignee)
<1> SUFFICES ASSUME NEW e \in EventSet(EventsOf(it, m))
             PROVE  Surfaces!ChangeOf(e) \in NamesOf(m)
  <2>1. EventsOf(it, m) \in Seq(Event)
    BY EventsType
  <2>2. DOMAIN EventsOf(it, m) = 1..Len(EventsOf(it, m))
    BY <2>1
  <2>3. QED BY <2>2 DEF EventSet
<1>1. \/ /\ m.lifecycle # None
         /\ e = Change(LifecycleEvent[m.lifecycle], it.status, To[m.lifecycle])
      \/ it.priority # p /\ e = Change("priority_changed", it.priority, p)
      \/ it.assignee # a /\ e = Change("assignee_changed", it.assignee, a)
      \/ None # m.note /\ e = Change("note_added", None, m.note)
  BY MutationEvents
<1>2. ASSUME NEW field, NEW old, Resolve(field, old) # old
      PROVE  Resolve(field, old) \in Surfaces!Named(field)
  BY <1>2 DEF Resolve, Surfaces!Named, Surfaces!Resolve, Surfaces!Omitted, Omitted,
              Surfaces!Clear, Clear
<1>3. CASE m.lifecycle # None /\ e = Change(LifecycleEvent[m.lifecycle], it.status, To[m.lifecycle])
  <2>1. m.lifecycle \in LifecycleOps
    BY <1>3 DEF Mutation
  <2>2. e.type = LifecycleEvent[m.lifecycle]
    BY <1>3 DEF Change
  <2>3. \A op \in LifecycleOps : Surfaces!LifecycleEvent[op] = e.type <=> op = m.lifecycle
    BY <2>1, <2>2 DEF LifecycleOps, LifecycleEvent, Surfaces!LifecycleEvent
  <2>4. (CHOOSE op \in Surfaces!LifecycleOps : Surfaces!LifecycleEvent[op] = e.type) = m.lifecycle
    BY <2>1, <2>3 DEF Surfaces!LifecycleOps, LifecycleOps
  <2>5. e.type \notin {"priority_changed", "assignee_changed", "note_added"}
    BY <2>1, <2>2 DEF LifecycleOps, LifecycleEvent
  <2>6. Surfaces!ChangeOf(e) = <<m.lifecycle>>
    BY <2>4, <2>5 DEF Surfaces!ChangeOf
  <2>7. QED BY <1>3, <2>6 DEF NamesOf
<1>4. CASE it.priority # p /\ e = Change("priority_changed", it.priority, p)
  <2>1. p \in Surfaces!Named(m.priority)
    BY <1>2, <1>4
  <2>2. Surfaces!ChangeOf(e) = Surfaces!PriorityChange(p)
    BY <1>4 DEF Surfaces!ChangeOf, Change
  <2>3. QED BY <2>1, <2>2 DEF NamesOf, Surfaces!TriageNames
<1>5. CASE it.assignee # a /\ e = Change("assignee_changed", it.assignee, a)
  <2>1. a \in Surfaces!Named(m.assignee)
    BY <1>2, <1>5
  <2>2. Surfaces!ChangeOf(e) = Surfaces!AssigneeChange(a)
    BY <1>5 DEF Surfaces!ChangeOf, Change
  <2>3. QED BY <2>1, <2>2 DEF NamesOf, Surfaces!TriageNames
<1>6. CASE None # m.note /\ e = Change("note_added", None, m.note)
  <2>1. Surfaces!ChangeOf(e) = Surfaces!NoteChange
    BY <1>6 DEF Surfaces!ChangeOf, Change
  <2>2. QED BY <1>6, <2>1 DEF NamesOf, Surfaces!TriageNames
<1>7. QED BY <1>1, <1>3, <1>4, <1>5, <1>6

(* An identifier is its own normal form, so an event is recorded under the  *)
(* name its mutation has for it.                                            *)
LEMMA NamesAreRecorded ==
    ASSUME NEW m \in Mutation, NEW change \in NamesOf(m)
    PROVE  Surfaces!Recorded(change) = change
<1> USE DEF Surfaces!AssigneeChange
<1>1. \A a \in Assignees : a \in Surfaces!Texts /\ AssigneeId[a] = a
  BY CallsAssumption DEF Surfaces!SurfacesAssumption, Surfaces!RequestsAssumption
<1>2. "clear" \in Assignees /\ None \notin Assignees /\ None \notin Surfaces!Texts
  BY CallsAssumption, DomainAssumption DEF Surfaces!SurfacesAssumption, Surfaces!RequestsAssumption
<1>3. CASE \E text \in Surfaces!Texts : change = Surfaces!AssigneeChange(text)
  <2>1. PICK text \in Surfaces!Texts : change = <<"assign", text>>
    BY <1>2, <1>3 DEF Surfaces!Word
  <2>2. PICK value \in Surfaces!Named(m.assignee) : change = <<"assign", Surfaces!Word(value)>>
    BY <2>1 DEF NamesOf, Surfaces!TriageNames, Surfaces!PriorityChange, Surfaces!NoteChange
  <2>3. value \in Assignees \cup {None}
    BY DEF Surfaces!Named, Surfaces!Resolve, Mutation, Field, Surfaces!Omitted, Omitted,
           Surfaces!Clear, Clear, Set
  <2>4. change[2] \in Assignees /\ change = <<"assign", change[2]>>
    BY <1>2, <2>2, <2>3 DEF Surfaces!Word
  <2>5. AssigneeId[change[2]] = change[2] /\ change[2] # None
    BY <1>1, <1>2, <2>4
  <2>6. QED BY <1>3, <2>4, <2>5 DEF Surfaces!Recorded, Surfaces!Word
<1>4. CASE ~\E text \in Surfaces!Texts : change = Surfaces!AssigneeChange(text)
  BY <1>4 DEF Surfaces!Recorded
<1>5. QED BY <1>3, <1>4

(* Both surfaces list every change a mutation can make, RPC an assignee by  *)
(* the text that is normalized to the one that is recorded.                 *)
LEMMA ChangesAreListed ==
    ASSUME NEW i \in Surfaces!Input, i.command # "capture"
    PROVE  /\ ~Surfaces!CliUsageError(i) =>
                NamesOf(Surfaces!CliMutation(i)) \subseteq Surfaces!AllowedBy(Surfaces!CliChanges(i))
           /\ ~Surfaces!RpcInvalid(i) =>
                NamesOf(Surfaces!RpcMutation(i)) \subseteq Surfaces!AllowedBy(Surfaces!RpcChanges(i))
<1>1. ASSUME ~Surfaces!CliUsageError(i)
      PROVE  NamesOf(Surfaces!CliMutation(i)) \subseteq Surfaces!AllowedBy(Surfaces!CliChanges(i))
  <2>1. NamesOf(Surfaces!CliMutation(i)) = Surfaces!CliChanges(i)
    BY DEF NamesOf, Surfaces!CliChanges
  <2>2. Surfaces!CliMutation(i) \in Mutation
    BY <1>1, DecodedType
  <2>3. QED BY <2>1, <2>2, NamesAreRecorded DEF Surfaces!AllowedBy
<1>2. ASSUME ~Surfaces!RpcInvalid(i)
      PROVE  NamesOf(Surfaces!RpcMutation(i)) \subseteq Surfaces!AllowedBy(Surfaces!RpcChanges(i))
  <2> DEFINE op == Surfaces!RpcLifecycle(i)
             m == Surfaces!RpcMutation(i)
  <2>1. /\ m.lifecycle = op /\ m.priority = i.priority
        /\ m.assignee = Surfaces!Normalized(i.assignee) /\ m.note = i.note
    BY DEF Surfaces!RpcMutation, Surfaces!MutationOf
  <2>2. op # None => <<op>> \in Surfaces!RpcActionName(i)
    BY <1>2 DEF Surfaces!RpcLifecycle, Surfaces!RpcActionName, Surfaces!RpcInvalid
  <2>3. m \in Mutation
    BY <1>2, DecodedType
  <2> HIDE DEF op, m
  <2> SUFFICES ASSUME NEW change \in NamesOf(m)
               PROVE  change \in Surfaces!AllowedBy(Surfaces!RpcChanges(i))
    BY DEF m
  <2>4. Surfaces!Recorded(change) = change
    BY <2>3, NamesAreRecorded
  <2>5. CASE change \in Surfaces!RpcChanges(i)
    BY <2>4, <2>5 DEF Surfaces!AllowedBy
  <2>6. CASE change \notin Surfaces!RpcChanges(i)
    <3>1. PICK value \in Surfaces!Named(m.assignee) : change = Surfaces!AssigneeChange(value)
      BY <2>1, <2>2, <2>6 DEF NamesOf, Surfaces!RpcChanges, Surfaces!TriageNames
    <3>2. /\ m.assignee # Surfaces!Omitted /\ m.assignee # i.assignee
          /\ value = Surfaces!Resolve(m.assignee, None)
      BY <2>1, <2>6, <3>1 DEF Surfaces!Named, Surfaces!RpcChanges, Surfaces!TriageNames
    <3>3. PICK text \in Surfaces!Texts : i.assignee = Surfaces!Set(text)
      BY <1>2, <2>1, <3>2 DEF Surfaces!RpcInvalid, Surfaces!RpcFieldError, Surfaces!Field,
                              Surfaces!Normalized
    <3>4. /\ i.assignee \notin {Surfaces!Omitted, Surfaces!Clear} /\ i.assignee[2] = text
          /\ m.assignee = Surfaces!Set(AssigneeId[text])
      BY <2>1, <3>2, <3>3 DEF Surfaces!Normalized, Surfaces!Set
    <3>5. value = AssigneeId[text]
      BY <3>2, <3>4 DEF Surfaces!Resolve, Surfaces!Set, Surfaces!Omitted, Surfaces!Clear
    <3>6. text \in Surfaces!Named(i.assignee)
      BY <3>3, <3>4 DEF Surfaces!Named, Surfaces!Resolve, Surfaces!Set, Surfaces!Omitted,
                        Surfaces!Clear
    <3>7. Surfaces!AssigneeChange(text) \in Surfaces!RpcChanges(i)
      BY <3>6 DEF Surfaces!RpcChanges, Surfaces!TriageNames
    <3>8. text # None
      BY CallsAssumption DEF Surfaces!SurfacesAssumption, Surfaces!RequestsAssumption
    <3>9. Surfaces!Recorded(Surfaces!AssigneeChange(text)) = change
      BY <3>1, <3>5, <3>8 DEF Surfaces!Recorded, Surfaces!AssigneeChange, Surfaces!Word
    <3>10. QED BY <3>7, <3>9 DEF Surfaces!AllowedBy
  <2>7. QED BY <2>5, <2>6
<1>3. QED BY <1>1, <1>2

-----------------------------------------------------------------------------
(* What later stores keep of what a call knows.                             *)
Grows(s, t) ==
    /\ s.ready => t.ready
    /\ \/ t.generation > s.generation
       \/ /\ t.generation = s.generation
          /\ s.receipts \subseteq t.receipts
          /\ \A n \in DOMAIN s.items :
                /\ n \in DOMAIN t.items
                /\ t.items[n].revision >= s.items[n].revision
                /\ t.items[n].revision = s.items[n].revision => t.items[n] = s.items[n]

LEMMA ItemsOf ==
    ASSUME NEW s, StoreInv(s)
    PROVE  \A n \in DOMAIN s.items : s.items[n] \in Item /\ s.items[n].revision \in 1..MaxI64
<1>1. s.items \in Seq(Item)
  BY DEF StoreInv
<1>2. \A n \in DOMAIN s.items : s.items[n] \in Item
  BY <1>1
<1>3. QED BY <1>2 DEF Item

LEMMA CallGrows ==
    ASSUME NEW k, NEW s, NEW t, StoreInv(s), StoreInv(t), Grows(s, t), CallInv(k, s),
           Acted(k) \/ k.phase \in {"admitting", "transacting"} => k.input.expected \in Nat
    PROVE  CallInv(k, t)
<1>1. Shape(k) /\ Understood(k) /\ Allowed(k)
  BY DEF CallInv
<1>2. Opened(k, t)
  BY DEF CallInv, Opened, Grows
<1>3. s.generation \in Nat /\ t.generation \in Nat /\ s.generation <= t.generation
  BY DEF StoreInv, Grows
<1>4. Receipted(k, t)
  BY <1>3 DEF CallInv, Receipted, Grows
<1>5. Counted(k, t)
  <2>1. k.answer = "internal" /\ ByCli(k) => k.overtaken
    BY DEF CallInv, Counted
  <2>2. SUFFICES ASSUME k.phase \in {"admitting", "transacting"}, ByCli(k)
                 PROVE  /\ k.read \in Nat /\ k.read <= t.generation
                        /\ ~k.overtaken /\ k.read = t.generation =>
                              /\ k.input.item \in DOMAIN t.items
                              /\ t.items[k.input.item].revision >= k.input.expected
                              /\ t.items[k.input.item].revision = k.input.expected =>
                                    k.ids = Len(Surfaces!EventsOf(t.items[k.input.item], k.mutation))
                        /\ ~k.overtaken /\ k.phase = "transacting" => k.pin = k.read
    BY <2>1 DEF Counted
  <2>3. /\ k.read \in Nat /\ k.read <= s.generation
        /\ ~k.overtaken /\ k.read = s.generation =>
              /\ k.input.item \in DOMAIN s.items
              /\ s.items[k.input.item].revision >= k.input.expected
              /\ s.items[k.input.item].revision = k.input.expected =>
                    k.ids = Len(Surfaces!EventsOf(s.items[k.input.item], k.mutation))
        /\ ~k.overtaken /\ k.phase = "transacting" => k.pin = k.read
    BY <2>2 DEF CallInv, Counted
  <2>4. k.read <= t.generation
    BY <1>3, <2>3
  <2>5. ASSUME ~k.overtaken, k.read = t.generation
        PROVE  /\ k.input.item \in DOMAIN t.items
               /\ t.items[k.input.item].revision >= k.input.expected
               /\ t.items[k.input.item].revision = k.input.expected =>
                     k.ids = Len(Surfaces!EventsOf(t.items[k.input.item], k.mutation))
    <3> DEFINE n == k.input.item
    <3>1. t.generation = s.generation /\ k.read = s.generation
      BY <1>3, <2>3, <2>5
    <3>2. n \in DOMAIN s.items /\ s.items[n].revision >= k.input.expected
      BY <2>3, <2>5, <3>1
    <3>3. /\ n \in DOMAIN t.items /\ t.items[n].revision >= s.items[n].revision
          /\ t.items[n].revision = s.items[n].revision => t.items[n] = s.items[n]
      BY <1>3, <3>1, <3>2 DEF Grows
    <3>4. s.items[n].revision \in Nat /\ t.items[n].revision \in Nat /\ k.input.expected \in Nat
      <4>1. s.items[n].revision \in 1..MaxI64 /\ t.items[n].revision \in 1..MaxI64
        BY <3>2, <3>3, ItemsOf
      <4>2. k.input.expected \in Nat
        BY <2>2
      <4>3. QED BY <4>1, <4>2
    <3>5. CASE t.items[n].revision = s.items[n].revision
      BY <2>3, <2>5, <3>1, <3>2, <3>3, <3>5
    <3>6. CASE t.items[n].revision # s.items[n].revision
      BY <3>2, <3>3, <3>4, <3>6
    <3>7. QED BY <3>5, <3>6
  <2>6. QED BY <2>3, <2>4, <2>5
<1>6. QED BY <1>1, <1>2, <1>4, <1>5 DEF CallInv

(* A step of one call that leaves the store alone and has no new effect.    *)
Stays(c) ==
    /\ DOMAIN call' = Calls
    /\ \A d \in Calls \ {c} : call'[d] = call[d]
    /\ store' = store
    /\ CallInv(call'[c], store)
    /\ Acted(call'[c]) =>
          Acted(call[c]) /\ call'[c].at = call[c].at /\ call'[c].input = call[c].input

LEMMA StaysKeeps ==
    ASSUME SurfacesInv, NEW c \in Calls, Stays(c)
    PROVE  SurfacesInv'
<1>1. StoreInv(store)' /\ (DOMAIN call = Calls)'
  BY DEF SurfacesInv, Stays
<1>2. \A d \in Calls : CallInv(call'[d], store')
  BY DEF SurfacesInv, Stays
<1>3. KeysApart'
  <2> SUFFICES ASSUME NEW d \in Calls, NEW e \in Calls, d # e,
                      Acted(call'[d]), Acted(call'[e]), call'[d].at = call'[e].at
               PROVE  call'[d].input.key # call'[e].input.key
    BY DEF KeysApart
  <2>1. \A b \in Calls : Acted(call'[b]) =>
          Acted(call[b]) /\ call'[b].at = call[b].at /\ call'[b].input = call[b].input
    BY DEF Stays
  <2>2. QED BY <2>1 DEF SurfacesInv, KeysApart
<1>4. QED BY <1>1, <1>2, <1>3 DEF SurfacesInv

Fields == {"phase", "caller", "input", "mutation", "changes", "ids", "overtaken", "read",
           "pin", "answer", "events", "at"}

LEMMA IdleFields == DOMAIN Surfaces!Idle = Fields
BY DEF Surfaces!Idle, Fields

LEMMA AnswerKeeps ==
    ASSUME SurfacesInv, NEW c \in Calls, NEW code, call[c].phase \in Running,
           Surfaces!Answer(c, code), UNCHANGED store,
           code = "internal" /\ ByCli(call[c]) => call[c].overtaken
    PROVE  Stays(c)
<1> DEFINE k == call[c]
           after == [Surfaces!Idle EXCEPT !.phase = "answered", !.answer = code,
                                          !.caller = k.caller, !.overtaken = k.overtaken]
<1>1. DOMAIN call = Calls
  BY DEF SurfacesInv
<1>2. call' = [call EXCEPT ![c] = after]
  BY DEF Surfaces!Answer
<1>3. /\ DOMAIN after = DOMAIN Surfaces!Idle /\ after.phase = "answered" /\ after.answer = code
      /\ after.caller = k.caller /\ after.overtaken = k.overtaken /\ after.events = << >>
  BY DEF Surfaces!Idle
<1> HIDE DEF after
<1>4. call'[c] = after /\ DOMAIN call' = Calls /\ \A d \in Calls \ {c} : call'[d] = call[d]
  BY <1>1, <1>2
<1>5. ~Acted(after) /\ after.phase \notin Running
  BY <1>3 DEF Acted, Running
<1>6. CallInv(after, store)
  BY <1>3, <1>5 DEF CallInv, Shape, Understood, Allowed, Opened, Counted, Receipted, HasRead,
                    ByCli, Running
<1>7. QED BY <1>4, <1>5, <1>6 DEF Stays

-----------------------------------------------------------------------------
(* The steps of a call before its transaction.                              *)
Known(c) ==
    /\ DOMAIN call = Calls /\ DOMAIN call[c] = Fields
    /\ StoreInv(store) /\ CallInv(call[c], store)

LEMMA KnownCall == ASSUME SurfacesInv, NEW c \in Calls PROVE Known(c)
BY IdleFields DEF SurfacesInv, Known, CallInv, Shape

LEMMA MovedCall ==
    ASSUME NEW c \in Calls, Known(c), NEW after, call' = [call EXCEPT ![c] = after]
    PROVE  /\ DOMAIN call' = Calls /\ call'[c] = after
           /\ \A d \in Calls \ {c} : call'[d] = call[d]
BY DEF Known

LEMMA BeginKeeps ==
    ASSUME SurfacesInv, NEW c \in Calls, NEW hosts \in SUBSET Hosts,
           NEW requests \in SUBSET Requests, Surfaces!Begin(c, hosts, requests)
    PROVE  Stays(c)
<1> PICK who \in Surfaces!Callers(hosts), i \in requests : Surfaces!Start(c, who, i)
  BY DEF Surfaces!Begin
<1> DEFINE k == call[c]
           phase == CASE who.surface = "cli" -> "parsing"
                      [] who.surface = "rpc" -> "receiving"
                      [] OTHER -> "decoding"
           after == [k EXCEPT !.caller = who, !.input = i, !.phase = phase]
<1>1. Known(c)
  BY KnownCall
<1>2. /\ k.phase = "idle" /\ (i.command = "capture" => who.surface # "cli")
      /\ (who.surface = "host" => store.ready)
      /\ call' = [call EXCEPT ![c] = after] /\ store' = store
  BY DEF Surfaces!Start
<1>3. who \in Surfaces!Callers(Hosts) /\ i \in Requests
      /\ who.surface \in {"cli", "rpc", "host"}
  BY DEF Surfaces!Callers
<1>4. /\ DOMAIN after = Fields /\ after.phase = phase /\ after.caller = who /\ after.input = i
      /\ after.answer = k.answer /\ after.events = k.events
  BY <1>1 DEF Known, Fields
<1>5. /\ phase \in {"parsing", "receiving", "decoding"}
      /\ phase = "parsing" <=> who.surface = "cli"
      /\ phase = "decoding" => who.surface = "host"
  BY <1>3
<1> HIDE DEF after, phase
<1>6. ~Acted(after) /\ k.answer # "internal"
  BY <1>1, <1>2, <1>4 DEF Known, CallInv, Shape, Acted
<1>7. Shape(after)
  BY <1>2, <1>3, <1>4, <1>5, <1>6, IdleFields DEF Shape, Running, ByCli
<1>8. CallInv(after, store)
  BY <1>2, <1>4, <1>5, <1>6, <1>7
     DEF CallInv, Understood, Allowed, Opened, Counted, Receipted, HasRead
<1>9. QED BY <1>1, <1>2, <1>6, <1>8, MovedCall DEF Stays

LEMMA CliParseKeeps ==
    ASSUME SurfacesInv, NEW c \in Calls, Surfaces!CliParse(c)
    PROVE  Stays(c)
<1> DEFINE k == call[c]
           after == [k EXCEPT !.phase = "opening", !.mutation = Surfaces!CliMutation(k.input),
                              !.changes = Surfaces!CliChanges(k.input)]
<1>1. Known(c) /\ k.phase = "parsing" /\ store' = store
  BY KnownCall DEF Surfaces!CliParse
<1>2. CASE Surfaces!Answer(c, "usage")
  BY <1>1, <1>2, AnswerKeeps DEF Running
<1>3. CASE ~Surfaces!CliUsageError(k.input) /\ call' = [call EXCEPT ![c] = after]
  <2>1. /\ DOMAIN after = Fields /\ after.phase = "opening"
        /\ after.mutation = Surfaces!CliMutation(k.input)
        /\ after.changes = Surfaces!CliChanges(k.input)
        /\ after.caller = k.caller /\ after.input = k.input
        /\ after.answer = k.answer /\ after.events = k.events
    BY <1>1 DEF Known, Fields
  <2> HIDE DEF after
  <2>2. /\ Shape(k) /\ ByCli(k) /\ ~Acted(k) /\ k.answer # "internal"
        /\ k.input.command # "capture"
    BY <1>1 DEF Known, CallInv, Shape, Running
  <2>3. Shape(after) /\ ~Acted(after)
    BY <1>1, <2>1, <2>2, IdleFields DEF Shape, Running, ByCli, Acted
  <2>4. CallInv(after, store)
    BY <1>3, <2>1, <2>2, <2>3
       DEF CallInv, Understood, Allowed, Opened, Counted, Receipted, ByCli
  <2>5. QED BY <1>1, <1>3, <2>3, <2>4, MovedCall DEF Stays
<1>4. QED BY <1>2, <1>3 DEF Surfaces!CliParse

LEMMA GotoFields ==
    ASSUME NEW c \in Calls, Known(c), NEW phase, Surfaces!Goto(c, phase)
    PROVE  /\ DOMAIN call' = Calls /\ \A d \in Calls \ {c} : call'[d] = call[d]
           /\ DOMAIN call'[c] = Fields /\ call'[c].phase = phase
           /\ \A f \in Fields \ {"phase"} : call'[c][f] = call[c][f]
BY DEF Known, Surfaces!Goto

LEMMA RpcReceiveKeeps ==
    ASSUME SurfacesInv, NEW c \in Calls, Surfaces!RpcReceive(c)
    PROVE  Stays(c)
<1> DEFINE k == call[c]
           after == call'[c]
<1>1. Known(c) /\ k.phase = "receiving" /\ store' = store
  BY KnownCall DEF Surfaces!RpcReceive
<1>2. ASSUME NEW code \in {"invalid_input", "unsupported_version"}, Surfaces!Answer(c, code)
      PROVE  Stays(c)
  BY <1>1, <1>2, AnswerKeeps DEF Running
<1>3. CASE Surfaces!Goto(c, "opening")
  <2>1. /\ DOMAIN call' = Calls /\ \A d \in Calls \ {c} : call'[d] = call[d]
        /\ DOMAIN after = Fields /\ after.phase = "opening"
        /\ \A f \in Fields \ {"phase"} : after[f] = k[f]
    BY <1>1, <1>3, GotoFields
  <2>2. after.caller = k.caller /\ after.input = k.input /\ after.answer = k.answer
        /\ after.events = k.events
    BY <2>1 DEF Fields
  <2> HIDE DEF after
  <2>3. Shape(k) /\ ~ByCli(k) /\ ~Acted(k) /\ k.answer # "internal"
    BY <1>1 DEF Known, CallInv, Shape
  <2>4. Shape(after) /\ ~Acted(after) /\ ~ByCli(after)
    BY <1>1, <2>1, <2>2, <2>3, IdleFields DEF Shape, Running, ByCli, Acted
  <2>5. CallInv(after, store)
    BY <2>1, <2>4 DEF CallInv, Understood, Allowed, Opened, Counted, Receipted, HasRead
  <2>6. QED BY <1>1, <2>1, <2>4, <2>5 DEF Stays, after
<1>4. QED BY <1>2, <1>3 DEF Surfaces!RpcReceive

LEMMA OpenKeeps ==
    ASSUME SurfacesInv, NEW c \in Calls, Surfaces!Open(c)
    PROVE  Stays(c)
<1> DEFINE k == call[c]
           after == call'[c]
           phase == IF k.caller.surface = "cli" THEN "prereading" ELSE "decoding"
<1>1. Known(c) /\ k.phase = "opening" /\ store' = store
  BY KnownCall DEF Surfaces!Open
<1>2. CASE Surfaces!Answer(c, "not_initialized")
  BY <1>1, <1>2, AnswerKeeps DEF Running
<1>3. CASE store.ready /\ Surfaces!Goto(c, phase)
  <2>1. /\ DOMAIN call' = Calls /\ \A d \in Calls \ {c} : call'[d] = call[d]
        /\ DOMAIN after = Fields /\ after.phase = phase
        /\ \A f \in Fields \ {"phase"} : after[f] = k[f]
    BY <1>1, <1>3, GotoFields
  <2>2. /\ after.caller = k.caller /\ after.input = k.input /\ after.answer = k.answer
        /\ after.events = k.events /\ after.mutation = k.mutation /\ after.changes = k.changes
    BY <2>1 DEF Fields
  <2> HIDE DEF after
  <2>3. Shape(k) /\ Understood(k) /\ ~Acted(k) /\ k.answer # "internal"
    BY <1>1 DEF Known, CallInv, Shape
  <2>4. phase \in {"prereading", "decoding"} /\ (phase = "prereading" <=> ByCli(k))
    BY DEF ByCli
  <2> HIDE DEF phase
  <2>5. Shape(after) /\ ~Acted(after)
    BY <1>1, <2>1, <2>2, <2>3, <2>4, IdleFields DEF Shape, Running, ByCli, Acted
  <2>6. Understood(after)
    BY <1>1, <2>1, <2>2, <2>3, <2>4, <2>5 DEF Understood, HasRead, ByCli
  <2>7. CallInv(after, store)
    BY <1>3, <2>1, <2>2, <2>3, <2>4, <2>5, <2>6 DEF CallInv, Allowed, Opened, Counted, Receipted
  <2>8. QED BY <1>1, <2>1, <2>5, <2>7 DEF Stays, after
<1>4. QED BY <1>2, <1>3 DEF Surfaces!Open

LEMMA AskedFor ==
    ASSUME NEW i \in Requests
    PROVE  i \in Surfaces!Input /\ i.expected \in 1..MaxI64 /\ i.item \in Nat
BY CallsAssumption DEF Surfaces!SurfacesAssumption, Surfaces!Input

LEMMA PrereadKeeps ==
    ASSUME SurfacesInv, NEW c \in Calls, Surfaces!Preread(c)
    PROVE  Stays(c)
<1> DEFINE k == call[c]
           i == k.input
           it == store.items[i.item]
           counted == IF Surfaces!AtExpected(i) THEN Len(Surfaces!EventsOf(it, k.mutation)) ELSE 0
           after == [k EXCEPT !.phase = "admitting", !.overtaken = Surfaces!Behind(i),
                              !.read = store.generation, !.ids = counted]
<1>1. Known(c) /\ k.phase = "prereading" /\ store' = store
  BY KnownCall DEF Surfaces!Preread
<1>2. CASE /\ Surfaces!AtExpected(i) /\ Surfaces!MutationError(it, k.mutation) # None
           /\ Surfaces!Answer(c, Surfaces!MutationError(it, k.mutation))
  <2>1. Surfaces!MutationError(it, k.mutation) # "internal"
    BY CallsAssumption DEF Surfaces!MutationError, Surfaces!SurfacesAssumption
  <2>2. QED BY <1>1, <1>2, <2>1, AnswerKeeps DEF Running
<1>3. CASE call' = [call EXCEPT ![c] = after]
  <2>1. /\ DOMAIN after = Fields /\ after.phase = "admitting"
        /\ after.overtaken = Surfaces!Behind(i) /\ after.read = store.generation
        /\ after.ids = counted /\ after.mutation = k.mutation /\ after.changes = k.changes
        /\ after.caller = k.caller /\ after.input = i
        /\ after.answer = k.answer /\ after.events = k.events
    BY <1>1 DEF Known, Fields
  <2> HIDE DEF after
  <2>2. /\ Shape(k) /\ Understood(k) /\ Opened(k, store) /\ ByCli(k) /\ ~Acted(k)
        /\ k.answer # "internal" /\ i \in Requests /\ i.command # "capture" /\ store.ready
    BY <1>1 DEF Known, CallInv, Shape, Running, Opened
  <2>3. Shape(after) /\ ~Acted(after) /\ ByCli(after)
    BY <1>1, <2>1, <2>2, IdleFields DEF Shape, Running, ByCli, Acted
  <2>4. Understood(after)
    BY <1>1, <2>1, <2>2 DEF Understood, HasRead, ByCli
  <2>5. ASSUME ~Surfaces!Behind(i)
        PROVE  /\ i.item \in DOMAIN store.items
               /\ store.items[i.item].revision >= i.expected
               /\ store.items[i.item].revision = i.expected =>
                     counted = Len(Surfaces!EventsOf(it, k.mutation))
    <3>1. i.item \in DOMAIN store.items /\ ~(it.revision < i.expected)
      BY <2>5 DEF Surfaces!Behind, Surfaces!Exists
    <3>2. it.revision \in 1..MaxI64 /\ i.expected \in 1..MaxI64
      BY <1>1, <2>2, <3>1, ItemsOf, AskedFor DEF Known
    <3>3. it.revision >= i.expected
      BY <3>1, <3>2
    <3>4. it.revision = i.expected => Surfaces!AtExpected(i)
      BY <3>1 DEF Surfaces!AtExpected, Surfaces!Exists
    <3>5. QED BY <3>1, <3>3, <3>4
  <2> HIDE DEF counted
  <2>6. store.generation \in Nat
    BY <1>1 DEF Known, StoreInv
  <2>7. Counted(after, store)
    BY <2>1, <2>2, <2>5, <2>6 DEF Counted
  <2>8. CallInv(after, store)
    BY <2>1, <2>2, <2>3, <2>4, <2>7 DEF CallInv, Allowed, Opened, Receipted
  <2>9. QED BY <1>1, <1>3, <2>3, <2>8, MovedCall DEF Stays
<1>4. QED BY <1>2, <1>3 DEF Surfaces!Preread

LEMMA DecodeKeeps ==
    ASSUME SurfacesInv, NEW c \in Calls, Surfaces!Decode(c)
    PROVE  Stays(c)
<1> DEFINE k == call[c]
           i == k.input
           decoded == [k EXCEPT !.phase = "admitting", !.mutation = Surfaces!RpcMutation(i),
                                !.changes = Surfaces!RpcChanges(i)]
<1>1. Known(c) /\ k.phase = "decoding" /\ store' = store
  BY KnownCall DEF Surfaces!Decode
<1>2. CASE Surfaces!Answer(c, "invalid_input")
  BY <1>1, <1>2, AnswerKeeps DEF Running
<1>3. /\ Shape(k) /\ Opened(k, store) /\ ~ByCli(k) /\ ~Acted(k)
      /\ k.answer # "internal" /\ store.ready
  BY <1>1 DEF Known, CallInv, Shape, Running, Opened
<1>4. ASSUME NEW after, DOMAIN after = Fields, after.phase = "admitting",
             after.caller = k.caller, after.input = i, after.answer = k.answer,
             after.events = k.events,
             IF i.command = "capture" THEN ~Surfaces!CaptureInvalid(i)
             ELSE /\ ~Surfaces!RpcInvalid(i) /\ after.mutation = Surfaces!RpcMutation(i)
                  /\ after.changes = Surfaces!RpcChanges(i)
      PROVE  CallInv(after, store) /\ ~Acted(after)
  <2>1. Shape(after) /\ ~Acted(after) /\ ~ByCli(after)
    BY <1>1, <1>3, <1>4, IdleFields DEF Shape, Running, ByCli, Acted
  <2>2. Understood(after)
    BY <1>4, <2>1 DEF Understood
  <2>3. QED BY <1>3, <1>4, <2>1, <2>2 DEF CallInv, Allowed, Opened, Receipted, Counted
<1>5. CASE i.command = "capture" /\ ~Surfaces!CaptureInvalid(i) /\ Surfaces!Goto(c, "admitting")
  <2> DEFINE after == call'[c]
  <2>1. /\ DOMAIN call' = Calls /\ \A d \in Calls \ {c} : call'[d] = call[d]
        /\ DOMAIN after = Fields /\ after.phase = "admitting"
        /\ \A f \in Fields \ {"phase"} : after[f] = k[f]
    BY <1>1, <1>5, GotoFields
  <2>2. after.caller = k.caller /\ after.input = i /\ after.answer = k.answer
        /\ after.events = k.events
    BY <2>1 DEF Fields
  <2>3. CallInv(after, store) /\ ~Acted(after)
    BY <1>4, <1>5, <2>1, <2>2
  <2>4. QED BY <1>1, <2>1, <2>3 DEF Stays
<1>6. CASE /\ i.command # "capture" /\ ~Surfaces!RpcInvalid(i)
           /\ call' = [call EXCEPT ![c] = decoded]
  <2>1. /\ DOMAIN decoded = Fields /\ decoded.phase = "admitting"
        /\ decoded.mutation = Surfaces!RpcMutation(i)
        /\ decoded.changes = Surfaces!RpcChanges(i)
        /\ decoded.caller = k.caller /\ decoded.input = i
        /\ decoded.answer = k.answer /\ decoded.events = k.events
    BY <1>1 DEF Known, Fields
  <2> HIDE DEF decoded
  <2>2. CallInv(decoded, store) /\ ~Acted(decoded)
    BY <1>4, <1>6, <2>1
  <2>3. QED BY <1>1, <1>6, <2>2, MovedCall DEF Stays
<1>7. QED BY <1>2, <1>5, <1>6 DEF Surfaces!Decode

LEMMA AdmitKeeps ==
    ASSUME SurfacesInv, NEW c \in Calls, Surfaces!Admit(c)
    PROVE  Stays(c)
<1> DEFINE k == call[c]
           overtaken == k.overtaken \/ (k.caller.surface = "cli" /\ k.read # store.generation)
           ids == IF k.caller.surface = "cli" THEN k.ids ELSE k.caller.facts.ids
           after == [k EXCEPT !.phase = "transacting", !.pin = store.generation,
                              !.overtaken = overtaken, !.ids = ids]
<1>1. Known(c) /\ k.phase = "admitting" /\ store' = store
  BY KnownCall DEF Surfaces!Admit
<1>2. CASE Surfaces!Answer(c, "unauthorized")
  BY <1>1, <1>2, AnswerKeeps DEF Running
<1>3. CASE /\ Surfaces!Authorized(k.caller.facts, k.input.command, k.changes)
           /\ call' = [call EXCEPT ![c] = after]
  <2>1. /\ DOMAIN after = Fields /\ after.phase = "transacting" /\ after.pin = store.generation
        /\ after.overtaken = overtaken /\ after.ids = ids /\ after.read = k.read
        /\ after.mutation = k.mutation /\ after.changes = k.changes
        /\ after.caller = k.caller /\ after.input = k.input
        /\ after.answer = k.answer /\ after.events = k.events
    BY <1>1 DEF Known, Fields
  <2> HIDE DEF after
  <2>2. /\ Shape(k) /\ Understood(k) /\ Opened(k, store) /\ Counted(k, store) /\ ~Acted(k)
        /\ k.answer # "internal" /\ store.ready
    BY <1>1 DEF Known, CallInv, Shape, Running, Opened
  <2>3. Shape(after) /\ ~Acted(after) /\ (ByCli(after) <=> ByCli(k))
    BY <1>1, <2>1, <2>2, IdleFields DEF Shape, Running, ByCli, Acted
  <2>4. Understood(after)
    BY <1>1, <2>1, <2>2 DEF Understood, HasRead, ByCli
  <2>5. Allowed(after)
    BY <1>3, <2>1, <2>3 DEF Allowed
  <2>6. ByCli(k) => ids = k.ids /\ (~overtaken => ~k.overtaken /\ k.read = store.generation)
    BY DEF ByCli
  <2> HIDE DEF ids, overtaken
  <2>7. Counted(after, store)
    BY <1>1, <2>1, <2>2, <2>3, <2>6 DEF Counted
  <2>8. CallInv(after, store)
    BY <2>1, <2>2, <2>3, <2>4, <2>5, <2>7 DEF CallInv, Opened, Receipted
  <2>9. QED BY <1>1, <1>3, <2>3, <2>8, MovedCall DEF Stays
<1>4. QED BY <1>2, <1>3 DEF Surfaces!Admit

LEMMA ReplyKeeps ==
    ASSUME SurfacesInv, NEW c \in Calls, Surfaces!Reply(c) \/ Surfaces!Crash(c)
    PROVE  Stays(c)
<1> DEFINE k == call[c]
<1>1. Known(c) /\ store' = store /\ k.phase \in Running
      /\ Shape(k) /\ Understood(k) /\ Allowed(k) /\ Receipted(k, store)
  BY KnownCall DEF Surfaces!Reply, Surfaces!Crash, Known, CallInv, Shape, Running
<1>2. ASSUME NEW after, NEW phase \in {"answered", "dead"}, DOMAIN after = Fields,
             after.phase = phase, \A f \in Fields \ {"phase"} : after[f] = k[f]
      PROVE  CallInv(after, store) /\ after.at = k.at /\ after.input = k.input
  <2>1. /\ after.caller = k.caller /\ after.input = k.input /\ after.answer = k.answer
        /\ after.events = k.events /\ after.mutation = k.mutation /\ after.changes = k.changes
        /\ after.at = k.at
    BY <1>2 DEF Fields
  <2>2. (Acted(after) <=> Acted(k)) /\ (ByCli(after) <=> ByCli(k))
    BY <2>1 DEF Acted, ByCli
  <2>3. k.answer # "internal"
    BY <1>1 DEF Shape, Running
  <2>4. Shape(after)
    BY <1>1, <1>2, <2>1, <2>2, <2>3, IdleFields DEF Shape, Running
  <2>5. Understood(after) /\ Allowed(after)
    BY <1>1, <1>2, <2>1, <2>2 DEF Understood, Allowed, HasRead
  <2>6. Receipted(after, store)
    BY <1>1, <2>1, <2>2 DEF Receipted
  <2>7. QED BY <1>2, <2>1, <2>3, <2>4, <2>5, <2>6 DEF CallInv, Opened, Counted
<1>3. CASE Surfaces!Reply(c)
  <2>1. Surfaces!Goto(c, "answered")
    BY <1>3 DEF Surfaces!Reply
  <2>2. /\ DOMAIN call' = Calls /\ \A d \in Calls \ {c} : call'[d] = call[d]
        /\ DOMAIN call'[c] = Fields /\ call'[c].phase = "answered"
        /\ \A f \in Fields \ {"phase"} : call'[c][f] = k[f]
    BY <1>1, <2>1, GotoFields
  <2>3. CallInv(call'[c], store) /\ call'[c].at = k.at /\ call'[c].input = k.input
    BY <1>2, <2>2
  <2>4. Acted(call'[c]) => Acted(k)
    BY <2>2 DEF Acted, Fields
  <2>5. QED BY <1>1, <2>2, <2>3, <2>4 DEF Stays
<1>4. CASE Surfaces!Crash(c) /\ Acted(k)
  <2> DEFINE after == [k EXCEPT !.phase = "dead"]
  <2>1. call' = [call EXCEPT ![c] = after]
    BY <1>4 DEF Surfaces!Crash, Acted
  <2>2. /\ DOMAIN after = Fields /\ after.phase = "dead"
        /\ \A f \in Fields \ {"phase"} : after[f] = k[f]
    BY <1>1 DEF Known
  <2> HIDE DEF after
  <2>3. CallInv(after, store) /\ after.at = k.at /\ after.input = k.input
    BY <1>2, <2>2
  <2>4. QED BY <1>1, <1>4, <2>1, <2>3, MovedCall DEF Stays
<1>5. CASE Surfaces!Crash(c) /\ ~Acted(k)
  <2> DEFINE after == [Surfaces!Idle EXCEPT !.phase = "dead"]
  <2>1. call' = [call EXCEPT ![c] = after]
    BY <1>5 DEF Surfaces!Crash, Acted
  <2>2. /\ DOMAIN after = DOMAIN Surfaces!Idle /\ after.phase = "dead" /\ after.answer = None
        /\ after.events = << >>
    BY DEF Surfaces!Idle
  <2> HIDE DEF after
  <2>3. None # "internal"
    BY CallsAssumption DEF Surfaces!SurfacesAssumption
  <2>4. CallInv(after, store) /\ ~Acted(after)
    BY <2>2, <2>3 DEF CallInv, Shape, Understood, Allowed, Opened, Counted, Receipted, HasRead,
                      Acted, Running
  <2>5. QED BY <1>1, <2>1, <2>4, MovedCall DEF Stays
<1>6. QED BY <1>3, <1>4, <1>5

LEMMA BusyKeeps ==
    ASSUME SurfacesInv, NEW c \in Calls, Surfaces!Busy(c)
    PROVE  Stays(c)
BY AnswerKeeps DEF Surfaces!Busy, Running

-----------------------------------------------------------------------------
(* The transaction.  Nothing stands in its way: the item is at the expected *)
(* revision and takes the mutation.                                         *)
LEMMA NothingInTheWay ==
    ASSUME NEW k, k.input.command # "capture", Surfaces!Receipts(k) = {},
           Surfaces!Refusal(k) = None
    PROVE  /\ k.input.item \in DOMAIN store.items
           /\ store.items[k.input.item].revision = k.input.expected
           /\ Surfaces!MutationError(store.items[k.input.item], k.mutation) = None
<1>1. None \notin {"not_found", "version_conflict"}
  BY CallsAssumption DEF Surfaces!SurfacesAssumption
<1>2. Surfaces!MutationRefusal(k) = None
  BY DEF Surfaces!Refusal
<1>3. QED BY <1>1, <1>2 DEF Surfaces!MutationRefusal, Surfaces!Exists

LEMMA RefusedStays ==
    ASSUME SurfacesInv, NEW c \in Calls, call[c].phase = "transacting", UNCHANGED store,
           \E code : Surfaces!Answer(c, code) /\ code # "internal"
    PROVE  Stays(c)
BY AnswerKeeps DEF Running

LEMMA MisfitStays ==
    ASSUME SurfacesInv, NEW c \in Calls, call[c].phase = "transacting", UNCHANGED store,
           call[c].input.command # "capture", call[c].pin = store.generation,
           Surfaces!Receipts(call[c]) = {}, Surfaces!Refusal(call[c]) = None,
           call[c].ids # Len(Surfaces!EffectOf(call[c])), Surfaces!Answer(c, "internal")
    PROVE  Stays(c)
<1> DEFINE k == call[c]
           it == store.items[k.input.item]
<1>1. Known(c)
  BY KnownCall
<1>2. it.revision = k.input.expected
  BY NothingInTheWay
<1>3. k.ids # Len(Surfaces!EventsOf(it, k.mutation))
  BY DEF Surfaces!EffectOf
<1>4. ByCli(k) => k.overtaken
  BY <1>1, <1>2, <1>3 DEF Known, CallInv, Counted
<1>5. QED BY <1>4, AnswerKeeps DEF Running

(* A store after a commit holds one receipt more, and one item is new or    *)
(* one revision later.                                                      *)
CommitsTo(k, s, t) ==
    LET receipt == [key |-> k.input.key, hash |-> Surfaces!HashOf(k)]
    IN  /\ t.ready = s.ready /\ t.generation = s.generation
        /\ t.receipts = s.receipts \cup {receipt}
        /\ t.items \in Seq(Item)
        /\ \A n \in DOMAIN s.items :
              /\ n \in DOMAIN t.items
              /\ t.items[n] = s.items[n] \/ t.items[n].revision > s.items[n].revision
        /\ receipt.hash[1] = "mutation" =>
              /\ receipt.hash[2] \in DOMAIN t.items /\ receipt.hash[3] \in Nat
              /\ t.items[receipt.hash[2]].revision > receipt.hash[3]

LEMMA CaptureCommits ==
    ASSUME SurfacesInv, NEW c \in Calls, call[c].phase = "transacting",
           call[c].input.command = "capture", Surfaces!Commit(c)
    PROVE  CommitsTo(call[c], store, store')
<1> DEFINE k == call[c]
           new == NewItem(k.input.content)
           hash == Surfaces!HashOf(k)
<1>1. Known(c) /\ k.input \in Requests /\ ~Surfaces!CaptureInvalid(k.input)
  BY KnownCall DEF Known, CallInv, Shape, Understood, HasRead, Running
<1>2. new \in Item
  <2>1. k.input.content \in Contents
    BY <1>1, AskedFor DEF Surfaces!Input, Surfaces!CaptureInvalid, Surfaces!Unknown
  <2>2. QED BY <2>1, NewItemType
<1>3. /\ store'.ready = store.ready /\ store'.generation = store.generation
      /\ store'.receipts = store.receipts \cup {[key |-> k.input.key, hash |-> hash]}
      /\ store'.items = Append(store.items, new)
  <2>1. Surfaces!ItemsAfter(k) = Append(store.items, new)
    BY SameRules DEF Surfaces!ItemsAfter
  <2>2. QED BY <1>1, <2>1 DEF Surfaces!Commit, Known, StoreInv
<1>4. store.items \in Seq(Item)
  BY <1>1 DEF Known, StoreInv
<1> HIDE DEF new
<1>5. store'.items \in Seq(Item) /\ \A n \in DOMAIN store.items :
          n \in DOMAIN store'.items /\ store'.items[n] = store.items[n]
  BY <1>2, <1>3, <1>4
<1>6. hash[1] = "capture"
  BY DEF Surfaces!HashOf
<1> HIDE DEF hash
<1>7. CommitsTo(k, store, store')
  BY <1>3, <1>5, <1>6 DEF CommitsTo, hash
<1>8. QED BY <1>7

LEMMA MutationCommits ==
    ASSUME SurfacesInv, NEW c \in Calls, call[c].phase = "transacting",
           call[c].input.command # "capture", Surfaces!Receipts(call[c]) = {},
           Surfaces!Refusal(call[c]) = None,
           store.items[call[c].input.item].revision # MaxI64, Surfaces!Commit(c)
    PROVE  CommitsTo(call[c], store, store')
<1> DEFINE k == call[c]
           n == k.input.item
           it == store.items[n]
           after == Mutated(it, k.mutation)
           hash == Surfaces!HashOf(k)
<1>1. Known(c) /\ k.input \in Requests
  BY KnownCall DEF Known, CallInv, Shape, Running
<1>2. /\ n \in DOMAIN store.items /\ it.revision = k.input.expected
      /\ MutationError(it, k.mutation) = None
  BY NothingInTheWay, SameRules
<1>3. k.mutation \in Mutation
  <2>1. Understood(k) /\ HasRead(k)
    BY <1>1 DEF Known, CallInv, HasRead
  <2>2. k.input \in Surfaces!Input
    BY <1>1, AskedFor
  <2>3. QED BY <2>1, <2>2, DecodedType DEF Understood
<1>4. it \in Item /\ it.revision \in 1..MaxI64 /\ store.items \in Seq(Item)
  BY <1>1, <1>2, ItemsOf DEF Known, StoreInv
<1>5. it.revision < MaxI64 /\ MaxI64 \in Nat
  BY <1>4, DomainAssumption
<1>6. after \in Item /\ after.revision = it.revision + 1
  BY <1>2, <1>3, <1>4, <1>5, MutatedFacts
<1>7. /\ store'.ready = store.ready /\ store'.generation = store.generation
      /\ store'.receipts = store.receipts \cup {[key |-> k.input.key, hash |-> hash]}
      /\ store'.items = [store.items EXCEPT ![n] = after]
  <2>1. Surfaces!ItemsAfter(k) = [store.items EXCEPT ![n] = after]
    BY SameRules DEF Surfaces!ItemsAfter
  <2>2. QED BY <1>1, <2>1 DEF Surfaces!Commit, Known, StoreInv
<1>8. hash[2] = n /\ hash[3] = k.input.expected
  BY DEF Surfaces!HashOf
<1> HIDE DEF after, hash
<1>9. store'.items \in Seq(Item)
  BY <1>4, <1>6, <1>7, <1>2
<1>10. /\ DOMAIN store'.items = DOMAIN store.items /\ store'.items[n] = after
       /\ \A m \in DOMAIN store.items : m # n => store'.items[m] = store.items[m]
  BY <1>2, <1>7
<1>11. after.revision > it.revision
  BY <1>4, <1>6
<1> HIDE DEF it, n
<1>12. \A m \in DOMAIN store.items :
          store'.items[m] = store.items[m] \/ store'.items[m].revision > store.items[m].revision
  BY <1>10, <1>11 DEF it
<1>13. store'.items[n].revision > k.input.expected /\ k.input.expected \in Nat
  BY <1>1, <1>2, <1>10, <1>11, AskedFor
<1>14. CommitsTo(k, store, store')
  BY <1>2, <1>7, <1>8, <1>9, <1>10, <1>12, <1>13 DEF CommitsTo, hash
<1>15. QED BY <1>14

LEMMA CommittedStore ==
    ASSUME NEW k, NEW s, NEW t, StoreInv(s), CommitsTo(k, s, t), DOMAIN t = DOMAIN s, s.ready
    PROVE  StoreInv(t) /\ Grows(s, t)
<1>1. /\ t.ready = s.ready /\ t.generation = s.generation /\ t.items \in Seq(Item)
      /\ s.generation \in Nat /\ s.ready \in BOOLEAN
      /\ \A n \in DOMAIN s.items :
            /\ n \in DOMAIN t.items
            /\ t.items[n] = s.items[n] \/ t.items[n].revision > s.items[n].revision
  BY DEF StoreInv, CommitsTo
<1>2. ASSUME NEW n \in DOMAIN s.items
      PROVE  /\ n \in DOMAIN t.items
             /\ s.items[n].revision \in Nat /\ t.items[n].revision \in Nat
             /\ t.items[n].revision >= s.items[n].revision
             /\ t.items[n].revision = s.items[n].revision => t.items[n] = s.items[n]
  <2>1. n \in DOMAIN t.items
    BY <1>1
  <2>2. t.items[n] \in Item /\ s.items[n].revision \in 1..MaxI64
    BY <1>1, <2>1, ItemsOf
  <2>3. s.items[n].revision \in Nat /\ t.items[n].revision \in Nat
    BY <2>2, DomainAssumption DEF Item
  <2>4. QED BY <1>1, <2>1, <2>3
<1>3. Grows(s, t)
  BY <1>1, <1>2 DEF Grows, CommitsTo
<1>4. ASSUME NEW r \in t.receipts, r.hash[1] = "mutation"
      PROVE  /\ r.hash[2] \in DOMAIN t.items /\ r.hash[3] \in Nat
             /\ t.items[r.hash[2]].revision > r.hash[3]
  <2>1. CASE r \in s.receipts
    <3>1. /\ r.hash[2] \in DOMAIN s.items /\ r.hash[3] \in Nat
          /\ s.items[r.hash[2]].revision > r.hash[3]
      BY <1>4, <2>1 DEF StoreInv
    <3>2. t.items[r.hash[2]] = s.items[r.hash[2]]
          \/ t.items[r.hash[2]].revision > s.items[r.hash[2]].revision
      BY <1>1, <3>1
    <3>3. CASE t.items[r.hash[2]] = s.items[r.hash[2]]
      BY <1>2, <3>1, <3>3
    <3>4. CASE t.items[r.hash[2]].revision > s.items[r.hash[2]].revision
      BY <1>2, <3>1, <3>4
    <3>5. QED BY <3>2, <3>3, <3>4
  <2>2. CASE r \notin s.receipts
    BY <1>4, <2>2 DEF CommitsTo
  <2>3. QED BY <2>1, <2>2
<1>5. StoreInv(t)
  BY <1>1, <1>4 DEF StoreInv
<1>6. QED BY <1>3, <1>5

(* What a commit did was named by the changes its call was authorized for.  *)
LEMMA EffectsAreAllowed ==
    ASSUME SurfacesInv, NEW c \in Calls, call[c].phase = "transacting",
           call[c].input.command # "capture", Surfaces!Receipts(call[c]) = {},
           Surfaces!Refusal(call[c]) = None
    PROVE  \A n \in DOMAIN Surfaces!EffectOf(call[c]) :
              Surfaces!ChangeOf(Surfaces!EffectOf(call[c])[n])
                  \in Surfaces!AllowedBy(call[c].changes)
<1> DEFINE k == call[c]
           i == k.input
           it == store.items[i.item]
<1>1. Known(c) /\ i \in Requests /\ Understood(k) /\ HasRead(k)
  BY KnownCall DEF Known, CallInv, Shape, Running, HasRead
<1>2. i \in Surfaces!Input /\ it \in Item
  BY <1>1, AskedFor, NothingInTheWay, ItemsOf DEF Known
<1>3. k.mutation \in Mutation /\ NamesOf(k.mutation) \subseteq Surfaces!AllowedBy(k.changes)
  <2>1. CASE ByCli(k)
    BY <1>1, <1>2, <2>1, DecodedType, ChangesAreListed DEF Understood
  <2>2. CASE ~ByCli(k)
    BY <1>1, <1>2, <2>2, DecodedType, ChangesAreListed DEF Understood
  <2>3. QED BY <2>1, <2>2
<1>4. Surfaces!EffectOf(k) = EventsOf(it, k.mutation)
  BY SameRules DEF Surfaces!EffectOf
<1>5. \A n \in DOMAIN EventsOf(it, k.mutation) :
          Surfaces!ChangeOf(EventsOf(it, k.mutation)[n]) \in NamesOf(k.mutation)
  BY <1>2, <1>3, EventsAreNamed
<1>6. QED BY <1>3, <1>4, <1>5

LEMMA CommitKeeps ==
    ASSUME SurfacesInv, NEW c \in Calls, call[c].phase = "transacting",
           Surfaces!Receipts(call[c]) = {}, Surfaces!Refusal(call[c]) = None,
           Surfaces!EffectOf(call[c]) # << >>,
           call[c].input.command = "capture"
             \/ store.items[call[c].input.item].revision # MaxI64,
           Surfaces!Commit(c)
    PROVE  SurfacesInv'
<1> DEFINE k == call[c]
           effect == Surfaces!EffectOf(k)
           after == [k EXCEPT !.phase = "replying", !.answer = "ok", !.events = effect,
                              !.at = store.generation]
<1>1. Known(c) /\ k.input \in Requests /\ Shape(k) /\ Understood(k) /\ Allowed(k) /\ store.ready
  BY KnownCall DEF Known, CallInv, Shape, Running, Opened
<1>2. CommitsTo(k, store, store')
  BY CaptureCommits, MutationCommits
<1>3. DOMAIN store' = DOMAIN store
  BY DEF Surfaces!Commit
<1>4. StoreInv(store') /\ Grows(store, store')
  BY <1>1, <1>2, <1>3, CommittedStore DEF Known
<1>5. \A n \in DOMAIN effect : k.input.command # "capture" =>
          Surfaces!ChangeOf(effect[n]) \in Surfaces!AllowedBy(k.changes)
  BY EffectsAreAllowed
<1>6. call' = [call EXCEPT ![c] = after]
  BY DEF Surfaces!Commit
<1> HIDE DEF effect
<1>7. /\ DOMAIN after = Fields /\ after.phase = "replying" /\ after.answer = "ok"
      /\ after.events = effect /\ after.at = store.generation
      /\ after.mutation = k.mutation /\ after.changes = k.changes
      /\ after.caller = k.caller /\ after.input = k.input
  BY <1>1 DEF Known, Fields
<1> HIDE DEF after
<1>8. CallInv(after, store')
  <2>1. Acted(after) /\ (ByCli(after) <=> ByCli(k))
    BY <1>7 DEF Acted, ByCli, effect
  <2>2. Shape(after)
    BY <1>1, <1>7, <2>1, IdleFields DEF Shape, Running
  <2>3. Understood(after)
    BY <1>1, <1>7, <2>1 DEF Understood, HasRead
  <2>4. Allowed(after)
    BY <1>1, <1>5, <1>7 DEF Allowed
  <2>5. Receipted(after, store')
    <3> DEFINE r == [key |-> k.input.key, hash |-> Surfaces!HashOf(k)]
    <3>1. store'.generation = store.generation /\ r \in store'.receipts
      BY <1>2 DEF CommitsTo
    <3>2. r.key = k.input.key /\ store.generation \in Nat
      BY <1>1 DEF Known, StoreInv
    <3> HIDE DEF r
    <3>3. QED BY <1>7, <3>1, <3>2 DEF Receipted
  <2>6. QED BY <1>7, <2>2, <2>3, <2>4, <2>5 DEF CallInv, Opened, Counted
<1>9. call'[c] = after /\ DOMAIN call' = Calls /\ \A d \in Calls \ {c} : call'[d] = call[d]
  BY <1>1, <1>6, MovedCall
<1>10. \A d \in Calls \ {c} : CallInv(call'[d], store')
  <2> SUFFICES ASSUME NEW d \in Calls \ {c} PROVE CallInv(call[d], store')
    BY <1>9
  <2>1. CallInv(call[d], store) /\ StoreInv(store)
    BY DEF SurfacesInv
  <2>2. Acted(call[d]) \/ call[d].phase \in {"admitting", "transacting"}
          => call[d].input.expected \in Nat
    BY <2>1, AskedFor, DomainAssumption DEF CallInv, Shape, Running
  <2>3. QED BY <1>4, <2>1, <2>2, CallGrows
<1>11. KeysApart'
  <2>1. ASSUME NEW d \in Calls \ {c}, Acted(call[d]), call[d].at = store.generation
        PROVE  call[d].input.key # k.input.key
    <3>1. \E r \in store.receipts : r.key = call[d].input.key
      BY <2>1 DEF SurfacesInv, CallInv, Receipted
    <3>2. QED BY <3>1 DEF Surfaces!Receipts
  <2> SUFFICES ASSUME NEW d \in Calls, NEW e \in Calls, d # e,
                      Acted(call'[d]), Acted(call'[e]), call'[d].at = call'[e].at
               PROVE  call'[d].input.key # call'[e].input.key
    BY DEF KeysApart
  <2>2. CASE d # c /\ e # c
    BY <1>9, <2>2 DEF SurfacesInv, KeysApart
  <2>3. CASE d = c
    BY <1>7, <1>9, <2>1, <2>3
  <2>4. CASE e = c
    BY <1>7, <1>9, <2>1, <2>4
  <2>5. QED BY <2>2, <2>3, <2>4
<1>12. QED BY <1>4, <1>8, <1>9, <1>10, <1>11 DEF SurfacesInv

LEMMA TransactKeeps ==
    ASSUME SurfacesInv, NEW c \in Calls, Surfaces!Transact(c)
    PROVE  SurfacesInv'
<1> DEFINE k == call[c]
           mutates == k.input.command # "capture"
           refusal == Surfaces!Refusal(k)
<1>1. k.phase = "transacting"
  BY DEF Surfaces!Transact
<1>2. CASE k.pin # store.generation
  BY <1>1, <1>2, RefusedStays, StaysKeeps DEF Surfaces!Transact
<1>3. refusal # "internal"
  <2>1. None # "internal"
    BY CallsAssumption DEF Surfaces!SurfacesAssumption
  <2>2. Surfaces!MutationRefusal(k) # "internal"
    BY <2>1 DEF Surfaces!MutationRefusal, Surfaces!MutationError
  <2>3. QED BY <2>1, <2>2 DEF Surfaces!Refusal
<1>4. CASE k.pin = store.generation /\ refusal # None
  <2>1. Surfaces!Answer(c, refusal) /\ UNCHANGED store
    BY <1>4 DEF Surfaces!Transact
  <2>2. QED BY <1>1, <1>3, <2>1, RefusedStays, StaysKeeps
<1>5. CASE /\ k.pin = store.generation /\ refusal = None
           /\ Surfaces!Receipts(k) # {} \/ Surfaces!EffectOf(k) = << >>
  <2>1. Surfaces!Answer(c, "ok") /\ UNCHANGED store
    BY <1>5 DEF Surfaces!Transact
  <2>2. QED BY <1>1, <2>1, RefusedStays, StaysKeeps
<1>6. CASE /\ k.pin = store.generation /\ refusal = None
           /\ Surfaces!Receipts(k) = {} /\ Surfaces!EffectOf(k) # << >>
  <2>1. CASE mutates /\ k.ids # Len(Surfaces!EffectOf(k))
    <3>1. Surfaces!Answer(c, "internal") /\ UNCHANGED store
      BY <1>6, <2>1 DEF Surfaces!Transact
    <3>2. QED BY <1>1, <1>6, <2>1, <3>1, MisfitStays, StaysKeeps
  <2>2. CASE /\ ~(mutates /\ k.ids # Len(Surfaces!EffectOf(k)))
             /\ mutates /\ store.items[k.input.item].revision = MaxI64
    <3>1. Surfaces!Answer(c, "revision_limit") /\ UNCHANGED store
      BY <1>6, <2>2 DEF Surfaces!Transact
    <3>2. QED BY <1>1, <3>1, RefusedStays, StaysKeeps
  <2>3. CASE /\ ~(mutates /\ k.ids # Len(Surfaces!EffectOf(k)))
             /\ ~(mutates /\ store.items[k.input.item].revision = MaxI64)
    <3>1. Surfaces!Commit(c)
      BY <1>6, <2>3 DEF Surfaces!Transact
    <3>2. QED BY <1>1, <1>6, <2>3, <3>1, CommitKeeps
  <2>4. QED BY <2>1, <2>2, <2>3
<1>7. QED BY <1>2, <1>4, <1>5, <1>6

(* The operator's steps: calls keep what they know of a store that is gone. *)
LEMMA OperatorKeeps ==
    ASSUME SurfacesInv, Surfaces!Initialize \/ Surfaces!Restore
    PROVE  SurfacesInv'
<1>1. StoreInv(store)
  BY DEF SurfacesInv
<1>2. StoreInv(store') /\ Grows(store, store')
  <2>1. CASE Surfaces!Initialize
    <3>1. /\ ~store.ready /\ store.generation = 1 /\ store.items = << >> /\ store.receipts = {}
      BY <1>1, <2>1 DEF Surfaces!Initialize, StoreInv
    <3>2. /\ DOMAIN store' = {"ready", "generation", "items", "receipts"} /\ store'.ready
          /\ store'.generation = 1 /\ store'.items = << >> /\ store'.receipts = {}
          /\ store'.ready \in BOOLEAN
      BY <2>1 DEF Surfaces!Initialize, Surfaces!StoreWith
    <3>3. << >> \in Seq(Item) /\ DOMAIN << >> = {}
      OBVIOUS
    <3>4. QED BY <3>1, <3>2, <3>3 DEF StoreInv, Grows
  <2>2. CASE Surfaces!Restore
    <3>1. PICK t \in Contents :
            store' = Surfaces!StoreWith(<<NewItem(t)>>, store.generation + 1)
      BY <2>2, SameRules DEF Surfaces!Restore
    <3>2. store.generation \in Nat /\ NewItem(t) \in Item
      BY <1>1, NewItemType DEF StoreInv
    <3>3. /\ DOMAIN store' = {"ready", "generation", "items", "receipts"} /\ store'.ready
          /\ store'.generation = store.generation + 1 /\ store'.items = <<NewItem(t)>>
          /\ store'.receipts = {} /\ store'.ready \in BOOLEAN
      BY <3>1 DEF Surfaces!StoreWith
    <3>4. <<NewItem(t)>> \in Seq(Item)
      BY <3>2
    <3>5. QED BY <3>2, <3>3, <3>4 DEF StoreInv, Grows
  <2>3. QED BY <2>1, <2>2
<1>3. call' = call
  BY DEF Surfaces!Initialize, Surfaces!Restore
<1>4. ASSUME NEW c \in Calls PROVE CallInv(call[c], store')
  <2>1. CallInv(call[c], store)
    BY DEF SurfacesInv
  <2>2. Acted(call[c]) \/ call[c].phase \in {"admitting", "transacting"}
          => call[c].input.expected \in Nat
    BY <2>1, AskedFor, DomainAssumption DEF CallInv, Shape, Running
  <2>3. QED BY <1>1, <1>2, <2>1, <2>2, CallGrows
<1>5. QED BY <1>2, <1>3, <1>4 DEF SurfacesInv, KeysApart

LEMMA SurfacesStart == Surfaces!Init => SurfacesInv
<1> SUFFICES ASSUME Surfaces!Init PROVE SurfacesInv
  OBVIOUS
<1>1. StoreInv(store)
  <2>1. CASE store = [Surfaces!StoreWith(<< >>, 1) EXCEPT !.ready = FALSE]
    <3>1. /\ DOMAIN store = {"ready", "generation", "items", "receipts"} /\ store.ready = FALSE
          /\ store.generation = 1 /\ store.items = << >> /\ store.receipts = {}
          /\ store.ready \in BOOLEAN
      BY <2>1 DEF Surfaces!StoreWith
    <3>2. << >> \in Seq(Item)
      OBVIOUS
    <3>3. QED BY <3>1, <3>2 DEF StoreInv
  <2>2. CASE \E t \in Contents : store = Surfaces!StoreWith(<<NewItem(t)>>, 1)
    <3>1. PICK t \in Contents : store = Surfaces!StoreWith(<<NewItem(t)>>, 1)
      BY <2>2
    <3>2. <<NewItem(t)>> \in Seq(Item)
      BY NewItemType
    <3>3. QED BY <3>1, <3>2 DEF StoreInv, Surfaces!StoreWith
  <2>3. QED BY <2>1, <2>2, SameRules DEF Surfaces!Init
<1>2. DOMAIN call = Calls /\ \A c \in Calls : call[c] = Surfaces!Idle
  BY DEF Surfaces!Init
<1>3. Surfaces!Idle.phase = "idle" /\ Surfaces!Idle.events = << >> /\ Surfaces!Idle.answer = None
  BY DEF Surfaces!Idle
<1>4. None # "internal"
  BY CallsAssumption DEF Surfaces!SurfacesAssumption
<1>5. ~Acted(Surfaces!Idle) /\ CallInv(Surfaces!Idle, store)
  BY <1>3, <1>4 DEF CallInv, Shape, Understood, Allowed, Opened, Counted, Receipted, HasRead,
                    Acted, Running
<1>6. QED BY <1>1, <1>2, <1>5 DEF SurfacesInv, KeysApart

-----------------------------------------------------------------------------
(* The whole: a step is the item's, or one of the calls' or the operator's, *)
(* or leaves the calls alone.                                               *)
CallsStep ==
    \/ Surfaces!Initialize \/ Surfaces!Restore
    \/ \E c \in Calls : Surfaces!Begin(c, Hosts, Requests) \/ Surfaces!Step(c)

LEMMA CallsMove ==
    ASSUME [MutationsNext]_mutationsVars
    PROVE  CallsStep \/ UNCHANGED callVars
<1>1. CASE UNCHANGED mutationsVars
  BY <1>1 DEF mutationsVars, callVars
<1>2. CASE part = "item" /\ Next /\ UNCHANGED <<part, callVars>>
  BY <1>2
<1>3. CASE PlayScene
  <2> DEFINE scene == Scenes[part]
  <2>1. scene.requests \subseteq Requests /\ scene.hosts \subseteq Hosts
    BY <1>3, CallsAssumption DEF PlayScene
  <2>2. ASSUME NEW c \in Calls, Surfaces!Begin(c, scene.hosts, scene.requests)
        PROVE  Surfaces!Begin(c, Hosts, Requests)
    <3>1. Surfaces!Callers(scene.hosts) \subseteq Surfaces!Callers(Hosts)
      BY <2>1 DEF Surfaces!Callers
    <3>2. QED BY <2>1, <2>2, <3>1 DEF Surfaces!Begin
  <2> HIDE DEF scene
  <2>3. QED BY <1>3, <2>2 DEF PlayScene, CallsStep, scene
<1>4. QED BY <1>1, <1>2, <1>3 DEF MutationsNext

LEMMA SurfacesNext ==
    ASSUME SurfacesInv, [MutationsNext]_mutationsVars
    PROVE  SurfacesInv'
<1>1. CASE UNCHANGED callVars
  BY <1>1 DEF callVars, SurfacesInv, KeysApart
<1>2. CASE Surfaces!Initialize \/ Surfaces!Restore
  BY <1>2, OperatorKeeps
<1>3. ASSUME NEW c \in Calls, Surfaces!Begin(c, Hosts, Requests) PROVE SurfacesInv'
  BY <1>3, BeginKeeps, StaysKeeps
<1>4. ASSUME NEW c \in Calls, Surfaces!Step(c) PROVE SurfacesInv'
  <2>1. CASE Surfaces!CliParse(c) \/ Surfaces!RpcReceive(c) \/ Surfaces!Open(c)
    BY <2>1, CliParseKeeps, RpcReceiveKeeps, OpenKeeps, StaysKeeps
  <2>2. CASE Surfaces!Preread(c) \/ Surfaces!Decode(c) \/ Surfaces!Admit(c)
    BY <2>2, PrereadKeeps, DecodeKeeps, AdmitKeeps, StaysKeeps
  <2>3. CASE Surfaces!Transact(c)
    BY <2>3, TransactKeeps
  <2>4. CASE Surfaces!Reply(c) \/ Surfaces!Crash(c) \/ Surfaces!Busy(c)
    BY <2>4, ReplyKeeps, BusyKeeps, StaysKeeps
  <2>5. QED BY <1>4, <2>1, <2>2, <2>3, <2>4 DEF Surfaces!Step
<1>5. QED BY <1>1, <1>2, <1>3, <1>4, CallsMove DEF CallsStep

LEMMA SurfacesKept == MutationsSpec => []SurfacesInv
<1>1. MutationsInit => SurfacesInv
  BY SurfacesStart DEF MutationsInit
<1>2. SurfacesInv /\ [MutationsNext]_mutationsVars => SurfacesInv'
  BY SurfacesNext
<1>3. QED BY <1>1, <1>2, PTL DEF MutationsSpec

(* An agent changes nothing that the trusted instruction of its human does  *)
(* not name.  What application.rs compares are the words of the request,    *)
(* and every event of every mutation those words decode to is among them; a *)
(* person, whom a word may name in any spelling, is recorded under the      *)
(* identifier to which that spelling is normalized.                         *)
THEOREM AgentsStayInScope == MutationsSpec => []AgentStaysInScope
<1>1. SurfacesInv => AgentStaysInScope
  <2> SUFFICES ASSUME SurfacesInv, NEW c \in Calls, Acted(call[c]),
                      call[c].caller.facts.agent # None, call[c].input.command # "capture"
               PROVE  /\ call[c].caller.facts.kind = "human"
                      /\ Surfaces!Instructed(call[c].caller.facts)
                      /\ \A n \in DOMAIN call[c].events :
                            Surfaces!ChangeOf(call[c].events[n])
                                \in Surfaces!AllowedBy(call[c].caller.facts.human.changes)
    BY DEF AgentStaysInScope, Surfaces!AgentStaysInScope, Acted
  <2>1. Allowed(call[c])
    BY DEF SurfacesInv, CallInv
  <2>2. Surfaces!MayMutate(call[c].caller.facts, call[c].changes)
    BY <2>1 DEF Allowed, Surfaces!Authorized
  <2>3. QED BY <2>1, <2>2 DEF Allowed, Surfaces!MayMutate, Surfaces!AllowedBy
<1>2. QED BY <1>1, SurfacesKept, PTL

(* Within one store identity a key has one effect, whichever surfaces the   *)
(* calls that use it come through and however they are interleaved: the     *)
(* receipt is looked up and written in the transaction of the effect.       *)
THEOREM KeysActOnce == MutationsSpec => []OneEffectPerKey
<1>1. SurfacesInv => OneEffectPerKey
  BY DEF SurfacesInv, KeysApart, Acted, OneEffectPerKey, Surfaces!OneEffectPerKey
<1>2. QED BY <1>1, SurfacesKept, PTL

(* The command line and the RPC decoder make the same mutation of the same  *)
(* words, and of a convenience command what its triage would be.            *)
THEOREM SurfacesUnderstandAlike == MutationsSpec => []SurfacesAgree
<1>1. SurfacesInv => SurfacesAgree
  <2> SUFFICES ASSUME SurfacesInv, NEW c \in Calls, NEW d \in Calls,
                      Surfaces!Decoded(c), Surfaces!Decoded(d),
                      call[c].input.command # "capture", call[d].input.command # "capture",
                      Surfaces!Said(call[c].input) = Surfaces!Said(call[d].input),
                      ~\E f \in {call[c].input.priority, call[c].input.assignee} :
                          f # Surfaces!Clear /\ Surfaces!SaysClear(f)
               PROVE  call[c].mutation = call[d].mutation
    BY DEF SurfacesAgree, Surfaces!SurfacesAgree
  <2> DEFINE i == call[c].input
             j == call[d].input
  <2>1. ASSUME NEW b \in Calls, Surfaces!Decoded(b)
        PROVE  /\ call[b].input \in Surfaces!Input
               /\ call[b].input.command # "capture" =>
                    \/ /\ ~Surfaces!CliUsageError(call[b].input)
                       /\ call[b].mutation = Surfaces!CliMutation(call[b].input)
                    \/ /\ ~Surfaces!RpcInvalid(call[b].input)
                       /\ call[b].mutation = Surfaces!RpcMutation(call[b].input)
    <3>1. Shape(call[b]) /\ Understood(call[b]) /\ HasRead(call[b])
      BY <2>1 DEF SurfacesInv, CallInv, Surfaces!Decoded, HasRead
    <3>2. call[b].phase \in Running
      BY <2>1 DEF Surfaces!Decoded, Running
    <3>3. QED BY <3>1, <3>2, AskedFor DEF Shape, Understood
  <2>2. i \in Surfaces!Input /\ j \in Surfaces!Input
    BY <2>1
  <2>3. /\ i.priority = j.priority /\ i.assignee = j.assignee
        /\ Surfaces!Said(j) = Surfaces!Said(i)
    BY DEF Surfaces!Said
  <2>4. /\ Surfaces!CliMutation(i) = Surfaces!CliMutation(j)
        /\ Surfaces!RpcMutation(i) = Surfaces!RpcMutation(j)
        /\ ~Surfaces!CliUsageError(i) /\ ~Surfaces!RpcInvalid(j)
             => Surfaces!CliMutation(i) = Surfaces!RpcMutation(j)
        /\ ~Surfaces!CliUsageError(j) /\ ~Surfaces!RpcInvalid(i)
             => Surfaces!CliMutation(j) = Surfaces!RpcMutation(i)
    <3>1. ~\E f \in {j.priority, j.assignee} : f # Surfaces!Clear /\ Surfaces!SaysClear(f)
      BY <2>3
    <3> HIDE DEF i, j
    <3>2. i.command # "capture" /\ j.command # "capture"
      BY DEF i, j
    <3>3. Surfaces!Said(i) = Surfaces!Said(j)
      BY DEF i, j
    <3>4. ~\E f \in {i.priority, i.assignee} : f # Surfaces!Clear /\ Surfaces!SaysClear(f)
      BY DEF i, j
    <3>5. QED BY <2>2, <2>3, <3>1, <3>2, <3>3, <3>4, SameWordsSameMutation
  <2>5. QED BY <2>1, <2>4
<1>2. QED BY <1>1, SurfacesKept, PTL

(* When the identities the command line drew do not fit the events of the   *)
(* transaction, the item or the store was overtaken: an item of one         *)
(* generation and revision has one content, so the count is never wrong by  *)
(* itself.                                                                  *)
THEOREM CountsFit == MutationsSpec => []CountFitsUnlessOvertaken
<1>1. SurfacesInv => CountFitsUnlessOvertaken
  BY DEF SurfacesInv, CallInv, Counted, ByCli, CountFitsUnlessOvertaken,
         Surfaces!CountFitsUnlessOvertaken
<1>2. QED BY <1>1, SurfacesKept, PTL

(* What the pre-read refuses the transaction would refuse in that state:    *)
(* a receipt of the same request is younger than the revision it expects,   *)
(* so a pre-read that finds that revision is no retry of what was done.     *)
LEMMA PrereadIsRight ==
    ASSUME SurfacesInv, NEW c \in Calls, Surfaces!Preread(c), call'[c].phase = "answered"
    PROVE  Surfaces!Refusal(call[c]) # None
<1> DEFINE k == call[c]
           i == k.input
           it == store.items[i.item]
           error == Surfaces!MutationError(it, k.mutation)
<1>1. Known(c) /\ k.phase = "prereading" /\ i.command # "capture" /\ StoreInv(store)
      /\ i \in Requests
  BY KnownCall DEF Surfaces!Preread, Known, CallInv, Shape, Running
<1>2. Surfaces!AtExpected(i) /\ error # None
  <2>1. SUFFICES ASSUME ~(Surfaces!AtExpected(i) /\ error # None) PROVE FALSE
    OBVIOUS
  <2>2. call'[c].phase = "admitting"
    BY <1>1, <2>1 DEF Surfaces!Preread, Known, Fields
  <2>3. QED BY <2>2
<1>3. None # "idempotency_conflict"
  BY CallsAssumption DEF Surfaces!SurfacesAssumption
<1>4. CASE Surfaces!Receipts(k) = {}
  BY <1>1, <1>2, <1>4 DEF Surfaces!Refusal, Surfaces!MutationRefusal, Surfaces!AtExpected
<1>5. CASE Surfaces!Receipts(k) # {}
  <2>1. SUFFICES ASSUME Surfaces!Refusal(k) = None PROVE FALSE
    OBVIOUS
  <2>2. PICK r \in store.receipts : r.hash = Surfaces!HashOf(k)
    BY <1>3, <1>5, <2>1 DEF Surfaces!Refusal, Surfaces!Receipts
  <2>3. r.hash[1] = "mutation" /\ r.hash[2] = i.item /\ r.hash[3] = i.expected
    BY <1>1, <2>2 DEF Surfaces!HashOf
  <2>4. it.revision > i.expected /\ i.item \in DOMAIN store.items
    BY <1>1, <2>3 DEF StoreInv
  <2>5. it.revision \in 1..MaxI64 /\ i.expected \in 1..MaxI64 /\ it.revision = i.expected
    BY <1>1, <1>2, <2>4, ItemsOf, AskedFor DEF Surfaces!AtExpected
  <2>6. QED BY <2>4, <2>5, DomainAssumption
<1>6. QED BY <1>4, <1>5

LEMMA RefusedRightlyStep ==
    ASSUME SurfacesInv, [MutationsNext]_mutationsVars, NEW c \in Calls,
           call[c].phase = "prereading", call'[c].phase = "answered",
           call'[c].answer # "storage_busy"
    PROVE  Surfaces!Refusal(call[c]) # None
<1>1. CASE UNCHANGED callVars \/ Surfaces!Initialize \/ Surfaces!Restore
  BY <1>1 DEF callVars, Surfaces!Initialize, Surfaces!Restore
<1>2. ASSUME NEW d \in Calls, Surfaces!Begin(d, Hosts, Requests) PROVE FALSE
  <2>1. Stays(d) /\ call[d].phase = "idle"
    BY <1>2, BeginKeeps DEF Surfaces!Begin, Surfaces!Start
  <2>2. QED BY <2>1 DEF Stays
<1>3. ASSUME NEW d \in Calls, Surfaces!Step(d), d # c PROVE FALSE
  <2>1. \A b \in Calls \ {d} : call'[b] = call[b]
    BY <1>3 DEF Surfaces!Step, Surfaces!CliParse, Surfaces!RpcReceive, Surfaces!Open,
         Surfaces!Preread, Surfaces!Decode, Surfaces!Admit, Surfaces!Transact, Surfaces!Reply,
         Surfaces!Busy, Surfaces!Crash, Surfaces!Answer, Surfaces!Goto, Surfaces!Commit, SurfacesInv
  <2>2. QED BY <1>3, <2>1
<1>4. ASSUME Surfaces!Step(c) PROVE Surfaces!Preread(c)
  <2>1. Surfaces!Preread(c) \/ Surfaces!Busy(c) \/ Surfaces!Crash(c)
    BY <1>4 DEF Surfaces!Step, Surfaces!CliParse, Surfaces!RpcReceive, Surfaces!Open,
         Surfaces!Decode, Surfaces!Admit, Surfaces!Transact, Surfaces!Reply
  <2>2. ~Surfaces!Busy(c)
    BY KnownCall DEF Surfaces!Busy, Surfaces!Answer, Surfaces!Idle, Known
  <2>3. ~Surfaces!Crash(c)
    <3>1. SUFFICES ASSUME Surfaces!Crash(c) PROVE FALSE
      OBVIOUS
    <3>2. Known(c)
      BY KnownCall
    <3>3. call'[c].phase = "dead"
      BY <3>1, <3>2 DEF Surfaces!Crash, Surfaces!Idle, Known, Fields
    <3>4. QED BY <3>3
  <2>4. QED BY <2>1, <2>2, <2>3
<1>5. QED BY <1>1, <1>2, <1>3, <1>4, CallsMove, PrereadIsRight DEF CallsStep

(* The pre-read of the command line, outside any transaction, refuses only  *)
(* what the transaction would refuse at that moment, and never the retry of *)
(* a call that was already done (cli_mutation.rs execute).                  *)
THEOREM PrereadsRefuseRightly == MutationsSpec => PrereadRefusesRightly
<1> DEFINE Rightly == \A c \in Calls : Surfaces!RefusedRightly(c)
<1>1. SurfacesInv /\ [MutationsNext]_mutationsVars => [Rightly]_callVars
  BY RefusedRightlyStep DEF Surfaces!RefusedRightly
<1>2. PrereadRefusesRightly <=> [][Rightly]_callVars
  BY DEF PrereadRefusesRightly, Surfaces!PrereadRefusesRightly, Surfaces!vars, callVars
<1> HIDE DEF Rightly
<1>3. QED BY <1>1, <1>2, SurfacesKept, PTL DEF MutationsSpec
=============================================================================
