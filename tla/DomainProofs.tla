---------------------------- MODULE DomainProofs ----------------------------
(***************************************************************************)
(* Facts about Item::apply_mutation for every set of values: what an       *)
(* accepted mutation does to the type, the reason and the terminal status  *)
(* of an item, and which events it reports.                                *)
(***************************************************************************)
EXTENDS Domain, SequenceTheorems, TLAPS

(* A new item is a proposed item at revision 1, without a reason.          *)
LEMMA NewItemType ==
    ASSUME NEW content \in Contents
    PROVE  /\ NewItem(content) \in Item
           /\ NewItem(content).revision = 1
           /\ NewItem(content).status = "proposed"
           /\ NewItem(content).status_reason = None
BY DomainAssumption DEF NewItem, Item, Statuses

LEMMA ResolveType ==
    ASSUME NEW T, NEW old \in T \cup {None}, NEW field \in Field(T)
    PROVE  Resolve(field, old) \in T \cup {None}
<1>1. CASE field = Omitted
  BY <1>1 DEF Resolve
<1>2. CASE field # Omitted /\ field = Clear
  BY <1>2 DEF Resolve
<1>3. CASE field # Omitted /\ field # Clear
  <2>1. PICK v \in T : field = <<"set", v>>
    BY <1>3 DEF Field, Set
  <2>2. Resolve(field, old) = field[2]
    BY <1>3 DEF Resolve
  <2>3. QED BY <2>1, <2>2
<1>4. QED BY <1>1, <1>2, <1>3

LEMMA NoOperationNamedNone ==
    None \notin LifecycleOps /\ ~NeedsReason(None)
BY DomainAssumption DEF LifecycleOps, NeedsReason

(* The lifecycle half keeps everything but status and reason, and leaves a *)
(* reason exactly in the two statuses that require one.                    *)
LEMMA AfterLifecycleFacts ==
    ASSUME NEW item \in Item, NEW m \in Mutation, ~MissingReason(m)
    PROVE  /\ AfterLifecycle(item, m) \in Item
           /\ AfterLifecycle(item, m).priority = item.priority
           /\ AfterLifecycle(item, m).assignee = item.assignee
           /\ AfterLifecycle(item, m).revision = item.revision
           /\ m.lifecycle # None =>
                LET after == AfterLifecycle(item, m)
                IN  after.status_reason # None <=> after.status \in {"blocked", "rejected"}
<1>1. CASE m.lifecycle = None
  BY <1>1 DEF AfterLifecycle
<1>2. CASE m.lifecycle # None /\ NeedsReason(m.lifecycle)
  <2>1. m.reason \in Reasons
    BY <1>2 DEF MissingReason, Mutation
  <2>2. m.lifecycle \in {"reject", "block"}
    BY <1>2 DEF NeedsReason
  <2>3. To[m.lifecycle] \in {"blocked", "rejected"}
    BY <2>2 DEF To
  <2>4. QED BY <1>2, <2>1, <2>3, DomainAssumption DEF AfterLifecycle, Item, Statuses
<1>3. CASE m.lifecycle # None /\ ~NeedsReason(m.lifecycle)
  <2>1. m.lifecycle \in {"approve", "start", "resume", "finish"}
    BY <1>3 DEF NeedsReason, Mutation, LifecycleOps
  <2>2. To[m.lifecycle] \in {"ready", "in_progress", "done"}
    BY <2>1 DEF To
  <2>3. QED BY <1>3, <2>2 DEF AfterLifecycle, Item, Statuses
<1>4. QED BY <1>1, <1>2, <1>3

LEMMA AfterTriageFacts ==
    ASSUME NEW item \in Item, NEW m \in Mutation
    PROVE  /\ AfterTriage(item, m) \in Item
           /\ AfterTriage(item, m).status = item.status
           /\ AfterTriage(item, m).status_reason = item.status_reason
           /\ AfterTriage(item, m).revision = item.revision
<1>1. Resolve(m.priority, item.priority) \in Priorities \cup {None}
  BY ResolveType DEF Mutation, Item
<1>2. Resolve(m.assignee, item.assignee) \in Assignees \cup {None}
  BY ResolveType DEF Mutation, Item
<1>3. QED BY <1>1, <1>2 DEF AfterTriage, Item

(* The rejections apply_mutation makes, read off an accepted mutation.     *)
LEMMA AcceptedMutation ==
    ASSUME NEW item \in Item, NEW m \in Mutation, MutationError(item, m) = None
    PROVE  /\ m.lifecycle # None \/ m.triage
           /\ ~WrongStatus(item, m) /\ ~MissingReason(m) /\ ~TerminalChange(item, m)
<1>1. "invalid_input" # None /\ "invalid_transition" # None
  BY DomainAssumption
<1>2. QED BY <1>1 DEF MutationError

(* An accepted mutation below the ceiling yields a typed item, one         *)
(* revision later, with a reason exactly while blocked or rejected.        *)
LEMMA MutatedFacts ==
    ASSUME NEW item \in Item, NEW m \in Mutation,
           MutationError(item, m) = None, item.revision < MaxI64
    PROVE  /\ Mutated(item, m) \in Item
           /\ Mutated(item, m).revision = item.revision + 1
           /\ Mutated(item, m).status = Planned(item, m).status
           /\ Mutated(item, m).priority = Planned(item, m).priority
           /\ Mutated(item, m).assignee = Planned(item, m).assignee
           /\ (item.status_reason # None <=> item.status \in {"blocked", "rejected"}) =>
                LET after == Mutated(item, m)
                IN  after.status_reason # None <=> after.status \in {"blocked", "rejected"}
<1> DEFINE mid == AfterLifecycle(item, m)
           end == AfterTriage(mid, m)
<1>1. ~MissingReason(m)
  BY AcceptedMutation
<1>2. /\ mid \in Item
      /\ mid.revision = item.revision
      /\ m.lifecycle # None => (mid.status_reason # None <=> mid.status \in {"blocked", "rejected"})
  BY <1>1, AfterLifecycleFacts
<1>3. m.lifecycle = None => mid = item
  BY DEF AfterLifecycle
<1>4. /\ end \in Item
      /\ end.status = mid.status
      /\ end.status_reason = mid.status_reason
  BY <1>2, AfterTriageFacts
<1>5. Mutated(item, m) = [end EXCEPT !.revision = item.revision + 1]
  BY DEF Mutated, Planned
<1>6. item.revision + 1 \in 1..MaxI64
  BY DomainAssumption DEF Item
<1>7. Planned(item, m) = end
  BY DEF Planned
<1> HIDE DEF mid, end
<1>8. QED BY <1>2, <1>3, <1>4, <1>5, <1>6, <1>7 DEF Item

-----------------------------------------------------------------------------
LEMMA FieldChangeType ==
    ASSUME NEW type \in EventTypes, NEW before \in EventValues, NEW after \in EventValues
    PROVE  FieldChange(type, before, after) \in Seq(Event)
<1>1. Change(type, before, after) \in Event
  BY DEF Change, Event
<1>2. <<Change(type, before, after)>> \in Seq(Event)
  BY <1>1
<1>3. QED BY <1>2 DEF FieldChange

LEMMA EventsType ==
    ASSUME NEW item \in Item, NEW m \in Mutation
    PROVE  /\ StatusChange(item, m) \in Seq(Event)
           /\ TriageChanges(item, m) \in Seq(Event)
           /\ EventsOf(item, m) \in Seq(Event)
<1> DEFINE p == Resolve(m.priority, item.priority)
           a == Resolve(m.assignee, item.assignee)
<1>1. StatusChange(item, m) \in Seq(Event)
  <2>1. CASE m.lifecycle = None
    BY <2>1 DEF StatusChange
  <2>2. CASE m.lifecycle # None
    <3>1. m.lifecycle \in LifecycleOps
      BY <2>2 DEF Mutation
    <3>2. LifecycleEvent[m.lifecycle] \in EventTypes
      BY <3>1 DEF EventTypes
    <3>3. To[m.lifecycle] \in Statuses
      BY <3>1 DEF To, LifecycleOps, Statuses
    <3>4. Change(LifecycleEvent[m.lifecycle], item.status, To[m.lifecycle]) \in Event
      BY <3>2, <3>3 DEF Change, Event, EventValues, Item
    <3>5. QED BY <2>2, <3>4 DEF StatusChange
  <2>3. QED BY <2>1, <2>2
<1>2. /\ p \in Priorities \cup {None}
      /\ a \in Assignees \cup {None}
  BY ResolveType DEF Mutation, Item
<1>3. FieldChange("priority_changed", item.priority, p) \in Seq(Event)
  BY <1>2, FieldChangeType DEF EventTypes, EventValues, Item
<1>4. FieldChange("assignee_changed", item.assignee, a) \in Seq(Event)
  BY <1>2, FieldChangeType DEF EventTypes, EventValues, Item
<1>5. FieldChange("note_added", None, m.note) \in Seq(Event)
  BY FieldChangeType DEF EventTypes, EventValues, Mutation
<1>6. TriageChanges(item, m) \in Seq(Event)
  BY <1>3, <1>4, <1>5 DEF TriageChanges
<1>7. QED BY <1>1, <1>6 DEF EventsOf

(* A done or rejected item accepts nothing but a note.                     *)
LEMMA TerminalAcceptsNotesOnly ==
    ASSUME NEW item \in Item, NEW m \in Mutation, item.status \in Terminal,
           MutationError(item, m) = None, EventsOf(item, m) # << >>
    PROVE  /\ Planned(item, m).status = item.status
           /\ Planned(item, m).priority = item.priority
           /\ Planned(item, m).assignee = item.assignee
           /\ EventsOf(item, m) = <<Change("note_added", None, m.note)>>
<1>1. m.lifecycle = None
  <2>1. SUFFICES ASSUME m.lifecycle # None PROVE FALSE
    OBVIOUS
  <2>2. m.lifecycle \in LifecycleOps
    BY <2>1 DEF Mutation
  <2>3. From[m.lifecycle] \notin Terminal
    BY <2>2 DEF From, LifecycleOps, Terminal
  <2>4. item.status = From[m.lifecycle]
    BY <2>1, AcceptedMutation DEF WrongStatus
  <2>5. QED BY <2>3, <2>4
<1>2. m.triage /\ ~TerminalChange(item, m)
  BY <1>1, AcceptedMutation
<1>3. Planned(item, m) = AfterTriage(item, m)
  BY <1>1 DEF Planned, AfterLifecycle
<1>4. Planned(item, m).status = item.status
  BY <1>3, AfterTriageFacts
<1>5. /\ Planned(item, m).priority = item.priority
      /\ Planned(item, m).assignee = item.assignee
  BY <1>2, <1>4 DEF TerminalChange
<1>6. /\ Resolve(m.priority, item.priority) = item.priority
      /\ Resolve(m.assignee, item.assignee) = item.assignee
  BY <1>2, <1>3, <1>5 DEF AfterTriage, Item
<1>7. StatusChange(item, m) = << >>
  BY <1>1 DEF StatusChange
<1>8. TriageChanges(item, m) = << >> \o << >> \o FieldChange("note_added", None, m.note)
  BY <1>2, <1>6 DEF TriageChanges, FieldChange
<1>9. EventsOf(item, m) = FieldChange("note_added", None, m.note)
  <2>1. FieldChange("note_added", None, m.note) \in Seq(Event)
    BY FieldChangeType DEF EventTypes, EventValues, Mutation
  <2>2. QED BY <1>7, <1>8, <2>1 DEF EventsOf
<1>10. QED BY <1>4, <1>5, <1>9 DEF FieldChange

-----------------------------------------------------------------------------
(* What the events of a mutation tell a reader who sees only them.          *)

EventSet(events) == {events[i] : i \in 1..Len(events)}

LEMMA ConcatEvents ==
    ASSUME NEW s \in Seq(Event), NEW t \in Seq(Event)
    PROVE  EventSet(s \o t) = EventSet(s) \cup EventSet(t)
<1>1. /\ Len(s) \in Nat /\ Len(t) \in Nat /\ Len(s \o t) = Len(s) + Len(t)
      /\ \A i \in 1..(Len(s) + Len(t)) :
            (s \o t)[i] = IF i <= Len(s) THEN s[i] ELSE t[i - Len(s)]
  BY ConcatProperties
<1>2. EventSet(s \o t) \subseteq EventSet(s) \cup EventSet(t)
  <2> SUFFICES ASSUME NEW i \in 1..(Len(s) + Len(t))
               PROVE  (s \o t)[i] \in EventSet(s) \cup EventSet(t)
    BY <1>1 DEF EventSet
  <2>1. CASE i <= Len(s)
    BY <1>1, <2>1 DEF EventSet
  <2>2. CASE ~(i <= Len(s))
    <3>1. i - Len(s) \in 1..Len(t)
      BY <1>1, <2>2
    <3>2. QED BY <1>1, <2>2, <3>1 DEF EventSet
  <2>3. QED BY <2>1, <2>2
<1>3. EventSet(s) \subseteq EventSet(s \o t)
  <2> SUFFICES ASSUME NEW i \in 1..Len(s) PROVE s[i] \in EventSet(s \o t)
    BY DEF EventSet
  <2>1. i \in 1..Len(s \o t) /\ (s \o t)[i] = s[i]
    BY <1>1
  <2>2. QED BY <2>1 DEF EventSet
<1>4. EventSet(t) \subseteq EventSet(s \o t)
  <2> SUFFICES ASSUME NEW i \in 1..Len(t) PROVE t[i] \in EventSet(s \o t)
    BY DEF EventSet
  <2>1. (i + Len(s)) \in 1..Len(s \o t) /\ (s \o t)[i + Len(s)] = t[i]
    BY <1>1
  <2>2. QED BY <2>1 DEF EventSet
<1>5. QED BY <1>2, <1>3, <1>4

LEMMA FieldEvents ==
    ASSUME NEW type \in EventTypes, NEW before \in EventValues, NEW after \in EventValues
    PROVE  EventSet(FieldChange(type, before, after))
             = IF before = after THEN {} ELSE {Change(type, before, after)}
<1>1. CASE before = after
  BY <1>1 DEF FieldChange, EventSet
<1>2. CASE before # after
  <2>1. FieldChange(type, before, after) = <<Change(type, before, after)>>
    BY <1>2 DEF FieldChange
  <2>2. Len(<<Change(type, before, after)>>) = 1
        /\ <<Change(type, before, after)>>[1] = Change(type, before, after)
    OBVIOUS
  <2> HIDE DEF Change
  <2>3. QED BY <1>2, <2>1, <2>2 DEF EventSet
<1>3. QED BY <1>1, <1>2

(* The events of an accepted mutation, as a set: at most one for the status *)
(* and one for each field, with the value each is left with.                *)
LEMMA MutationEvents ==
    ASSUME NEW item \in Item, NEW m \in Mutation
    PROVE  LET p == Resolve(m.priority, item.priority)
               a == Resolve(m.assignee, item.assignee)
           IN  EventSet(EventsOf(item, m)) =
                 (IF m.lifecycle = None THEN {}
                  ELSE {Change(LifecycleEvent[m.lifecycle], item.status, To[m.lifecycle])})
                 \cup (IF ~m.triage THEN {}
                       ELSE (IF item.priority = p THEN {}
                             ELSE {Change("priority_changed", item.priority, p)})
                            \cup (IF item.assignee = a THEN {}
                                  ELSE {Change("assignee_changed", item.assignee, a)})
                            \cup (IF None = m.note THEN {}
                                  ELSE {Change("note_added", None, m.note)}))
<1> DEFINE p == Resolve(m.priority, item.priority)
           a == Resolve(m.assignee, item.assignee)
<1>1. /\ p \in Priorities \cup {None} /\ a \in Assignees \cup {None}
      /\ m.note \in Notes \cup {None}
  BY ResolveType DEF Mutation, Item
<1>2. /\ item.priority \in EventValues /\ item.assignee \in EventValues /\ None \in EventValues
      /\ p \in EventValues /\ a \in EventValues /\ m.note \in EventValues
  BY <1>1 DEF EventValues, Item
<1>3. {"priority_changed", "assignee_changed", "note_added"} \subseteq EventTypes
  BY DEF EventTypes
<1> HIDE DEF p, a
<1>4. EventSet(StatusChange(item, m)) =
        IF m.lifecycle = None THEN {}
        ELSE {Change(LifecycleEvent[m.lifecycle], item.status, To[m.lifecycle])}
  <2>1. CASE m.lifecycle = None
    BY <2>1 DEF StatusChange, EventSet
  <2>2. CASE m.lifecycle # None
    <3> DEFINE e == Change(LifecycleEvent[m.lifecycle], item.status, To[m.lifecycle])
    <3>1. StatusChange(item, m) = <<e>>
      BY <2>2 DEF StatusChange
    <3> HIDE DEF e
    <3>2. EventSet(<<e>>) = {e}
      BY DEF EventSet
    <3>3. QED BY <2>2, <3>1, <3>2 DEF e
  <2>3. QED BY <2>1, <2>2
<1> DEFINE P == FieldChange("priority_changed", item.priority, p)
           A == FieldChange("assignee_changed", item.assignee, a)
           N == FieldChange("note_added", None, m.note)
<1>5. P \in Seq(Event) /\ A \in Seq(Event) /\ N \in Seq(Event)
  BY <1>2, <1>3, FieldChangeType
<1>6. /\ EventSet(P) = IF item.priority = p THEN {} ELSE {Change("priority_changed", item.priority, p)}
      /\ EventSet(A) = IF item.assignee = a THEN {} ELSE {Change("assignee_changed", item.assignee, a)}
      /\ EventSet(N) = IF None = m.note THEN {} ELSE {Change("note_added", None, m.note)}
  BY <1>2, <1>3, FieldEvents
<1>7. TriageChanges(item, m) = IF ~m.triage THEN << >> ELSE P \o A \o N
  BY DEF TriageChanges, p, a
<1> HIDE DEF P, A, N
<1>8. P \o A \in Seq(Event) /\ EventSet(P \o A \o N) = EventSet(P) \cup EventSet(A) \cup EventSet(N)
  <2>1. P \o A \in Seq(Event)
    BY <1>5, ConcatProperties
  <2>2. QED BY <1>5, <2>1, ConcatEvents
<1>9. EventSet(TriageChanges(item, m)) =
        IF ~m.triage THEN {} ELSE EventSet(P) \cup EventSet(A) \cup EventSet(N)
  <2>1. EventSet(<< >>) = {}
    BY DEF EventSet
  <2>2. QED BY <1>7, <1>8, <2>1
<1>10. EventSet(EventsOf(item, m)) = EventSet(StatusChange(item, m)) \cup EventSet(TriageChanges(item, m))
  BY EventsType, ConcatEvents DEF EventsOf
<1>11. QED BY <1>4, <1>6, <1>9, <1>10 DEF p, a
=============================================================================
