------------------------------- MODULE Domain -------------------------------
(***************************************************************************)
(* Item rules of src/src/domain.rs: the six lifecycle operations, triage,  *)
(* and the compound mutation that validates on a copy and returns ordered  *)
(* events.  Everything here is a function of its arguments; ItemLifecycle  *)
(* drives one item with it and Ledger stores many.                         *)
(***************************************************************************)
EXTENDS Integers, Sequences

CONSTANTS
    Priorities,     \* P0 .. P4, or a subset of them
    Assignees,      \* normalized assignee identifiers (strings)
    Reasons,        \* non-blank reasons of reject and block
    Notes,          \* triage notes
    Contents,       \* immutable title, description, criteria and provenance
    None,           \* Option::None
    MaxI64          \* the largest signed integer SQLite stores

Statuses == {"proposed", "ready", "in_progress", "blocked", "done", "rejected"}
Terminal == {"done", "rejected"}

LifecycleOps == {"approve", "reject", "start", "block", "resume", "finish"}

From == [approve |-> "proposed", reject |-> "proposed", start |-> "ready",
         block |-> "in_progress", resume |-> "blocked", finish |-> "in_progress"]

To == [approve |-> "ready", reject |-> "rejected", start |-> "in_progress",
       block |-> "blocked", resume |-> "in_progress", finish |-> "done"]

LifecycleEvent == [approve |-> "approved", reject |-> "rejected", start |-> "started",
                   block |-> "blocked", resume |-> "resumed", finish |-> "finished"]

NeedsReason(op) == op \in {"reject", "block"}

(* TriageField<T>: omitted, an explicit null, or a value. *)
Omitted == <<"omitted">>
Clear == <<"clear">>
Set(v) == <<"set", v>>
Field(T) == {Omitted, Clear} \cup {Set(v) : v \in T}

Item ==
    [content : Contents, status : Statuses, priority : Priorities \cup {None},
     assignee : Assignees \cup {None}, status_reason : Reasons \cup {None},
     revision : 1..MaxI64]

Blank == "blank"    \* a reason without a visible character

(* ItemMutation: `triage` says whether the triage half is present. *)
Mutation ==
    [lifecycle : LifecycleOps \cup {None}, reason : Reasons \cup {Blank},
     triage : BOOLEAN, priority : Field(Priorities), assignee : Field(Assignees),
     note : Notes \cup {None}]

EventTypes ==
    {"captured", "priority_changed", "assignee_changed", "note_added"}
    \cup {LifecycleEvent[op] : op \in LifecycleOps}
EventValues == Statuses \cup Priorities \cup Assignees \cup Notes \cup {None}
Event == [type : EventTypes, before : EventValues, after : EventValues]

(* None is none of the values it stands in for. *)
ASSUME DomainAssumption ==
    /\ None \notin Priorities \cup Assignees \cup Reasons \cup Notes
    /\ None \notin LifecycleOps \cup {"invalid_input", "invalid_transition"}
    /\ None \notin Item
    /\ Blank \notin Reasons
    /\ MaxI64 \in Nat \ {0, 1}

NewItem(content) ==
    [content |-> content, status |-> "proposed", priority |-> None,
     assignee |-> None, status_reason |-> None, revision |-> 1]

-----------------------------------------------------------------------------
(* The copy `planned` after each half of a mutation. *)

AfterLifecycle(item, m) ==
    IF m.lifecycle = None THEN item
    ELSE [item EXCEPT
            !.status = To[m.lifecycle],
            !.status_reason = IF NeedsReason(m.lifecycle) THEN m.reason ELSE None]

Resolve(field, old) ==
    CASE field = Omitted -> old
      [] field = Clear -> None
      [] OTHER -> field[2]

AfterTriage(item, m) ==
    IF m.triage THEN [item EXCEPT !.priority = Resolve(m.priority, item.priority),
                                  !.assignee = Resolve(m.assignee, item.assignee)]
    ELSE item

Planned(item, m) == AfterTriage(AfterLifecycle(item, m), m)

EmptyTriage(m) == m.priority = Omitted /\ m.assignee = Omitted /\ m.note = None

(* One named condition per rejection of apply_mutation, in the code's order. *)
WrongStatus(item, m) == m.lifecycle # None /\ item.status # From[m.lifecycle]
MissingReason(m) == m.lifecycle # None /\ NeedsReason(m.lifecycle) /\ m.reason = Blank

\* Mutant: the terminal check looks at the priority only.
TerminalChangeOfPriority(item, m) ==
    LET planned == Planned(item, m)
    IN  m.triage /\ planned.status \in Terminal /\ planned.priority # item.priority

TerminalChange(item, m) ==
    LET planned == Planned(item, m)
    IN  /\ m.triage
        /\ planned.status \in Terminal
        /\ planned.priority # item.priority \/ planned.assignee # item.assignee

MutationError(item, m) ==
    IF m.lifecycle = None /\ ~m.triage THEN "invalid_input"
    ELSE IF WrongStatus(item, m) THEN "invalid_transition"
    ELSE IF MissingReason(m) THEN "invalid_input"
    ELSE IF m.triage /\ EmptyTriage(m) THEN "invalid_input"
    ELSE IF TerminalChange(item, m) THEN "invalid_transition"
    ELSE None

-----------------------------------------------------------------------------
Change(type, before, after) == [type |-> type, before |-> before, after |-> after]

StatusChange(item, m) ==
    IF m.lifecycle = None THEN << >>
    ELSE <<Change(LifecycleEvent[m.lifecycle], item.status, To[m.lifecycle])>>

FieldChange(type, before, after) ==
    IF before = after THEN << >> ELSE <<Change(type, before, after)>>

\* Mutant: a compound mutation reports only its lifecycle half.
TriageChangesUnlessLifecycle(item, m) ==
    IF m.lifecycle # None \/ ~m.triage THEN << >>
    ELSE FieldChange("priority_changed", item.priority, Resolve(m.priority, item.priority))
         \o FieldChange("assignee_changed", item.assignee, Resolve(m.assignee, item.assignee))
         \o FieldChange("note_added", None, m.note)

TriageChanges(item, m) ==
    IF ~m.triage THEN << >>
    ELSE FieldChange("priority_changed", item.priority, Resolve(m.priority, item.priority))
         \o FieldChange("assignee_changed", item.assignee, Resolve(m.assignee, item.assignee))
         \o FieldChange("note_added", None, m.note)

(* The ordered events of an accepted mutation; empty for a genuine no-op. *)
EventsOf(item, m) == StatusChange(item, m) \o TriageChanges(item, m)

(* Item::apply_mutation on success: one revision for the whole mutation. *)
Mutated(item, m) ==
    [Planned(item, m) EXCEPT !.revision = item.revision + 1]
=============================================================================
