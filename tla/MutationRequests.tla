---------------------------- MODULE MutationRequests ----------------------------
(***************************************************************************)
(* How a caller's words become a mutation and a list of requested changes: *)
(* the command line's parser (cli_mutation.rs) and the RPC decoder         *)
(* (rpc_mutation.rs), and the policy that authorizes the changes           *)
(* (application.rs).  MutationSurfaces runs whole calls with them.         *)
(***************************************************************************)
EXTENDS Domain, FiniteSets

CONSTANTS
    Keys,       \* idempotency keys
    Lower,      \* the lowercase spelling of each priority, accepted by the CLI
    AssigneeId  \* AssigneeId::new: the assignee that each text names

Convenience == {"prioritize", "assign"} \cup LifecycleOps
Unknown == "unknown"        \* an action or a word that names nothing
Texts == DOMAIN AssigneeId

(* Identifiers are normal forms of texts.  "clear" and "none" are two of    *)
(* them, and each identifier is its own.                                    *)
RequestsAssumption ==
    /\ AssigneeId \in [Texts -> Assignees] /\ None \notin Texts
    /\ {"clear", "none"} \subseteq Assignees
    /\ \A a \in Assignees : a \in Texts /\ AssigneeId[a] = a
    /\ \A p \in Priorities : Lower[p] \notin Priorities

(* What is asked, before a surface reads it.  Clear stands for null in JSON *)
(* and for the word "clear" or "none" on the command line.  A Blank         *)
(* assignee has no letter or digit.                                         *)
Input ==
    [command : Convenience \cup {"triage", "capture"},
     action : LifecycleOps \cup {None, Unknown}, reason : Reasons \cup {Blank, None},
     priority : Field(Priorities \cup {Lower[p] : p \in Priorities} \cup {Unknown}),
     assignee : Field(Texts \cup {Blank}), note : Notes \cup {None},
     content : Contents \cup {Unknown}, key : Keys \cup {Blank},
     item : Nat \ {0}, expected : 1..MaxI64,
     envelope : {"v1", "v2", "malformed"}]

HasTriage(i) == i.priority # Omitted \/ i.assignee # Omitted \/ i.note # None

LacksReason(op, i) == NeedsReason(op) /\ i.reason \in {None, Blank}

MutationOf(lifecycle, i, priority, assignee) ==
    [lifecycle |-> lifecycle, reason |-> IF NeedsReason(lifecycle) THEN i.reason ELSE Blank,
     triage |-> HasTriage(i), priority |-> priority, assignee |-> assignee, note |-> i.note]

Normalized(field) == IF field \in {Omitted, Clear} THEN field ELSE Set(AssigneeId[field[2]])

(* Requested changes: the words an instruction's scope is compared with. *)
Word(value) == IF value = None THEN "clear" ELSE value
PriorityChange(value) == <<"prioritize", Word(value)>>
AssigneeChange(value) == <<"assign", Word(value)>>
NoteChange == <<"note">>

Named(field) == IF field = Omitted THEN {} ELSE {Resolve(field, None)}

TriageNames(priority, assignee, note) ==
    {PriorityChange(value) : value \in Named(priority)}
    \cup {AssigneeChange(value) : value \in Named(assignee)}
    \cup (IF note = None THEN {} ELSE {NoteChange})

-----------------------------------------------------------------------------
(* The command line. *)

SaysClear(field) == field \in {Clear, Set("clear"), Set("none")}

CliPriority(field) ==
    IF field = Omitted THEN Omitted
    ELSE IF SaysClear(field) THEN Clear
    ELSE Set(CHOOSE p \in Priorities : field[2] \in {p, Lower[p]})

CliAssignee(field) == IF SaysClear(field) THEN Clear ELSE Normalized(field)

CliFieldError(i) ==
    \/ /\ i.priority # Omitted /\ ~SaysClear(i.priority)
       /\ \A p \in Priorities : i.priority[2] \notin {p, Lower[p]}
    \/ /\ i.assignee # Omitted /\ ~SaysClear(i.assignee)
       /\ i.assignee[2] \notin Texts

CliLifecycle(i) ==
    IF i.command \in LifecycleOps THEN i.command
    ELSE IF i.command = "triage" THEN i.action
    ELSE None

CliRefusesFields(i) ==
    \/ i.command \in LifecycleOps /\ (HasTriage(i) \/ i.action # None)
    \/ i.reason # None /\ i.command \notin {"triage", "reject", "block"}

CliUsageError(i) ==
    \/ i.key = Blank
    \/ CliLifecycle(i) = Unknown
    \/ LacksReason(CliLifecycle(i), i)
    \/ CliFieldError(i)
    \/ i.command = "triage" /\ CliLifecycle(i) = None /\ ~HasTriage(i)
    \/ CliRefusesFields(i)

CliMutation(i) ==
    MutationOf(CliLifecycle(i), i, CliPriority(i.priority), CliAssignee(i.assignee))

CliChanges(i) ==
    LET m == CliMutation(i)
    IN  (IF m.lifecycle = None THEN {} ELSE {<<m.lifecycle>>})
        \cup TriageNames(m.priority, m.assignee, m.note)

-----------------------------------------------------------------------------
(* RPC: what `bif rpc` and an embedding host decode. *)

RpcLifecycle(i) ==
    CASE i.command \in LifecycleOps -> i.command
      [] i.command = "triage" -> i.action
      [] OTHER -> None

RpcFieldError(i) ==
    \/ i.priority \notin Field(Priorities)
    \/ i.assignee \notin Field(Texts)

RpcInvalid(i) ==
    \/ i.key = Blank
    \/ RpcFieldError(i)
    \/ RpcLifecycle(i) = Unknown
    \/ LacksReason(RpcLifecycle(i), i)
    \/ /\ i.command \in LifecycleOps
       /\ i.action # None \/ HasTriage(i) \/ (~NeedsReason(i.command) /\ i.reason # None)
    \/ i.command = "prioritize" /\ i.priority = Omitted
    \/ i.command = "assign" /\ i.assignee = Omitted
    \/ RpcLifecycle(i) = None /\ ~HasTriage(i)

\* Mutant: a triage action is decoded only when nothing else is asked.
RpcMutationOfHalf(i) ==
    MutationOf(IF HasTriage(i) THEN None ELSE RpcLifecycle(i), i, i.priority,
               Normalized(i.assignee))

RpcMutation(i) == MutationOf(RpcLifecycle(i), i, i.priority, Normalized(i.assignee))

\* The action is listed whatever the command makes of it.
RpcActionName(i) ==
    IF i.action # None THEN {<<i.action>>}
    ELSE IF i.command \in LifecycleOps THEN {<<i.command>>}
    ELSE {}

\* The assignee is listed as it was spelled, and recorded as it is normalized.
RpcChanges(i) == RpcActionName(i) \cup TriageNames(i.priority, i.assignee, i.note)

CaptureInvalid(i) == i.key = Blank \/ i.content = Unknown

-----------------------------------------------------------------------------
(* Attribution and authorization. *)

Principals == {"requester", "helper", Blank}
Authorization == [form : {"none", "direct", "instruction"}, trusted : BOOLEAN,
                  named : BOOLEAN, changes : SUBSET Seq(STRING)]

(* `agent` is the declared execution and `observed` the authenticated one;  *)
(* None is a direct execution.  `sameHost` says that the execution repeats  *)
(* the actor's surface and host and that none of them is blank.             *)
Facts ==
    [kind : {"human", "agent"}, id : Principals, agent : Principals \cup {None},
     observed : Principals \cup {None}, sameHost : BOOLEAN, human : Authorization,
     ids : Nat]

Direct == [form |-> "direct", trusted |-> TRUE, named |-> FALSE, changes |-> {}]

\* The facts the processes of one user declare; `ids` is filled in per call.
Local == [kind |-> "human", id |-> "requester", agent |-> None, observed |-> None,
          sameHost |-> TRUE, human |-> Direct, ids |-> 0]

ValidAttribution(f) ==
    /\ f.id # Blank
    /\ f.sameHost
    /\ f.agent = f.observed
    /\ \/ f.agent = None /\ f.kind = "human"
       \/ f.agent \notin {None, Blank} /\ (f.kind = "human" \/ f.id = f.agent)

Instructed(f) == f.human.form = "instruction" /\ f.human.trusted /\ f.human.named

\* Mutant: any trusted instruction will do.
MayMutateOnAnyInstruction(f, changes) ==
    /\ f.kind = "human"
    /\ changes # {}
    /\ \/ f.agent = None /\ f.human.form = "direct" /\ f.human.trusted
       \/ f.agent # None /\ Instructed(f)

MayMutate(f, changes) ==
    /\ f.kind = "human"
    /\ changes # {}
    /\ \/ f.agent = None /\ f.human.form = "direct" /\ f.human.trusted
       \/ f.agent # None /\ Instructed(f) /\ changes \subseteq f.human.changes

Authorized(f, command, changes) ==
    ValidAttribution(f) /\ (command = "capture" \/ MayMutate(f, changes))

(* The name of the change an event records. *)
ChangeOf(event) ==
    CASE event.type = "priority_changed" -> PriorityChange(event.after)
      [] event.type = "assignee_changed" -> AssigneeChange(event.after)
      [] event.type = "note_added" -> NoteChange
      [] OTHER -> <<CHOOSE op \in LifecycleOps : LifecycleEvent[op] = event.type>>

(* What scopes allow an event to record: what they name, a person's name in *)
(* any spelling as the identifier it is normalized to.                      *)
Recorded(change) ==
    IF \E text \in Texts : change = AssigneeChange(text)
    THEN AssigneeChange(AssigneeId[change[2]]) ELSE change

AllowedBy(changes) == {Recorded(change) : change \in changes}
=============================================================================
