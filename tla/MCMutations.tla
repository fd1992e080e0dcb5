----------------------------- MODULE MCMutations -----------------------------
(* Small instances: two processes with requests that differ in one respect  *)
(* from an ordinary one each, two with hosts that vouch for a person, an    *)
(* instructed agent and others, and three with requests that overtake each  *)
(* other.                                                                   *)
EXTENDS Mutations, TLC

Spelling == INSTANCE MutationRequests

-----------------------------------------------------------------------------
(* Every lifecycle operation alone and with a triage half, the triage       *)
(* requests alone, and the malformed requests.                              *)

Triage(op, p, a, n) ==
    [lifecycle |-> op, reason |-> "why", triage |-> TRUE,
     priority |-> p, assignee |-> a, note |-> n]
Simple(op) == [Triage(op, Omitted, Omitted, None) EXCEPT !.triage = FALSE]

ItemMutations ==
    {Simple(op) : op \in LifecycleOps \cup {None}}
    \cup {Triage(op, Set("P1"), Omitted, None) : op \in LifecycleOps}
    \cup {Triage(None, p, Omitted, None) : p \in Field({"P1"})}
    \cup {Triage(None, Omitted, a, n) : a \in Field({"ana"}), n \in Notes \cup {None}}
    \cup {Triage("reject", Omitted, Clear, "n"), Triage("finish", Omitted, Clear, "n"),
          [Simple("block") EXCEPT !.reason = Blank]}

-----------------------------------------------------------------------------
(* Requests, as their callers spell them. *)

MCLower == [p \in {"P1"} |-> "p1"]

MCAssigneeId ==
    [text \in {"ana", "Ana", "clear", "Clear", "none"} |->
        CASE text = "Ana" -> "ana" [] text = "Clear" -> "clear" [] OTHER -> text]

Ask(command) ==
    [command |-> command, action |-> None, reason |-> None, priority |-> Omitted,
     assignee |-> Omitted, note |-> None, content |-> "task", key |-> "k1",
     item |-> 1, expected |-> 1, envelope |-> "v1"]

Approve == Ask("approve")
TriageApprove == [Ask("triage") EXCEPT !.action = "approve"]
Full == [TriageApprove EXCEPT !.priority = Set("P1"), !.assignee = Set("ana"), !.note = "n"]
Reject == [Ask("reject") EXCEPT !.reason = "why"]
Prioritize == [Ask("prioritize") EXCEPT !.priority = Set("P1")]

Words ==
    {[Prioritize EXCEPT !.priority = Set("p1")], [Prioritize EXCEPT !.priority = Clear],
     [Prioritize EXCEPT !.action = "approve"], [Prioritize EXCEPT !.reason = "why"],
     [Ask("assign") EXCEPT !.assignee = Set("clear")], [Ask("assign") EXCEPT !.assignee = Set(Blank)],
     [Ask("assign") EXCEPT !.assignee = Set("Ana")], [Ask("assign") EXCEPT !.assignee = Set("Clear")],
     [Ask("assign") EXCEPT !.note = "n"], [Ask("triage") EXCEPT !.priority = Set("P1")],
     [Ask("triage") EXCEPT !.action = "unknown"], [Ask("triage") EXCEPT !.note = "n"],
     [Ask("triage") EXCEPT !.action = "reject", !.reason = "why"],
     [Reject EXCEPT !.reason = None], [Reject EXCEPT !.reason = Blank],
     [Approve EXCEPT !.note = "n"], [Approve EXCEPT !.reason = "why"], [Approve EXCEPT !.action = "approve"]}

Frames ==
    {[Approve EXCEPT !.envelope = "v2"], [Approve EXCEPT !.envelope = "malformed"],
     [Approve EXCEPT !.key = Blank], [Approve EXCEPT !.key = "k2"], [Full EXCEPT !.expected = 2],
     [Prioritize EXCEPT !.expected = 2, !.key = "k2"], Ask("triage"), Ask("start"),
     Ask("capture"), [Ask("capture") EXCEPT !.content = Spelling!Unknown]}

Spelled == {Approve, TriageApprove, Full, Reject, Prioritize} \cup Words \cup Frames

-----------------------------------------------------------------------------
(* Hosts: what they vouch for, and few requests. *)

Few == {Approve, Full, [Prioritize EXCEPT !.action = "approve"], [Ask("assign") EXCEPT !.assignee = Set("clear")],
        [Ask("assign") EXCEPT !.assignee = Set("Ana")],
        [Ask("triage") EXCEPT !.note = "n"], Ask("capture")}

Instruction(changes) ==
    [form |-> "instruction", trusted |-> TRUE, named |-> TRUE, changes |-> changes]
Helper(changes, n) ==
    [Spelling!Local EXCEPT !.agent = "helper", !.observed = "helper",
                           !.human = Instruction(changes), !.ids = n]

Scope == {<<"approve">>, <<"prioritize", "P1">>, <<"assign", "ana">>, <<"assign", "clear">>}

AllHosts ==
    {Helper(Scope, 1), Helper(Scope, 4), Helper(Scope \cup {<<"note">>}, 1),
     Helper({<<"assign", "Ana">>}, 1), [Spelling!Local EXCEPT !.ids = 1],
     [Helper(Scope, 1) EXCEPT !.kind = "agent", !.id = "helper"],
     [Helper(Scope, 1) EXCEPT !.observed = None],
     [Helper(Scope, 1) EXCEPT !.human.trusted = FALSE]}

-----------------------------------------------------------------------------
(* Requests of three processes that meet in keys and in revisions. *)

Meeting ==
    {[Prioritize EXCEPT !.key = "k2"], [Full EXCEPT !.expected = 2, !.key = "k3"],
     [Approve EXCEPT !.key = "k2"]}

MCRequests == Spelled \cup Few \cup Meeting

MCScenes ==
    [words |-> [requests |-> Spelled, hosts |-> {}, calls |-> 2],
     hosts |-> [requests |-> Few, hosts |-> AllHosts, calls |-> 2],
     races |-> [requests |-> Meeting, hosts |-> {}, calls |-> 3]]

Symmetry == Permutations(Calls)
=============================================================================
