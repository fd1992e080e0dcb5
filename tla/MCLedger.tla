------------------------------ MODULE MCLedger ------------------------------
(* Small instances of Ledger: one requester and project, keys as symmetric *)
(* model values, and mutations that cover each half of a compound request. *)
EXTENDS Ledger, TLC

\* Hashed payloads are apart unless somebody is called "clear".
ASSUME Expectation == "clear" \in Assignees \/ HashedApart

Triage(op, p, a, n) ==
    [lifecycle |-> op, reason |-> "why", triage |-> TRUE,
     priority |-> p, assignee |-> a, note |-> n]
Step(op) == [Triage(op, Omitted, Omitted, None) EXCEPT !.triage = FALSE]

MCMutations ==
    {Triage("approve", Set("P1"), Omitted, None), Triage(None, Omitted, Set("ana"), None),
     Triage(None, Omitted, Clear, None), Triage(None, Omitted, Omitted, "n"), Step("reject")}

OneMutation == {Triage("approve", Set("P1"), Omitted, None)}

\* The requests that meet in one hash when an assignee is called "clear".
ClearMutations ==
    {Triage(None, Set("P1"), Set("clear"), None), Triage(None, Set("P1"), Clear, None)}

MCWatched == <<"RA", "px", 1>>

Symmetry == Permutations(Keys) \cup Permutations(Writers)
=============================================================================
