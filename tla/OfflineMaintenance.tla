-------------------------- MODULE OfflineMaintenance --------------------------
(***************************************************************************)
(* `bif maintenance` (cli_maintenance.rs) over database files, with the    *)
(* steps of backup, restore, prune and activate apart (storage/            *)
(* maintenance.rs): a command may fail or its process die between any two  *)
(* of them, and the operator looks at what is left and tries again.        *)
(*                                                                         *)
(* The module's prerequisite is kept: writers stand still while a          *)
(* maintenance window is open, and files are not exchanged under it.       *)
(* SQLite's copy into an open database is atomic, in either direction.     *)
(***************************************************************************)
EXTENDS Integers, Sequences

CONSTANTS
    Paths,          \* the names operators use
    Live,           \* the store's own path
    Collide,        \* pairs of names that are one file, or one is a sidecar of the other
    Old,            \* a file that is no store of the current schema
    Missing,        \* no file
    Claimed,        \* an output file that was created and never completed
    None,
    MaxGenerations, \* bound: generations drawn
    MaxCommits      \* bound: effects committed

VARIABLES
    files,      \* what is found under each path
    window,     \* whether writers are stopped for maintenance
    op,         \* the maintenance command that runs
    drawn,      \* generations drawn so far; each draw is new
    commits     \* effects acknowledged to writers, numbered from 1

vars == <<files, window, op, drawn, commits>>

Commands ==
    [kind : {"backup"}, output : Paths, offline : BOOLEAN]
    \cup [kind : {"restore"}, from : Paths, output : Paths, offline : BOOLEAN]
    \cup [kind : {"prune"}, generation : 1..MaxGenerations, through : 0..MaxCommits,
          offline : BOOLEAN]
    \cup [kind : {"activate"}, generation : 1..MaxGenerations, offline : BOOLEAN]

\* The audit trail `history` names effects; the journal keeps the rows past `floor`.
Stores ==
    [generation : 1..MaxGenerations, sync : BOOLEAN, bootstrap : BOOLEAN,
     floor : 0..MaxCommits, history : Seq(1..MaxCommits), intact : BOOLEAN]

NewStore ==
    [generation |-> 1, sync |-> FALSE, bootstrap |-> TRUE, floor |-> 0,
     history |-> << >>, intact |-> TRUE]

MaintenanceAssumption ==
    /\ Live \in Paths
    /\ Collide \subseteq SUBSET Paths
    /\ {Old, Missing, Claimed} \cap Stores = {}
    /\ Old # Missing /\ Old # Claimed /\ Missing # Claimed
    /\ None \notin {"usage", "failed", "ok", "unknown"}
    /\ MaxGenerations \in Nat \ {0} /\ MaxCommits \in Nat \ {0}

IsStore(file) == file \notin {Old, Missing, Claimed}
Valid(file) == IsStore(file) /\ file.intact

\* `source` and `before` are history: the backup and the store as restore found them.
Idle ==
    [phase |-> "idle", cmd |-> None, staged |-> None, generation |-> 0,
     source |-> None, before |-> None, result |-> None]

Goto(phase) == op' = [op EXCEPT !.phase = phase]
End(result) == op' = [op EXCEPT !.phase = "idle", !.result = result]

-----------------------------------------------------------------------------
(* Ordinary work, outside the window. *)

Write ==
    LET live == files[Live]
    IN  /\ ~window /\ Valid(live) /\ commits < MaxCommits
        /\ commits' = commits + 1
        /\ files' = [files EXCEPT ![Live].history = Append(@, commits + 1)]
        /\ UNCHANGED <<window, op, drawn>>

OpenWindow == ~window /\ window' = TRUE /\ op' = Idle /\ UNCHANGED <<files, drawn, commits>>

CloseWindow ==
    /\ window /\ op.phase = "idle"
    /\ window' = FALSE
    /\ op' = Idle
    /\ UNCHANGED <<files, drawn, commits>>

Run(cmd) ==
    /\ window /\ op.phase = "idle"
    /\ op' = IF ~cmd.offline THEN [Idle EXCEPT !.cmd = cmd, !.result = "usage"]
             ELSE [Idle EXCEPT !.cmd = cmd,
                     !.phase = IF cmd.kind \in {"backup", "restore"} THEN "checking"
                               ELSE "transacting"]
    /\ UNCHANGED <<files, window, drawn, commits>>

-----------------------------------------------------------------------------
(* Paths. *)

Output == op.cmd.output
Inputs == {Live} \cup (IF op.cmd.kind = "restore" THEN {op.cmd.from} ELSE {})

\* Neither the output nor one of its sidecars is there: asked by `destination`,
\* and again when the file is created as a new one.
Free(path) == files[path] = Missing

\* `distinct`, over two inputs and the output.
Named == IF op.cmd.kind = "restore" THEN <<Live, op.cmd.from, Output>> ELSE <<Live, Output>>

Distinct ==
    \A m, n \in DOMAIN Named :
        m < n => Named[m] # Named[n] /\ {Named[m], Named[n]} \notin Collide

Check ==
    /\ op.phase = "checking"
    /\ IF (\A p \in Inputs : files[p] # Missing) /\ Free(Output) /\ Distinct
       THEN op' = [op EXCEPT !.phase = IF op.cmd.kind = "restore" THEN "staging" ELSE "claiming",
                             !.before = files[Live],
                             !.source = IF op.cmd.kind = "restore" THEN files[op.cmd.from] ELSE None]
       ELSE End("failed")
    /\ UNCHANGED <<files, window, drawn, commits>>

-----------------------------------------------------------------------------
(* Restore and backup. *)

\* A private copy of the backup, validated against the current schema.
Stage ==
    /\ op.phase = "staging"
    /\ IF Valid(files[op.cmd.from])
       THEN op' = [op EXCEPT !.phase = "drawing", !.staged = files[op.cmd.from]]
       ELSE End("failed")
    /\ UNCHANGED <<files, window, drawn, commits>>

Draw ==
    /\ op.phase = "drawing" /\ drawn < MaxGenerations
    /\ drawn' = drawn + 1
    /\ op' = [op EXCEPT !.phase = "claiming", !.generation = drawn + 1,
                        !.staged.generation = drawn + 1,
                        !.staged.sync = FALSE, !.staged.bootstrap = TRUE]
    /\ UNCHANGED <<files, window, commits>>

(* create_backup, in two steps: the output is created as a new file, then   *)
(* SQLite copies the snapshot into it.  What is written under a name that   *)
(* SQLite uses for another database spoils that database.                   *)
Spoilt(path) ==
    [p \in Paths |-> IF {p, path} \in Collide /\ IsStore(files[p])
                     THEN [files[p] EXCEPT !.intact = FALSE] ELSE files[p]]

Claim ==
    /\ op.phase = "claiming"
    /\ IF Valid(files[Live]) /\ Free(Output)
       THEN Goto("copying") /\ files' = [Spoilt(Output) EXCEPT ![Output] = Claimed]
       ELSE End("failed") /\ UNCHANGED files
    /\ UNCHANGED <<window, drawn, commits>>

\* Mutant: the preserved copy is written after the restore, of what is then live.
CopyUnlessRestore ==
    /\ op.phase = "copying"
    /\ IF op.cmd.kind = "restore" THEN Goto("publishing") /\ UNCHANGED files
       ELSE Goto("syncing") /\ files' = [files EXCEPT ![Output] = files[Live]]
    /\ UNCHANGED <<window, drawn, commits>>

\* What may still fail of a whole copy, like `sync_all`, ends as Fail.
Copy ==
    /\ op.phase = "copying"
    /\ files' = [files EXCEPT ![Output] = files[Live]]
    /\ Goto(IF op.cmd.kind = "restore" THEN "publishing" ELSE "syncing")
    /\ UNCHANGED <<window, drawn, commits>>

\* Mutant: the flags of the backup come back with it.
PublishBackup ==
    /\ op.phase = "publishing"
    /\ files' = [files EXCEPT ![Live] = [op.source EXCEPT !.generation = op.generation]]
    /\ Goto("verifying")
    /\ UNCHANGED <<window, drawn, commits>>

Publish ==
    /\ op.phase = "publishing"
    /\ files' = [files EXCEPT ![Live] = op.staged]
    /\ Goto("verifying")
    /\ UNCHANGED <<window, drawn, commits>>

Verify ==
    /\ op.phase = "verifying"
    /\ End(IF Valid(files[Live]) /\ files[Live].generation = op.generation THEN "ok" ELSE "failed")
    /\ UNCHANGED <<files, window, drawn, commits>>

-----------------------------------------------------------------------------
(* Prune and activate: one immediate transaction each. *)

Refused ==
    LET live == files[Live]
    IN  \/ ~Valid(live)
        \/ live.generation # op.cmd.generation
        \/ /\ op.cmd.kind = "prune"
           /\ op.cmd.through \notin live.floor..Len(live.history)

Transact ==
    /\ op.phase = "transacting"
    /\ IF Refused THEN End("failed") /\ UNCHANGED files
       ELSE /\ Goto("replying")
            /\ files' = IF op.cmd.kind = "prune"
                        THEN [files EXCEPT ![Live].floor = op.cmd.through]
                        ELSE [files EXCEPT ![Live].sync = TRUE]
    /\ UNCHANGED <<window, drawn, commits>>

Reply ==
    /\ op.phase \in {"syncing", "replying"}
    /\ End("ok")
    /\ UNCHANGED <<files, window, drawn, commits>>

-----------------------------------------------------------------------------
(* Everything else that can end a command: an I/O error, a locked database, *)
(* no entropy (Fail), or the death of the process (Die).  Neither takes     *)
(* back a step that was done.                                               *)
Fail ==
    /\ op.phase \notin {"idle", "replying"}
    /\ End("failed")
    /\ UNCHANGED <<files, window, drawn, commits>>

Die ==
    /\ op.phase # "idle"
    /\ op' = [Idle EXCEPT !.result = "unknown"]
    /\ UNCHANGED <<files, window, drawn, commits>>

Init ==
    /\ files \in {[p \in Paths |-> IF p = Live THEN NewStore ELSE IF p \in old THEN Old ELSE Missing] :
                     old \in SUBSET {p \in Paths : p # Live /\ {p, Live} \notin Collide}}
    /\ window = FALSE
    /\ op = Idle
    /\ drawn = 1
    /\ commits = 0

Next ==
    \/ Write \/ OpenWindow \/ CloseWindow
    \/ \E cmd \in Commands : Run(cmd)
    \/ Check \/ Stage \/ Draw \/ Claim \/ Copy \/ Publish \/ Verify
    \/ Transact \/ Reply \/ Fail \/ Die

Spec == Init /\ [][Next]_vars

-----------------------------------------------------------------------------
(* Properties. *)

(* Whatever fails or dies, every effect a writer was told of is in the      *)
(* trail of a whole store under some path: restore publishes only after the *)
(* later store is preserved, and no command spoils a store.                 *)
NothingLost ==
    \A n \in 1..commits : \E p \in Paths :
        Valid(files[p]) /\ \E k \in DOMAIN files[p].history : files[p].history[k] = n

(* When restore says "Verified restore", the store is the backup under a    *)
(* generation nobody used before, inactive and to be bootstrapped, and the  *)
(* preserved file is the store that was there when the command began.       *)
VerifiedRestoreIsExact ==
    op.result = "ok" /\ op.cmd.kind = "restore" =>
        /\ files[Live] = [op.source EXCEPT !.generation = op.generation,
                                           !.sync = FALSE, !.bootstrap = TRUE]
        /\ files[Output] = op.before
        /\ \A p \in Paths \ {Live} : IsStore(files[p]) => files[p].generation # op.generation
=============================================================================
