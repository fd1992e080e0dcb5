------------------------------ MODULE Migration ------------------------------
(***************************************************************************)
(* Opening a store (storage.rs: open, migration_prefix, migrate_all).      *)
(* Several processes, of this and of older versions of the program, open   *)
(* one file, new or old, sound or not.  Each takes the write lock, checks  *)
(* the whole recorded history against its embedded migrations, applies     *)
(* what is pending and validates the journal's metadata, all in one        *)
(* immediate transaction that a failing step, a crash or a wait of         *)
(* BUSY_TIMEOUT may end.                                                   *)
(***************************************************************************)
EXTENDS Integers, Sequences, FiniteSets

CONSTANTS
    Processes,
    Supports,       \* per process, how many migrations it embeds
    JournalVersion, \* the migration that draws a generation
    Starts,         \* what the file may be before anyone opens it
    MaxFaults,      \* bound: steps that fail, and crashes
    MaxOpens,       \* bound: opens, retries included
    None

Versions == 1..7    \* of any program version

(* A row of schema_migrations.  A name or a checksum is the version whose   *)
(* it is, or 0 for one no embedded migration has.                           *)
HistoryRow == [version : Versions, name : Versions \cup {0}, checksum : Versions \cup {0}]
Embedded(v) == [version |-> v, name |-> v, checksum |-> v]

(* A store: the recorded history in order, the versions whose tables exist, *)
(* whether there are other tables, and the journal's metadata: a generation,*)
(* 0 if there is none, and whether the rest of it is sound.                 *)
Store ==
    [history : Seq(HistoryRow), tables : SUBSET Versions, foreign : BOOLEAN,
     generation : Nat, sound : BOOLEAN]

Ordered(history) ==
    \A i, j \in DOMAIN history : i < j => history[i].version < history[j].version

Whole(s) ==
    /\ \A i \in DOMAIN s.history : s.history[i] = Embedded(i)
    /\ s.tables = DOMAIN s.history /\ ~s.foreign
    /\ s.generation # 0 <=> JournalVersion \in s.tables
    /\ s.sound

Failures == {"busy", "sqlite", "newer_schema", "invalid_history", "checksum_mismatch",
             "journal"}

MigrationAssumption ==
    /\ Supports \in [Processes -> Versions] /\ JournalVersion \in Versions
    /\ Starts \subseteq Store
    /\ \A s \in Starts : Ordered(s.history) /\ s.generation \in {0, 1}
    /\ MaxFaults \in Nat /\ MaxOpens \in Nat /\ None \notin Processes \cup Failures

VARIABLES
    store,      \* as committed
    work,       \* per process, the store as its transaction has it, or None
    step,       \* per process, what it does next for a pending migration
    result,     \* per process, what open returned: see Results
    lock,       \* who holds the write lock, or None
    drawn,      \* the last generation drawn
    start,      \* the store as it was found
    faults, opens

vars == <<store, work, step, result, lock, drawn, start, faults, opens>>

-----------------------------------------------------------------------------
(* migration_prefix: what row i of the history is to a program that embeds  *)
(* n migrations, and the first thing that is wrong with it.                 *)
RowProblem(row, i, n) ==
    IF row.version > n THEN "newer_schema"
    ELSE IF i > n \/ row.version # i \/ row.name # i THEN "invalid_history"
    ELSE IF row.checksum # i THEN "checksum_mismatch"
    ELSE None

HistoryProblem(s, n) ==
    LET wrong == {i \in DOMAIN s.history : RowProblem(s.history[i], i, n) # None}
        first == CHOOSE i \in wrong : \A j \in wrong : i <= j
    IN  IF s.history = <<>>
        THEN IF s.tables # {} \/ s.foreign THEN "invalid_history" ELSE None
        ELSE IF wrong = {} THEN None ELSE RowProblem(s.history[first], first, n)

-----------------------------------------------------------------------------
Leave(p, outcome) ==
    /\ result' = [result EXCEPT ![p] = outcome]
    /\ work' = [work EXCEPT ![p] = None]
    /\ step' = [step EXCEPT ![p] = "preflight"]
    /\ lock' = IF lock = p THEN None ELSE lock

(* Connection::open and configure. *)
Open(p) ==
    /\ result[p] \in {"closed"} \cup Failures /\ opens < MaxOpens
    /\ result' = [result EXCEPT ![p] = "waiting"]
    /\ opens' = opens + 1
    /\ UNCHANGED <<store, work, step, lock, drawn, start, faults>>

(* BEGIN IMMEDIATE *)
Begin(p) ==
    /\ result[p] = "waiting" /\ lock = None
    /\ lock' = p
    /\ result' = [result EXCEPT ![p] = "migrating"]
    /\ work' = [work EXCEPT ![p] = store]
    /\ UNCHANGED <<store, step, drawn, start, faults, opens>>

Busy(p) ==
    /\ result[p] = "waiting" /\ lock # None
    /\ Leave(p, "busy")
    /\ UNCHANGED <<store, drawn, start, faults, opens>>

(* The preflight may fail before any schema is changed. *)
Preflight(p) ==
    LET problem == HistoryProblem(work[p], Supports[p])
    IN  /\ result[p] = "migrating" /\ step[p] = "preflight"
        /\ \/ /\ problem = None
              /\ step' = [step EXCEPT ![p] = "create"]
              /\ UNCHANGED <<work, result, lock>>
           \/ problem # None /\ Leave(p, problem)
        /\ UNCHANGED <<store, drawn, start, faults, opens>>

(* A pending migration: its tables, which must not be there yet, then what   *)
(* it initializes, then its row.                                            *)
Pending(p) == result[p] = "migrating" /\ Len(work[p].history) < Supports[p]

NextVersion(p) == Len(work[p].history) + 1

Create(p) ==
    /\ Pending(p) /\ step[p] = "create"
    /\ \/ /\ NextVersion(p) \notin work[p].tables
          /\ work' = [work EXCEPT ![p].tables = @ \cup {NextVersion(p)}]
          /\ step' = [step EXCEPT ![p] = IF NextVersion(p) = JournalVersion
                                        THEN "initialize" ELSE "record"]
          /\ UNCHANGED <<result, lock>>
       \/ /\ NextVersion(p) \in work[p].tables
          /\ Leave(p, "sqlite")
    /\ UNCHANGED <<store, drawn, start, faults, opens>>

Initialize(p) ==
    /\ Pending(p) /\ step[p] = "initialize"
    /\ drawn' = drawn + 1
    /\ work' = [work EXCEPT ![p].generation = drawn + 1]
    /\ step' = [step EXCEPT ![p] = "record"]
    /\ UNCHANGED <<store, result, lock, start, faults, opens>>

Record(p) ==
    /\ Pending(p) /\ step[p] = "record"
    /\ work' = [work EXCEPT ![p].history = Append(@, Embedded(NextVersion(p)))]
    /\ step' = [step EXCEPT ![p] = "create"]
    /\ UNCHANGED <<store, result, lock, drawn, start, faults, opens>>

(* validate, for a program that knows the journal: read_metadata. *)
Valid(p) == Supports[p] >= JournalVersion => work[p].generation # 0 /\ work[p].sound

\* Mutant: metadata are not validated.
CommitUnvalidated(p) ==
    /\ result[p] = "migrating" /\ step[p] = "create" /\ ~Pending(p)
    /\ store' = work[p] /\ Leave(p, "open")
    /\ UNCHANGED <<drawn, start, faults, opens>>

Commit(p) ==
    /\ result[p] = "migrating" /\ step[p] = "create" /\ ~Pending(p)
    /\ \/ Valid(p) /\ store' = work[p] /\ Leave(p, "open")
       \/ ~Valid(p) /\ Leave(p, "journal") /\ UNCHANGED store
    /\ UNCHANGED <<drawn, start, faults, opens>>

\* Mutant: what was done before the failure is kept.
FailKeeping(p) ==
    /\ result[p] = "migrating" /\ faults < MaxFaults
    /\ store' = work[p] /\ Leave(p, "sqlite")
    /\ faults' = faults + 1
    /\ UNCHANGED <<drawn, start, opens>>

(* A statement fails, or no entropy is to be had: the transaction is rolled *)
(* back when it is dropped.                                                 *)
Fail(p) ==
    /\ result[p] = "migrating" /\ faults < MaxFaults
    /\ Leave(p, "sqlite")
    /\ faults' = faults + 1
    /\ UNCHANGED <<store, drawn, start, opens>>

(* The process is killed; SQLite rolls back for whoever opens next. *)
Crash(p) ==
    /\ result[p] \in {"waiting", "migrating", "open"} /\ faults < MaxFaults
    /\ Leave(p, "closed")
    /\ faults' = faults + 1
    /\ UNCHANGED <<store, drawn, start, opens>>

Close(p) ==
    /\ result[p] = "open"
    /\ Leave(p, "closed")
    /\ UNCHANGED <<store, drawn, start, faults, opens>>

Init ==
    /\ start \in Starts /\ store = start /\ drawn = start.generation
    /\ work = [p \in Processes |-> None]
    /\ result = [p \in Processes |-> "closed"]
    /\ step = [p \in Processes |-> "preflight"]
    /\ lock = None /\ faults = 0 /\ opens = 0

Step(p) == Begin(p) \/ Busy(p) \/ Preflight(p) \/ Create(p) \/ Initialize(p) \/ Record(p)
           \/ Commit(p)

Next == \E p \in Processes : Open(p) \/ Step(p) \/ Fail(p) \/ Crash(p) \/ Close(p)

Spec == Init /\ [][Next]_vars
-----------------------------------------------------------------------------
(* Properties.                                                              *)

(* Whatever fails or dies, the committed store is the one that was found or *)
(* a whole one: history, tables and generation agree.                       *)
CommittedIsWhole == store = start \/ Whole(store)

(* A store that was opened has every migration the program embeds and sound *)
(* metadata, and was not from a newer program when it was opened.           *)
OpenedIsCurrent ==
    [][\A p \in Processes : result[p] # "open" /\ result'[p] = "open" =>
            /\ Len(store'.history) = Supports[p]
            /\ \A i \in 1..Supports[p] : store'.history[i] = Embedded(i)
            /\ Supports[p] >= JournalVersion => store'.sound /\ store'.generation # 0]_vars
=============================================================================
