----------------------------- MODULE SetupProofs -----------------------------
(***************************************************************************)
(* Opening and migrating, the configuration and the registry of projects,  *)
(* for every number of processes and program versions, every text, every   *)
(* directory and remote, and every set of commands.                        *)
(***************************************************************************)
EXTENDS Setup, FiniteSetTheorems, WellFoundedInduction, TLAPS

-----------------------------------------------------------------------------
(* Each of the three is a behaviour of its own module, whichever part moves.*)

LEMMA PartsMove ==
    SetupSpec => /\ Opening!Init /\ [][Opening!Next]_(Opening!vars)
                 /\ Configured!Init /\ [][Configured!Next]_(Configured!vars)
                 /\ Init /\ [][Next]_vars
<1>1. SetupInit => Opening!Init /\ Configured!Init /\ Init
  BY DEF SetupInit
<1>2. [SetupNext]_setupVars =>
        [Opening!Next]_(Opening!vars) /\ [Configured!Next]_(Configured!vars) /\ [Next]_vars
  BY DEF SetupNext, setupVars, PlayScene, storeVars, fileVars, vars, Opening!vars, Configured!vars
<1>3. QED BY <1>1, <1>2, PTL DEF SetupSpec

(* Of a set of numbers that is not empty, one is the least.                 *)
LEMMA LeastNumber ==
    ASSUME NEW S \in SUBSET Nat, S # {}
    PROVE  \E i \in S : \A j \in S : i <= j
<1> DEFINE Less == {p \in Nat \X Nat : p[1] < p[2]}
<1>1. IsWellFoundedOn(Less, Nat)
  BY NatLessThanWellFounded DEF OpToRel
<1> HIDE DEF Less
<1>2. PICK i \in S : \A j \in S : <<j, i>> \notin Less
  BY <1>1, WFMin
<1>3. \A j \in S : ~(j < i)
  BY <1>2 DEF Less
<1>4. QED BY <1>3

-----------------------------------------------------------------------------
(* Opening a store.                                                         *)

Outcomes == {"closed", "waiting", "migrating", "open"} \cup Opening!Failures

OpeningTypes ==
    /\ store \in Opening!Store /\ start \in Starts /\ drawn \in Nat
    /\ work \in [Processes -> Opening!Store \cup {None}]
    /\ step \in [Processes -> {"preflight", "create", "initialize", "record"}]
    /\ result \in [Processes -> Outcomes]
    /\ lock \in Processes \cup {None}

(* The history is that of the first n versions.                             *)
Accepted(s, n) ==
    Len(s.history) <= n /\ \A i \in DOMAIN s.history : s.history[i] = Opening!Embedded(i)

(* Who holds the lock works on what was committed, first as it is.          *)
Held(p) ==
    /\ lock = p <=> result[p] = "migrating"
    /\ result[p] # "migrating" => step[p] = "preflight"
    /\ result[p] = "migrating" =>
        /\ work[p] \in Opening!Store
        /\ IF step[p] = "preflight" THEN work[p] = store ELSE Accepted(work[p], Supports[p])
        /\ step[p] \in {"initialize", "record"} => Opening!Pending(p)

LockInv == \A p \in Processes : Held(p)

OpeningInv == OpeningTypes /\ LockInv

LEMMA OpeningInitInvariant == Opening!Init => OpeningInv
<1> SUFFICES ASSUME Opening!Init PROVE OpeningInv
  OBVIOUS
<1> USE SetupAssumption DEF Opening!MigrationAssumption, Opening!Init
<1>1. start \in Opening!Store /\ start.generation \in {0, 1}
  OBVIOUS
<1>2. OpeningTypes
  BY <1>1 DEF OpeningTypes, Outcomes
<1>3. LockInv
  BY DEF LockInv, Held
<1>4. QED BY <1>2, <1>3 DEF OpeningInv

LEMMA ProblemKinds ==
    ASSUME NEW s, NEW n
    PROVE  Opening!HistoryProblem(s, n)
             \in {None, "newer_schema", "invalid_history", "checksum_mismatch"}
BY DEF Opening!HistoryProblem, Opening!RowProblem

(* A history without a problem is that of the first versions.               *)
LEMMA NoProblem ==
    ASSUME NEW s \in Opening!Store, NEW n \in Nat, Opening!HistoryProblem(s, n) = None
    PROVE  /\ Accepted(s, n)
           /\ s.history = <<>> => s.tables = {} /\ ~s.foreign
<1> DEFINE wrong == {i \in DOMAIN s.history : Opening!RowProblem(s.history[i], i, n) # None}
<1> USE SetupAssumption DEF Opening!MigrationAssumption, Opening!Failures
<1>0. s.history \in Seq(Opening!HistoryRow)
  BY DEF Opening!Store
<1>1. CASE s.history = <<>>
  BY <1>1 DEF Opening!HistoryProblem, Accepted
<1>2. CASE s.history # <<>>
  <2>1. wrong \subseteq DOMAIN s.history /\ DOMAIN s.history \subseteq Nat
    BY <1>0
  <2>2. wrong = {}
    <3>1. SUFFICES ASSUME wrong # {} PROVE FALSE
      OBVIOUS
    <3> DEFINE first == CHOOSE i \in wrong : \A j \in wrong : i <= j
    <3>2. first \in wrong
      BY <2>1, <3>1, LeastNumber
    <3>3. Opening!HistoryProblem(s, n) = Opening!RowProblem(s.history[first], first, n)
      BY <1>2, <3>1 DEF Opening!HistoryProblem
    <3>4. QED BY <3>2, <3>3
  <2>3. \A i \in DOMAIN s.history : Opening!RowProblem(s.history[i], i, n) = None
    BY <2>2
  <2>4. \A i \in DOMAIN s.history :
          /\ s.history[i].version = i /\ s.history[i].name = i /\ s.history[i].checksum = i
          /\ i <= n
    BY <2>3, <1>0 DEF Opening!RowProblem, Opening!HistoryRow, Opening!Versions
  <2>5. \A i \in DOMAIN s.history : s.history[i] = Opening!Embedded(i)
    <3>1. TAKE i \in DOMAIN s.history
    <3>2. s.history[i] = [version |-> s.history[i].version, name |-> s.history[i].name,
                          checksum |-> s.history[i].checksum]
      <4>1. s.history[i] \in Opening!HistoryRow
        BY <1>0
      <4>2. QED BY <4>1 DEF Opening!HistoryRow
    <3>3. s.history[i].version = i /\ s.history[i].name = i /\ s.history[i].checksum = i
      BY <2>4
    <3>4. s.history[i] = [version |-> i, name |-> i, checksum |-> i]
      BY <3>2, <3>3, Zenon
    <3>5. QED BY <3>4 DEF Opening!Embedded
  <2>6. Len(s.history) \in DOMAIN s.history
    BY <1>0, <1>2
  <2>7. QED BY <2>4, <2>5, <2>6, <1>2 DEF Accepted
<1>3. QED BY <1>1, <1>2

LEMMA LeavingInvariant ==
    ASSUME OpeningInv, NEW p \in Processes, NEW outcome \in Outcomes \ {"migrating"},
           Opening!Leave(p, outcome), UNCHANGED start, drawn' \in Nat,
           store' \in Opening!Store, store' = store \/ lock = p
    PROVE  OpeningInv'
<1> USE SetupAssumption DEF Opening!MigrationAssumption, OpeningInv, OpeningTypes
<1>1. OpeningTypes'
  BY DEF Opening!Leave
<1>2. LockInv'
  <2>1. SUFFICES ASSUME NEW q \in Processes PROVE Held(q)'
    BY DEF LockInv
  <2>2. CASE q = p
    BY <2>2 DEF Opening!Leave, LockInv, Held
  <2>3. CASE q # p
    <3>1. result'[q] = result[q] /\ work'[q] = work[q] /\ step'[q] = step[q]
      BY <2>3 DEF Opening!Leave
    <3>2. lock' = q <=> lock = q
      BY <2>3 DEF Opening!Leave
    <3>3. result[q] = "migrating" => store' = store
      BY <2>3 DEF LockInv, Held
    <3>4. QED BY <3>1, <3>2, <3>3 DEF LockInv, Held, Opening!Pending
  <2>4. QED BY <2>2, <2>3
<1>3. QED BY <1>1, <1>2

(* Work on the transaction of the process that has it.                      *)
LEMMA WorkingInvariant ==
    ASSUME OpeningInv, NEW p \in Processes, result[p] = "migrating",
           UNCHANGED <<store, start, result, lock>>, drawn' \in Nat,
           NEW s \in Opening!Store, work' = [work EXCEPT ![p] = s],
           NEW next \in {"create", "initialize", "record"}, step' = [step EXCEPT ![p] = next],
           Accepted(s, Supports[p]),
           next # "create" => Len(s.history) < Supports[p]
    PROVE  OpeningInv'
<1> USE SetupAssumption DEF Opening!MigrationAssumption, OpeningInv, OpeningTypes
<1>1. OpeningTypes'
  OBVIOUS
<1>2. LockInv'
  <2>1. SUFFICES ASSUME NEW q \in Processes PROVE Held(q)'
    BY DEF LockInv
  <2>2. CASE q = p
    BY <2>2 DEF Opening!Pending, LockInv, Held
  <2>3. CASE q # p
    <3>1. work'[q] = work[q] /\ step'[q] = step[q]
      BY <2>3
    <3>2. QED BY <3>1 DEF LockInv, Held, Opening!Pending
  <2>4. QED BY <2>2, <2>3
<1>3. QED BY <1>1, <1>2

(* What the steps of a migration do to the transaction of its process.      *)
Drafted(p, s, next) ==
    /\ work' = [work EXCEPT ![p] = s] /\ step' = [step EXCEPT ![p] = next]
    /\ UNCHANGED <<store, start, result, lock>>

LEMMA PreflightDrafts ==
    ASSUME OpeningInv, NEW p \in Processes, Opening!Preflight(p)
    PROVE  \/ /\ work[p] = store /\ Opening!HistoryProblem(store, Supports[p]) = None
              /\ Drafted(p, store, "create") /\ drawn' = drawn
           \/ \E outcome \in Outcomes \ {"migrating"} :
                Opening!Leave(p, outcome) /\ UNCHANGED <<store, start, drawn>>
<1> USE SetupAssumption DEF Opening!MigrationAssumption, OpeningInv, OpeningTypes
<1>1. work[p] = store /\ result[p] = "migrating" /\ UNCHANGED <<store, start, drawn>>
  BY DEF LockInv, Held, Opening!Preflight
<1>2. CASE Opening!HistoryProblem(work[p], Supports[p]) = None
  BY <1>1, <1>2 DEF Opening!Preflight, Drafted
<1>3. CASE Opening!HistoryProblem(work[p], Supports[p]) # None
  <2> DEFINE problem == Opening!HistoryProblem(work[p], Supports[p])
  <2>1. problem \in Outcomes \ {"migrating"}
    BY <1>3, ProblemKinds DEF Outcomes, Opening!Failures
  <2>2. Opening!Leave(p, problem)
    BY <1>3 DEF Opening!Preflight
  <2>3. QED BY <1>1, <2>1, <2>2
<1>4. QED BY <1>2, <1>3

LEMMA CreateDrafts ==
    ASSUME OpeningInv, NEW p \in Processes, Opening!Create(p)
    PROVE  /\ result[p] = "migrating" /\ Accepted(work[p], Supports[p])
           /\ work[p] \in Opening!Store /\ Len(work[p].history) < Supports[p]
           /\ \/ /\ Len(work[p].history) + 1 \notin work[p].tables
                 /\ \E next \in {"initialize", "record"} :
                      /\ next = "initialize" => Len(work[p].history) + 1 = JournalVersion
                      /\ Drafted(p, [work[p] EXCEPT
                                        !.tables = @ \cup {Len(work[p].history) + 1}], next)
              \/ Opening!Leave(p, "sqlite") /\ UNCHANGED <<store, start>>
           /\ drawn' = drawn
<1> USE SetupAssumption DEF Opening!MigrationAssumption, OpeningInv, OpeningTypes
<1> DEFINE n == Len(work[p].history)
<1>1. /\ result[p] = "migrating" /\ n < Supports[p] /\ step[p] = "create"
      /\ UNCHANGED <<store, start, drawn>>
  BY DEF Opening!Create, Opening!Pending
<1>2. Accepted(work[p], Supports[p]) /\ work[p] \in Opening!Store
  BY <1>1 DEF LockInv, Held
<1>3. CASE n + 1 \notin work[p].tables
  <2>1. /\ work' = [work EXCEPT ![p] = [work[p] EXCEPT !.tables = @ \cup {n + 1}]]
        /\ step' = [step EXCEPT ![p] = IF n + 1 = JournalVersion THEN "initialize" ELSE "record"]
        /\ UNCHANGED <<result, lock>>
    BY <1>3 DEF Opening!Create, Opening!NextVersion
  <2>2. QED BY <1>1, <1>2, <1>3, <2>1 DEF Drafted
<1>4. CASE n + 1 \in work[p].tables
  BY <1>1, <1>2, <1>4 DEF Opening!Create, Opening!NextVersion
<1>5. QED BY <1>3, <1>4

LEMMA InitializeDrafts ==
    ASSUME OpeningInv, NEW p \in Processes, Opening!Initialize(p)
    PROVE  /\ result[p] = "migrating" /\ step[p] = "initialize"
           /\ Accepted(work[p], Supports[p])
           /\ work[p] \in Opening!Store /\ Len(work[p].history) < Supports[p]
           /\ Drafted(p, [work[p] EXCEPT !.generation = drawn + 1], "record")
           /\ drawn' = drawn + 1
<1> USE SetupAssumption DEF Opening!MigrationAssumption, OpeningInv, OpeningTypes
<1>1. result[p] = "migrating" /\ step[p] = "initialize" /\ Len(work[p].history) < Supports[p]
  BY DEF Opening!Initialize, Opening!Pending
<1>2. Accepted(work[p], Supports[p]) /\ work[p] \in Opening!Store
  BY <1>1 DEF LockInv, Held
<1>3. QED BY <1>1, <1>2 DEF Opening!Initialize, Drafted

LEMMA RecordDrafts ==
    ASSUME OpeningInv, NEW p \in Processes, Opening!Record(p)
    PROVE  /\ result[p] = "migrating" /\ step[p] = "record"
           /\ Accepted(work[p], Supports[p])
           /\ work[p] \in Opening!Store /\ Len(work[p].history) < Supports[p]
           /\ Drafted(p, [work[p] EXCEPT !.history =
                             Append(@, Opening!Embedded(Len(work[p].history) + 1))], "create")
           /\ drawn' = drawn
<1> USE SetupAssumption DEF Opening!MigrationAssumption, OpeningInv, OpeningTypes
<1>1. result[p] = "migrating" /\ step[p] = "record" /\ Len(work[p].history) < Supports[p]
  BY DEF Opening!Record, Opening!Pending
<1>2. Accepted(work[p], Supports[p]) /\ work[p] \in Opening!Store
  BY <1>1 DEF LockInv, Held
<1>3. QED BY <1>1, <1>2 DEF Opening!Record, Opening!NextVersion, Drafted

LEMMA CommitLeaves ==
    ASSUME OpeningInv, NEW p \in Processes, Opening!Commit(p)
    PROVE  /\ result[p] = "migrating" /\ step[p] = "create" /\ lock = p
           /\ Accepted(work[p], Supports[p]) /\ Len(work[p].history) = Supports[p]
           /\ work[p] \in Opening!Store
           /\ \/ Opening!Valid(p) /\ store' = work[p] /\ Opening!Leave(p, "open")
              \/ store' = store /\ Opening!Leave(p, "journal")
           /\ UNCHANGED <<drawn, start>>
<1> USE SetupAssumption DEF Opening!MigrationAssumption, OpeningInv, OpeningTypes
<1>1. /\ result[p] = "migrating" /\ step[p] = "create"
      /\ ~(Len(work[p].history) < Supports[p])
  BY DEF Opening!Commit, Opening!Pending
<1>2. Accepted(work[p], Supports[p]) /\ work[p] \in Opening!Store /\ lock = p
  BY <1>1 DEF LockInv, Held
<1>3. Len(work[p].history) \in Nat /\ Supports[p] \in Nat
  <2>1. work[p].history \in Seq(Opening!HistoryRow)
    BY <1>2 DEF Opening!Store
  <2>2. Supports[p] \in Opening!Versions
    OBVIOUS
  <2>3. QED BY <2>1, <2>2 DEF Opening!Versions
<1>4. QED BY <1>1, <1>2, <1>3 DEF Opening!Commit, Accepted

LEMMA CreatedTables ==
    ASSUME NEW s \in Opening!Store, NEW n \in Opening!Versions, Len(s.history) < n
    PROVE  LET t == [s EXCEPT !.tables = @ \cup {Len(s.history) + 1}]
           IN  /\ t \in Opening!Store /\ t.history = s.history
               /\ t.tables = s.tables \cup {Len(s.history) + 1}
               /\ t.foreign = s.foreign /\ t.generation = s.generation /\ t.sound = s.sound
<1>1. Len(s.history) \in Nat /\ Len(s.history) + 1 \in Opening!Versions
  BY DEF Opening!Store, Opening!Versions
<1>2. QED BY <1>1 DEF Opening!Store

LEMMA RecordedRow ==
    ASSUME NEW s \in Opening!Store, NEW n \in Opening!Versions, Len(s.history) < n, Accepted(s, n)
    PROVE  LET t == [s EXCEPT !.history = Append(@, Opening!Embedded(Len(s.history) + 1))]
           IN  /\ t \in Opening!Store /\ Accepted(t, n)
               /\ Len(t.history) = Len(s.history) + 1
               /\ DOMAIN t.history = DOMAIN s.history \cup {Len(s.history) + 1}
               /\ t.tables = s.tables /\ t.foreign = s.foreign
               /\ t.generation = s.generation /\ t.sound = s.sound
<1> DEFINE row == Opening!Embedded(Len(s.history) + 1)
           t == [s EXCEPT !.history = Append(@, row)]
<1>1. s.history \in Seq(Opening!HistoryRow) /\ Len(s.history) \in Nat
  BY DEF Opening!Store
<1>2. Len(s.history) + 1 \in Opening!Versions
  BY <1>1 DEF Opening!Versions
<1>3. row \in Opening!HistoryRow
  BY <1>2 DEF Opening!HistoryRow, Opening!Embedded
<1> HIDE DEF row
<1>4. /\ t.history = Append(s.history, row) /\ t.tables = s.tables /\ t.foreign = s.foreign
      /\ t.generation = s.generation /\ t.sound = s.sound
  BY DEF Opening!Store
<1>5. t.history \in Seq(Opening!HistoryRow) /\ t \in Opening!Store
  <2>1. Append(s.history, row) \in Seq(Opening!HistoryRow)
    BY <1>1, <1>3
  <2>2. \A h \in Seq(Opening!HistoryRow) : [s EXCEPT !.history = h] \in Opening!Store
    BY DEF Opening!Store
  <2>3. QED BY <1>4, <2>1, <2>2
<1>6. /\ Len(t.history) = Len(s.history) + 1
      /\ DOMAIN t.history = DOMAIN s.history \cup {Len(s.history) + 1}
  BY <1>1, <1>3, <1>4
<1>7. \A i \in DOMAIN t.history : t.history[i] = Opening!Embedded(i)
  <2>1. \A i \in DOMAIN s.history : t.history[i] = s.history[i]
    BY <1>1, <1>3, <1>4
  <2>2. t.history[Len(s.history) + 1] = row
    BY <1>1, <1>3, <1>4
  <2>3. QED BY <1>6, <2>1, <2>2 DEF Accepted, row
<1> HIDE DEF t
<1>8. Accepted(t, n)
  BY <1>1, <1>6, <1>7 DEF Accepted, Opening!Versions
<1>9. QED BY <1>4, <1>5, <1>6, <1>8 DEF t, row

(* A step is a draft, or leaves, or only asks for the lock.                 *)
LEMMA OpeningStep == ASSUME OpeningInv, Opening!Next PROVE OpeningInv'
<1> USE SetupAssumption DEF Opening!MigrationAssumption
<1>0. PICK p \in Processes : Opening!Open(p) \/ Opening!Step(p) \/ Opening!Fail(p)
                              \/ Opening!Crash(p) \/ Opening!Close(p)
  BY DEF Opening!Next
<1>t. /\ store \in Opening!Store /\ drawn \in Nat /\ drawn + 1 \in Nat
      /\ Supports[p] \in Opening!Versions
  BY DEF OpeningInv, OpeningTypes
<1>1. CASE Opening!Open(p)
  <2>1. OpeningTypes'
    BY <1>1 DEF Opening!Open, OpeningInv, OpeningTypes, Outcomes
  <2>2. result[p] # "migrating"
    BY <1>1 DEF Opening!Open, Opening!Failures
  <2>3. LockInv'
    BY <1>1, <2>2 DEF Opening!Open, OpeningInv, OpeningTypes, LockInv, Held, Opening!Pending
  <2>4. QED BY <2>1, <2>3 DEF OpeningInv
<1>2. CASE Opening!Begin(p)
  <2>1. OpeningTypes'
    BY <1>2 DEF Opening!Begin, OpeningInv, OpeningTypes, Outcomes
  <2>2. step[p] = "preflight"
    BY <1>2 DEF Opening!Begin, OpeningInv, LockInv, Held
  <2>3. LockInv'
    BY <1>2, <2>2 DEF Opening!Begin, OpeningInv, OpeningTypes, LockInv, Held, Opening!Pending
  <2>4. QED BY <2>1, <2>3 DEF OpeningInv
<1>3. CASE Opening!Busy(p)
  BY <1>3, <1>t, LeavingInvariant DEF Opening!Busy, Outcomes, Opening!Failures
<1>4. CASE Opening!Preflight(p)
  <2>1. CASE \E outcome \in Outcomes \ {"migrating"} :
                Opening!Leave(p, outcome) /\ UNCHANGED <<store, start, drawn>>
    BY <1>t, <2>1, LeavingInvariant
  <2>2. CASE /\ work[p] = store /\ Opening!HistoryProblem(store, Supports[p]) = None
             /\ Drafted(p, store, "create") /\ drawn' = drawn
    <3>1. Accepted(store, Supports[p]) /\ result[p] = "migrating"
      BY <1>4, <1>t, <2>2, NoProblem DEF Opening!Preflight, Opening!Versions
    <3>2. QED BY <1>t, <2>2, <3>1, WorkingInvariant DEF Drafted
  <2>3. QED BY <1>4, <2>1, <2>2, PreflightDrafts
<1>5. CASE Opening!Create(p)
  <2> DEFINE t == [work[p] EXCEPT !.tables = @ \cup {Len(work[p].history) + 1}]
  <2>1. /\ result[p] = "migrating" /\ Accepted(work[p], Supports[p]) /\ drawn' = drawn
        /\ work[p] \in Opening!Store /\ Len(work[p].history) < Supports[p]
    BY <1>5, CreateDrafts
  <2>2. t \in Opening!Store /\ t.history = work[p].history
    BY <1>t, <2>1, CreatedTables
  <2>3. CASE \E next \in {"initialize", "record"} : Drafted(p, t, next)
    <3> HIDE DEF t
    <3>1. PICK next \in {"initialize", "record"} : Drafted(p, t, next)
      BY <2>3
    <3>2. Accepted(t, Supports[p]) /\ Len(t.history) < Supports[p]
      BY <2>1, <2>2 DEF Accepted
    <3>3. QED BY <1>t, <2>1, <2>2, <3>1, <3>2, WorkingInvariant DEF Drafted
  <2>4. CASE Opening!Leave(p, "sqlite") /\ UNCHANGED <<store, start>>
    BY <1>t, <2>1, <2>4, LeavingInvariant DEF Outcomes, Opening!Failures
  <2>5. QED BY <1>5, <2>3, <2>4, CreateDrafts
<1>6. CASE Opening!Initialize(p)
  <2> DEFINE t == [work[p] EXCEPT !.generation = drawn + 1]
  <2>1. /\ result[p] = "migrating" /\ Accepted(work[p], Supports[p]) /\ drawn' = drawn + 1
        /\ work[p] \in Opening!Store /\ Len(work[p].history) < Supports[p]
        /\ Drafted(p, t, "record")
    BY <1>6, InitializeDrafts
  <2>2. t \in Opening!Store /\ t.history = work[p].history
    BY <1>t, <2>1 DEF Opening!Store
  <2> HIDE DEF t
  <2>3. Accepted(t, Supports[p]) /\ Len(t.history) < Supports[p]
    BY <2>1, <2>2 DEF Accepted
  <2>4. QED BY <1>t, <2>1, <2>2, <2>3, WorkingInvariant DEF Drafted
<1>7. CASE Opening!Record(p)
  <2> DEFINE t == [work[p] EXCEPT !.history =
                      Append(@, Opening!Embedded(Len(work[p].history) + 1))]
  <2>1. /\ result[p] = "migrating" /\ Accepted(work[p], Supports[p]) /\ drawn' = drawn
        /\ work[p] \in Opening!Store /\ Len(work[p].history) < Supports[p]
        /\ Drafted(p, t, "create")
    BY <1>7, RecordDrafts
  <2>2. t \in Opening!Store /\ Accepted(t, Supports[p])
    BY <1>t, <2>1, RecordedRow
  <2> HIDE DEF t
  <2>3. QED BY <1>t, <2>1, <2>2, WorkingInvariant DEF Drafted
<1>8. CASE Opening!Commit(p)
  <2>1. /\ lock = p /\ work[p] \in Opening!Store /\ UNCHANGED <<drawn, start>>
        /\ \/ store' = work[p] /\ Opening!Leave(p, "open")
           \/ store' = store /\ Opening!Leave(p, "journal")
    BY <1>8, CommitLeaves
  <2>2. QED BY <1>t, <2>1, LeavingInvariant DEF Outcomes, Opening!Failures
<1>9. CASE Opening!Fail(p)
  BY <1>9, <1>t, LeavingInvariant DEF Opening!Fail, Outcomes, Opening!Failures
<1>10. CASE Opening!Crash(p)
  BY <1>10, <1>t, LeavingInvariant DEF Opening!Crash, Outcomes
<1>11. CASE Opening!Close(p)
  BY <1>11, <1>t, LeavingInvariant DEF Opening!Close, Outcomes
<1>12. QED
  BY <1>0, <1>1, <1>2, <1>3, <1>4, <1>5, <1>6, <1>7, <1>8, <1>9, <1>10, <1>11
  DEF Opening!Step

LEMMA OpeningKept == SetupSpec => []OpeningInv
<1>1. OpeningInv /\ UNCHANGED Opening!vars => OpeningInv'
  BY DEF Opening!vars, OpeningInv, OpeningTypes, LockInv, Held, Opening!Pending
<1>2. QED BY <1>1, OpeningInitInvariant, OpeningStep, PartsMove, PTL

(* Whoever opens has committed a store of its versions.                     *)
LEMMA OpenedByCommit ==
    ASSUME OpeningInv, Opening!Next, NEW p \in Processes,
           result[p] # "open", result'[p] = "open"
    PROVE  Opening!Commit(p)
<1>1. PICK q \in Processes : Opening!Open(q) \/ Opening!Step(q) \/ Opening!Fail(q)
                              \/ Opening!Crash(q) \/ Opening!Close(q)
  BY DEF Opening!Next
<1> USE DEF OpeningInv, OpeningTypes
<1>2. CASE Opening!Open(q) \/ Opening!Begin(q) \/ Opening!Busy(q)
  BY <1>2 DEF Opening!Open, Opening!Begin, Opening!Busy, Opening!Leave
<1>3. CASE Opening!Fail(q) \/ Opening!Crash(q) \/ Opening!Close(q)
  BY <1>3 DEF Opening!Fail, Opening!Crash, Opening!Close, Opening!Leave
<1>4. CASE Opening!Preflight(q)
  <2>1. Opening!HistoryProblem(work[q], Supports[q]) # "open"
           \/ Opening!HistoryProblem(work[q], Supports[q]) = None
    BY ProblemKinds
  <2>2. QED BY <1>4, <2>1 DEF Opening!Preflight, Opening!Leave
<1>5. CASE Opening!Create(q) \/ Opening!Initialize(q) \/ Opening!Record(q)
  BY <1>5 DEF Opening!Create, Opening!Initialize, Opening!Record, Opening!Leave
<1>6. CASE Opening!Commit(q)
  BY <1>6 DEF Opening!Commit, Opening!Leave
<1>7. QED BY <1>1, <1>2, <1>3, <1>4, <1>5, <1>6 DEF Opening!Step

(* A store that was opened has every migration the program embeds and sound *)
(* metadata: nothing came between the last look at the history and the      *)
(* commit, whatever other programs did (storage.rs, migrate_all).           *)
THEOREM OpenedStoresAreCurrent == SetupSpec => OpenedIsCurrent
<1>1. ASSUME OpeningInv, Opening!Next, NEW p \in Processes,
             result[p] # "open", result'[p] = "open"
      PROVE  /\ Len(store'.history) = Supports[p]
             /\ \A i \in 1..Supports[p] : store'.history[i] = Opening!Embedded(i)
             /\ Supports[p] >= JournalVersion => store'.sound /\ store'.generation # 0
  <2>1. Opening!Commit(p)
    BY <1>1, OpenedByCommit
  <2>2. /\ Accepted(work[p], Supports[p]) /\ Len(work[p].history) = Supports[p]
        /\ work[p] \in Opening!Store
        /\ \/ Opening!Valid(p) /\ store' = work[p]
           \/ Opening!Leave(p, "journal")
    BY <1>1, <2>1, CommitLeaves
  <2>3. ~Opening!Leave(p, "journal")
    BY <1>1 DEF Opening!Leave, OpeningInv, OpeningTypes
  <2>4. DOMAIN work[p].history = 1..Supports[p]
    BY <2>2 DEF Opening!Store
  <2>5. QED BY <2>2, <2>3, <2>4 DEF Accepted, Opening!Valid
<1> DEFINE Current ==
      \A p \in Processes : result[p] # "open" /\ result'[p] = "open" =>
            /\ Len(store'.history) = Supports[p]
            /\ \A i \in 1..Supports[p] : store'.history[i] = Opening!Embedded(i)
            /\ Supports[p] >= JournalVersion => store'.sound /\ store'.generation # 0
<1>2. OpeningInv /\ [Opening!Next]_(Opening!vars) => [Current]_(Opening!vars)
  BY <1>1
<1>3. OpenedIsCurrent <=> [][Current]_(Opening!vars)
  BY DEF OpenedIsCurrent, Opening!OpenedIsCurrent
<1> HIDE DEF Current
<1>4. QED BY <1>2, <1>3, OpeningKept, PartsMove, PTL

(* Under HistoriesAreTrue, what a transaction has is either the store that  *)
(* was found and cannot be taken further, or a whole one but for metadata   *)
(* and the version in work.                                                 *)
Stuck(s) == s = start /\ Len(s.history) + 1 \in s.tables

Clean(s) ==
    /\ s.tables = DOMAIN s.history /\ ~s.foreign
    /\ s.generation # 0 \/ ~s.sound => JournalVersion \in s.tables

Grown(s) ==
    /\ s.tables = DOMAIN s.history \cup {Len(s.history) + 1} /\ ~s.foreign
    /\ s.generation # 0 \/ ~s.sound => JournalVersion \in s.tables

Built(s, at) ==
    \/ at = "preflight"
    \/ at = "create" /\ (Stuck(s) \/ Clean(s))
    \/ at = "initialize" /\ Grown(s) /\ Len(s.history) + 1 = JournalVersion
    \/ at = "record" /\ Grown(s)

BuildInv == \A p \in Processes : result[p] = "migrating" => Built(work[p], step[p])

CommittedInv == OpeningInv /\ CommittedIsWhole /\ BuildInv

LEMMA FoundIsClean ==
    ASSUME HistoriesAreTrue, OpeningInv, CommittedIsWhole, NEW n \in Opening!Versions,
           Opening!HistoryProblem(store, n) = None
    PROVE  Stuck(store) \/ Clean(store)
<1>1. CASE store = start
  <2>1. /\ Accepted(store, n) /\ store \in Opening!Store
        /\ store.history = <<>> => store.tables = {} /\ ~store.foreign
    BY NoProblem DEF OpeningInv, OpeningTypes, Opening!Versions
  <2>2. Opening!HistoryProblem(store, Len(store.history)) = None
    <3>1. \A i \in DOMAIN store.history :
            Opening!RowProblem(store.history[i], i, Len(store.history)) = None
      BY <2>1 DEF Opening!RowProblem, Accepted, Opening!Embedded, Opening!Store
    <3>2. QED BY <2>1, <3>1 DEF Opening!HistoryProblem
  <2>3. start \in Starts
    BY DEF OpeningInv, OpeningTypes
  <2>4. QED BY <1>1, <2>2, <2>3 DEF HistoriesAreTrue, Stuck, Clean
<1>2. CASE Opening!Whole(store)
  BY <1>2 DEF Opening!Whole, Clean
<1>3. QED BY <1>1, <1>2 DEF CommittedIsWhole, Opening!CommittedIsWhole

LEMMA BuildStep ==
    ASSUME HistoriesAreTrue, CommittedInv, Opening!Next
    PROVE  CommittedIsWhole' /\ BuildInv'
<1> USE SetupAssumption DEF Opening!MigrationAssumption
<1>0. PICK p \in Processes : Opening!Open(p) \/ Opening!Step(p) \/ Opening!Fail(p)
                              \/ Opening!Crash(p) \/ Opening!Close(p)
  BY DEF Opening!Next
<1>t. /\ store \in Opening!Store /\ drawn \in Nat /\ OpeningInv /\ BuildInv
      /\ Supports[p] \in Opening!Versions
      /\ step \in [Processes -> {"preflight", "create", "initialize", "record"}]
      /\ result \in [Processes -> Outcomes] /\ work \in [Processes -> Opening!Store \cup {None}]
  BY DEF CommittedInv, OpeningInv, OpeningTypes
<1>l. ASSUME NEW outcome, outcome # "migrating", Opening!Leave(p, outcome), start' = start
      PROVE  BuildInv'
  BY <1>t, <1>l DEF Opening!Leave, BuildInv, Built, Stuck, Clean, Grown
<1>s. ASSUME UNCHANGED <<store, start>> PROVE CommittedIsWhole'
  BY <1>s DEF CommittedInv, CommittedIsWhole, Opening!CommittedIsWhole, Opening!Whole
<1>w. ASSUME NEW s, NEW next, Drafted(p, s, next), next # "preflight", Built(s, next)
      PROVE  CommittedIsWhole' /\ BuildInv'
  <2>1. UNCHANGED <<store, start, result>>
    BY <1>w DEF Drafted
  <2>2. work'[p] = s /\ step'[p] = next
    BY <1>t, <1>w DEF Drafted
  <2>3. \A q \in Processes \ {p} : work'[q] = work[q] /\ step'[q] = step[q]
    BY <1>t, <1>w DEF Drafted
  <2>4. BuildInv'
    <3>1. SUFFICES ASSUME NEW q \in Processes, result'[q] = "migrating"
                   PROVE  Built(work[q], step[q])'
      BY DEF BuildInv
    <3>2. Built(work'[q], step'[q])
      BY <1>t, <1>w, <2>1, <2>2, <2>3, <3>1 DEF BuildInv
    <3>3. QED BY <2>1, <3>2 DEF Built, Stuck, Clean, Grown
  <2>5. QED BY <1>s, <2>1, <2>4
<1>1. CASE Opening!Open(p)
  <2>1. UNCHANGED <<store, start, work, step>>
    BY <1>1 DEF Opening!Open
  <2>2. \A q \in Processes : result'[q] = "migrating" => result[q] = "migrating"
    BY <1>1, <1>t DEF Opening!Open
  <2>3. QED BY <1>s, <1>t, <2>1, <2>2 DEF BuildInv, Built, Stuck
<1>2. CASE Opening!Begin(p)
  <2>1. UNCHANGED <<store, start, step>> /\ step[p] = "preflight"
    BY <1>2, <1>t DEF Opening!Begin, OpeningInv, LockInv, Held
  <2>2. \A q \in Processes \ {p} : result'[q] = result[q] /\ work'[q] = work[q]
    BY <1>2, <1>t DEF Opening!Begin
  <2>3. QED BY <1>s, <1>t, <2>1, <2>2 DEF BuildInv, Built, Stuck
<1>3. CASE Opening!Busy(p)
  BY <1>3, <1>l, <1>s DEF Opening!Busy
<1>4. CASE Opening!Preflight(p)
  <2>1. CASE \E outcome \in Outcomes \ {"migrating"} :
                Opening!Leave(p, outcome) /\ UNCHANGED <<store, start, drawn>>
    BY <1>l, <1>s, <2>1
  <2>2. CASE /\ work[p] = store /\ Opening!HistoryProblem(store, Supports[p]) = None
             /\ Drafted(p, store, "create")
    <3>1. Stuck(store) \/ Clean(store)
      BY <1>t, <2>2, FoundIsClean DEF CommittedInv
    <3>2. Built(store, "create")
      BY <3>1 DEF Built
    <3>3. QED BY <1>w, <2>2, <3>2
  <2>3. QED BY <1>4, <1>t, <2>1, <2>2, PreflightDrafts
<1>5. CASE Opening!Create(p)
  <2> DEFINE t == [work[p] EXCEPT !.tables = @ \cup {Len(work[p].history) + 1}]
  <2>1. /\ result[p] = "migrating" /\ step[p] = "create"
        /\ work[p] \in Opening!Store /\ Len(work[p].history) < Supports[p]
    BY <1>5, <1>t, CreateDrafts DEF Opening!Create
  <2>2. /\ t \in Opening!Store /\ t.history = work[p].history /\ t.foreign = work[p].foreign
        /\ t.tables = work[p].tables \cup {Len(work[p].history) + 1}
        /\ t.generation = work[p].generation /\ t.sound = work[p].sound
    BY <1>t, <2>1, CreatedTables
  <2> HIDE DEF t
  <2>3. CASE /\ Len(work[p].history) + 1 \notin work[p].tables
             /\ \E next \in {"initialize", "record"} :
                  /\ next = "initialize" => Len(work[p].history) + 1 = JournalVersion
                  /\ Drafted(p, t, next)
    <3>1. Clean(work[p])
      BY <1>t, <2>1, <2>3 DEF BuildInv, Built, Stuck
    <3>2. Grown(t)
      BY <2>2, <3>1 DEF Grown, Clean
    <3>3. PICK next \in {"initialize", "record"} :
            /\ next = "initialize" => Len(work[p].history) + 1 = JournalVersion
            /\ Drafted(p, t, next)
      BY <2>3
    <3>4. Built(t, next)
      BY <2>2, <3>2, <3>3 DEF Built
    <3>5. QED BY <1>w, <3>3, <3>4
  <2>4. CASE Opening!Leave(p, "sqlite") /\ UNCHANGED <<store, start>>
    BY <1>l, <1>s, <2>4
  <2>5. QED BY <1>5, <1>t, <2>3, <2>4, CreateDrafts DEF t
<1>6. CASE Opening!Initialize(p)
  <2> DEFINE t == [work[p] EXCEPT !.generation = drawn + 1]
  <2>1. /\ result[p] = "migrating" /\ step[p] = "initialize" /\ work[p] \in Opening!Store
        /\ Drafted(p, t, "record")
    BY <1>6, <1>t, InitializeDrafts
  <2>2. /\ t.history = work[p].history /\ t.foreign = work[p].foreign
        /\ t.tables = work[p].tables /\ t.sound = work[p].sound
    BY <2>1 DEF Opening!Store
  <2> HIDE DEF t
  <2>3. Grown(work[p]) /\ Len(work[p].history) + 1 = JournalVersion
    BY <1>t, <2>1 DEF BuildInv, Built
  <2>4. Grown(t)
    BY <2>2, <2>3 DEF Grown
  <2>5. Built(t, "record")
    BY <2>4 DEF Built
  <2>6. QED BY <1>w, <2>1, <2>5
<1>7. CASE Opening!Record(p)
  <2> DEFINE t == [work[p] EXCEPT !.history =
                      Append(@, Opening!Embedded(Len(work[p].history) + 1))]
  <2>1. /\ result[p] = "migrating" /\ step[p] = "record" /\ work[p] \in Opening!Store
        /\ Len(work[p].history) < Supports[p] /\ Accepted(work[p], Supports[p])
        /\ Drafted(p, t, "create")
    BY <1>7, <1>t, RecordDrafts
  <2>2. /\ t.tables = work[p].tables /\ t.foreign = work[p].foreign
        /\ t.generation = work[p].generation /\ t.sound = work[p].sound
        /\ DOMAIN t.history = DOMAIN work[p].history \cup {Len(work[p].history) + 1}
    BY <1>t, <2>1, RecordedRow
  <2> HIDE DEF t
  <2>3. Clean(t)
    BY <1>t, <2>1, <2>2 DEF BuildInv, Built, Grown, Clean
  <2>4. Built(t, "create")
    BY <2>3 DEF Built
  <2>5. QED BY <1>w, <2>1, <2>4
<1>8. CASE Opening!Commit(p)
  <2>1. /\ result[p] = "migrating" /\ step[p] = "create"
        /\ Accepted(work[p], Supports[p]) /\ Len(work[p].history) = Supports[p]
        /\ work[p] \in Opening!Store
        /\ UNCHANGED <<drawn, start>>
        /\ \/ Opening!Valid(p) /\ store' = work[p] /\ Opening!Leave(p, "open")
           \/ store' = store /\ Opening!Leave(p, "journal")
    BY <1>8, <1>t, CommitLeaves
  <2>2. BuildInv'
    BY <1>l, <2>1
  <2>3. ASSUME Opening!Valid(p), store' = work[p], Clean(work[p])
        PROVE  Opening!Whole(store')
    <3>1. DOMAIN work[p].history = 1..Supports[p]
      BY <2>1 DEF Opening!Store
    <3>2. JournalVersion \in work[p].tables => work[p].generation # 0 /\ work[p].sound
      BY <2>3, <3>1, <1>t DEF Opening!Valid, Clean, Opening!Versions
    <3>3. QED BY <2>1, <2>3, <3>2 DEF Opening!Whole, Clean, Accepted, Opening!Store
  <2>4. Stuck(work[p]) \/ Clean(work[p])
    BY <1>t, <2>1 DEF BuildInv, Built
  <2>5. CommittedIsWhole'
    BY <1>s, <2>1, <2>3, <2>4 DEF Stuck, CommittedIsWhole, Opening!CommittedIsWhole
  <2>6. QED BY <2>2, <2>5
<1>9. CASE Opening!Fail(p)
  BY <1>9, <1>l, <1>s DEF Opening!Fail
<1>10. CASE Opening!Crash(p)
  BY <1>10, <1>l, <1>s DEF Opening!Crash
<1>11. CASE Opening!Close(p)
  BY <1>11, <1>l, <1>s DEF Opening!Close
<1>12. QED
  BY <1>0, <1>1, <1>2, <1>3, <1>4, <1>5, <1>6, <1>7, <1>8, <1>9, <1>10, <1>11
  DEF Opening!Step

(* Whatever fails or dies, and whichever versions of the program meet, what *)
(* is committed is the store that was found or a whole one, if a history    *)
(* that is accepted tells the truth (storage.rs, migrate_all).              *)
THEOREM WhatIsCommittedIsWhole ==
    ASSUME HistoriesAreTrue
    PROVE  SetupSpec => []CommittedIsWhole
<1>1. Opening!Init => CommittedIsWhole /\ BuildInv
  BY DEF Opening!Init, CommittedIsWhole, Opening!CommittedIsWhole, BuildInv
<1>2. OpeningInv /\ CommittedIsWhole /\ BuildInv /\ [Opening!Next]_(Opening!vars)
        => CommittedIsWhole' /\ BuildInv'
  <2>1. ASSUME CommittedIsWhole, BuildInv, UNCHANGED Opening!vars
        PROVE  CommittedIsWhole' /\ BuildInv'
    BY <2>1 DEF Opening!vars, CommittedIsWhole, Opening!CommittedIsWhole, Opening!Whole, BuildInv,
                Built, Stuck, Clean, Grown
  <2>2. QED BY <2>1, BuildStep DEF CommittedInv
<1>3. QED BY <1>1, <1>2, OpeningKept, PartsMove, PTL

-----------------------------------------------------------------------------
(* The configuration.                                                       *)

Bare(j) == j.root = None /\ j.requester = None /\ j.env.root = None /\ j.env.requester = None

LEMMA ReadBack ==
    ASSUME NEW j, NEW f, Bare(j), Configured!Selected(j.config, j.env) # None,
           f[Configured!Selected(j.config, j.env)] \in Configured!Text,
           f[Configured!Selected(j.config, j.env)].tail = None
    PROVE  Configured!Load(j, f) = Configured!Ok(f[Configured!Selected(j.config, j.env)].pair)
<1> DEFINE path == Configured!Selected(j.config, j.env)
           pair == f[path].pair
<1> USE SetupAssumption DEF Configured!ConfigurationAssumption
<1>1. f[path] # None /\ f[path] # Missing /\ pair \in Configured!Pair
  BY DEF Configured!Text
<1>2. pair # Missing /\ pair.root \in Roots /\ pair.requester \in Requesters
      /\ pair = [root |-> pair.root, requester |-> pair.requester]
  BY <1>1 DEF Configured!Pair
<1>3. Configured!Parse(f[path]) = pair
  BY <1>1 DEF Configured!Parse
<1>4. pair.root # None /\ pair.requester # None
  BY <1>2
<1>5. pair.root \in DOMAIN Places => Places[pair.root] = pair.root /\ pair.root # Missing
  BY <1>2
<1> HIDE SetupAssumption DEF Configured!ConfigurationAssumption
<1>6. [root |-> Places[pair.root], requester |-> pair.requester] = pair
         \/ pair.root \notin DOMAIN Places
  BY <1>2, <1>5
<1> HIDE DEF pair
<1> DEFINE absent == path = None \/ f[path] = Missing
           values == Configured!Parse(IF absent THEN None ELSE f[path])
           root == Configured!FirstOf(Configured!FirstOf(j.root, j.env.root), values.root)
           requester == Configured!FirstOf(Configured!FirstOf(j.requester, j.env.requester),
                                           values.requester)
<1>7. ~absent /\ values = pair
  BY <1>1, <1>3
<1>8. root = pair.root /\ requester = pair.requester
  BY <1>4, <1>7 DEF Bare, Configured!FirstOf
<1>9. Configured!Load(j, f) =
        IF Configured!FirstOf(j.config, Configured!Variable(j.env)) # None /\ absent
        THEN Configured!Failed("unreadable")
        ELSE IF values = Missing THEN Configured!Failed("invalid_file")
        ELSE IF root = None \/ requester = None THEN Configured!Failed("not_initialized")
        ELSE IF root \notin DOMAIN Places
             THEN Configured!Ok([root |-> root, requester |-> requester])
        ELSE IF Places[root] = Missing THEN Configured!Failed("invalid_root")
        ELSE Configured!Ok([root |-> Places[root], requester |-> requester])
  BY DEF Configured!Load
<1> HIDE DEF absent, values, root, requester
<1>10. Configured!Load(j, f) = Configured!Ok(pair)
  BY <1>2, <1>4, <1>5, <1>6, <1>7, <1>8, <1>9
<1>11. QED BY <1>10 DEF pair, path

(* Who loads with nothing but a file has read a whole text.                 *)
LEMMA LoadedText ==
    ASSUME NEW j, NEW f, Bare(j), Configured!Load(j, f).code = "ok"
    PROVE  /\ Configured!Selected(j.config, j.env) # None
           /\ f[Configured!Selected(j.config, j.env)] \notin {None, Missing}
           /\ f[Configured!Selected(j.config, j.env)].tail = None
<1> DEFINE path == Configured!Selected(j.config, j.env)
           absent == path = None \/ f[path] = Missing
           values == Configured!Parse(IF absent THEN None ELSE f[path])
<1> USE DEF Bare, Configured!FirstOf
<1>1. \A code : Configured!Failed(code).code = code
  BY DEF Configured!Failed
<1>2. values # Missing /\ values.root # None
  BY <1>1 DEF Configured!Load
<1>3. ~absent /\ f[path] # None
  BY <1>2 DEF Configured!Parse
<1>4. f[path].tail = None
  BY <1>2, <1>3 DEF Configured!Parse
<1>5. QED BY <1>3, <1>4

Inits(c) == command[c].job # None /\ command[c].job.op = "init"

Acts(c) == command[c].phase \in {"truncated", "written"} \/ command[c].answer.code = "ok"

IsCommand(r) ==
    /\ r = [phase |-> r.phase, job |-> r.job, answer |-> r.answer, alone |-> r.alone]
    /\ r.job \in Orders \cup {None}
    /\ r.phase = "idle" <=> r.job = None
    /\ r.job = None => r.answer.code # "ok"

CommandTypes ==
    /\ file \in [Files -> {None, Missing} \cup Configured!Text]
    /\ command = [c \in Calls |-> command[c]]
    /\ \A c \in Calls : IsCommand(command[c])

(* Who writes, or has been answered, knew where and what to write; who has  *)
(* not written has no answer.                                               *)
GoalInv ==
    \A c \in Calls :
        /\ command[c].phase \in {"begun", "truncated", "written"} => command[c].answer.code # "ok"
        /\ command[c].phase \in {"truncated", "written"} => Inits(c)
        /\ Inits(c) /\ Acts(c) =>
            /\ Configured!Target(command[c].job) \in Files
            /\ Configured!Intended(command[c].job) \in Configured!Pair
            /\ command[c].answer.code = "ok" =>
                 command[c].answer = Configured!Ok(Configured!Intended(command[c].job))

TextInv ==
    \A f \in Files : file[f] \notin {None, Missing} => file[f].pair \in Configured!Given

LoadInv ==
    \A c \in Calls :
        command[c].job # None /\ command[c].job.op = "load" /\ Bare(command[c].job)
        /\ command[c].answer.code = "ok" => command[c].answer.pair \in Configured!Given

(* What an init that met no other has done is still there.                  *)
AloneInv ==
    \A c \in Calls : Inits(c) /\ command[c].alone =>
        LET j == command[c].job
        IN  /\ \A d \in Calls \ {c} : ~Configured!Writing(d)
            /\ command[c].phase = "truncated" => file[Configured!Target(j)] = None
            /\ command[c].phase = "written" \/ command[c].answer.code = "ok" =>
                 file[Configured!Target(j)] = Configured!TextOf(Configured!Intended(j))
            /\ command[c].answer.code = "ok" => Configured!Intended(j).root \in stores

ConfigInv == CommandTypes /\ GoalInv /\ TextInv /\ LoadInv /\ AloneInv

LEMMA ConfigInitInvariant == Configured!Init => ConfigInv
<1> SUFFICES ASSUME Configured!Init PROVE ConfigInv
  OBVIOUS
<1>1. /\ file = [f \in Files |-> Missing]
      /\ command = [c \in Calls |-> Configured!Idle]
  BY DEF Configured!Init
<1>2. \A c \in Calls : /\ command[c] = Configured!Idle
                       /\ command[c].job = None /\ command[c].phase = "idle"
                       /\ command[c].answer.code # "ok"
  BY <1>1, SetupAssumption
  DEF Configured!Idle, Configured!Failed, Configured!ConfigurationAssumption
<1>3. CommandTypes
  BY <1>1, <1>2 DEF CommandTypes, IsCommand, Configured!Idle
<1>4. QED
  BY <1>1, <1>2, <1>3
  DEF ConfigInv, GoalInv, Acts, TextInv, LoadInv, AloneInv, Inits

LEMMA ConfigImplies == ASSUME ConfigInv, NamesAreRead PROVE CommandsLoadOneInit
<1> USE SetupAssumption DEF Configured!ConfigurationAssumption
<1>1. SUFFICES ASSUME NEW c \in Calls, command[c].answer.code = "ok"
      PROVE LET j == command[c].job
                Loading == [op |-> "load", config |-> j.config, root |-> None, requester |-> None,
                            env |-> [j.env EXCEPT !.root = None, !.requester = None]]
            IN  /\ j.op = "load" /\ Bare(j) => command[c].answer.pair \in Configured!Given
                /\ j.op = "init" /\ command[c].alone =>
                      /\ Configured!Load(Loading, file) = command[c].answer
                      /\ command[c].answer.pair.root \in stores
  BY DEF CommandsLoadOneInit, Configured!CommandsLoadOneInit, Bare
<1> DEFINE j == command[c].job
           Loading == [op |-> "load", config |-> j.config, root |-> None, requester |-> None,
                       env |-> [j.env EXCEPT !.root = None, !.requester = None]]
           goal == Configured!Intended(j)
           path == Configured!Target(j)
<1>2. j # None /\ j \in Orders
  BY <1>1 DEF ConfigInv, CommandTypes, IsCommand
<1>3. ASSUME j.op = "load", Bare(j) PROVE command[c].answer.pair \in Configured!Given
  BY <1>1, <1>2, <1>3 DEF ConfigInv, LoadInv
<1>4. ASSUME j.op = "init", command[c].alone
      PROVE  /\ Configured!Load(Loading, file) = command[c].answer
             /\ command[c].answer.pair.root \in stores
  <2>1. Inits(c) /\ Acts(c)
    BY <1>1, <1>2, <1>4 DEF Inits, Acts
  <2>2. /\ path \in Files /\ goal \in Configured!Pair
        /\ command[c].answer = Configured!Ok(goal)
    BY <1>1, <2>1 DEF ConfigInv, GoalInv
  <2>3. file[path] = Configured!TextOf(goal) /\ goal.root \in stores
    BY <1>1, <1>4, <2>1 DEF ConfigInv, AloneInv
  <2>4. j.env \in Configured!Environment /\ j.env \in Environments
    BY <1>2 DEF Configured!Job
  <2>5. Loading.env.config = j.env.config /\ Loading.config = j.config /\ Bare(Loading)
    BY <2>4 DEF Bare, Configured!Environment
  <2>6. Configured!Selected(Loading.config, Loading.env) = path
    BY <2>4, <2>5 DEF NamesAreRead, Configured!Selected, Configured!Variable, Configured!Target
  <2>7. /\ file[path] \in Configured!Text /\ file[path].tail = None /\ file[path].pair = goal
        /\ path # None
    BY <2>2, <2>3 DEF Configured!TextOf, Configured!Text
  <2> HIDE DEF Loading, path, goal
  <2>8. Configured!Load(Loading, file) = Configured!Ok(goal)
    BY <2>5, <2>6, <2>7, ReadBack
  <2>9. QED BY <2>2, <2>3, <2>8 DEF Configured!Ok
<1>5. QED BY <1>3, <1>4

(* Call c goes on, and nothing else about it or another changes.            *)
Moved(c, phase, answer) ==
    /\ command' = [d \in Calls |-> command'[d]]
    /\ command'[c] = [phase |-> phase, job |-> command[c].job, answer |-> answer,
                      alone |-> command[c].alone]
    /\ \A d \in Calls \ {c} : command'[d] = command[d]

LEMMA EnterMoves ==
    ASSUME CommandTypes, NEW c \in Calls, NEW phase, Configured!Enter(c, phase)
    PROVE  Moved(c, phase, command[c].answer)
<1>1. command[c] = [phase |-> command[c].phase, job |-> command[c].job,
                    answer |-> command[c].answer, alone |-> command[c].alone]
  BY DEF CommandTypes, IsCommand
<1>2. command' = [command EXCEPT ![c].phase = phase]
  BY DEF Configured!Enter
<1>3. command'[c] = [command[c] EXCEPT !.phase = phase]
  BY <1>2 DEF CommandTypes
<1>4. QED BY <1>1, <1>2, <1>3 DEF CommandTypes, Moved

LEMMA ReplyMoves ==
    ASSUME CommandTypes, NEW c \in Calls, NEW answer, Configured!Reply(c, answer)
    PROVE  Moved(c, "replying", answer)
<1>1. command[c] = [phase |-> command[c].phase, job |-> command[c].job,
                    answer |-> command[c].answer, alone |-> command[c].alone]
  BY DEF CommandTypes, IsCommand
<1>2. command' = [command EXCEPT ![c].phase = "replying", ![c].answer = answer]
  BY DEF Configured!Reply
<1>3. command'[c] = [command[c] EXCEPT !.phase = "replying", !.answer = answer]
  BY <1>1, <1>2 DEF CommandTypes
<1>4. QED BY <1>1, <1>2, <1>3 DEF CommandTypes, Moved

LEMMA GivenKept ==
    ASSUME \A c \in Calls : command[c].job # None => command'[c].job = command[c].job
    PROVE  /\ Configured!Given \subseteq Configured!Given'
           /\ (\A c \in Calls : command'[c].job = command[c].job)
                => Configured!Given' = Configured!Given
BY DEF Configured!Given

LEMMA MoveInvariant ==
    ASSUME ConfigInv, NEW c \in Calls, NEW phase, NEW answer, Moved(c, phase, answer),
           command[c].phase # "idle", phase # "idle",
           file' \in [Files -> {None, Missing} \cup Configured!Text], stores \subseteq stores',
           file' = file \/ Configured!Writing(c),
           \A f \in Files : file'[f] \notin {None, Missing} =>
             file'[f] = file[f] \/ file'[f].pair \in Configured!Given,
           phase \in {"begun", "truncated", "written"} =>
             answer.code # "ok" /\ Configured!Writing(c),
           Inits(c) /\ (phase \in {"truncated", "written"} \/ answer.code = "ok") =>
             /\ Configured!Target(command[c].job) \in Files
             /\ Configured!Intended(command[c].job) \in Configured!Pair
             /\ answer.code = "ok" =>
                  answer = Configured!Ok(Configured!Intended(command[c].job)),
           command[c].job.op = "load" /\ Bare(command[c].job) /\ answer.code = "ok" =>
             answer.pair \in Configured!Given,
           Inits(c) /\ command[c].alone =>
             /\ phase = "truncated" => file'[Configured!Target(command[c].job)] = None
             /\ phase = "written" \/ answer.code = "ok" =>
                  file'[Configured!Target(command[c].job)]
                    = Configured!TextOf(Configured!Intended(command[c].job))
             /\ answer.code = "ok" => Configured!Intended(command[c].job).root \in stores'
    PROVE  ConfigInv'
<1>0. CommandTypes /\ GoalInv /\ TextInv /\ LoadInv /\ AloneInv
  BY DEF ConfigInv
<1>1. /\ command'[c].phase = phase /\ command'[c].job = command[c].job
      /\ command'[c].answer = answer /\ command'[c].alone = command[c].alone
      /\ command[c].job # None /\ command[c].job \in Orders
  BY <1>0 DEF Moved, CommandTypes, IsCommand
<1>2. /\ \A d \in Calls : command'[d].job = command[d].job /\ command'[d].alone = command[d].alone
      /\ \A d \in Calls : Inits(d)' = Inits(d)
      /\ Configured!Given' = Configured!Given
  <2>1. \A d \in Calls : command'[d].job = command[d].job /\ command'[d].alone = command[d].alone
    BY <1>1 DEF Moved
  <2>2. QED BY <2>1, GivenKept DEF Inits
<1>3. CommandTypes'
  BY <1>0, <1>1 DEF CommandTypes, IsCommand, Moved
<1>4. GoalInv'
  <2>1. SUFFICES ASSUME NEW d \in Calls
        PROVE  /\ command'[d].phase \in {"begun", "truncated", "written"} =>
                    command'[d].answer.code # "ok"
               /\ command'[d].phase \in {"truncated", "written"} => Inits(d)
               /\ Inits(d) /\ (\/ command'[d].phase \in {"truncated", "written"}
                               \/ command'[d].answer.code = "ok") =>
                    /\ Configured!Target(command[d].job) \in Files
                    /\ Configured!Intended(command[d].job) \in Configured!Pair
                    /\ command'[d].answer.code = "ok" =>
                         command'[d].answer = Configured!Ok(Configured!Intended(command[d].job))
    BY <1>2 DEF GoalInv, Acts
  <2>2. CASE d = c
    BY <1>1, <2>2 DEF Configured!Writing, Inits
  <2>3. CASE d # c
    BY <1>0, <2>3 DEF Moved, GoalInv, Acts
  <2>4. QED BY <2>2, <2>3
<1>5. TextInv'
  BY <1>0, <1>2 DEF TextInv
<1>6. LoadInv'
  BY <1>0, <1>1, <1>2 DEF LoadInv, Moved
<1>7. \A d \in Calls : Configured!Writing(d)' => Configured!Writing(d)
  BY <1>1, <1>2 DEF Moved, Configured!Writing
<1>8. AloneInv'
  <2>1. SUFFICES ASSUME NEW d \in Calls, Inits(d), command[d].alone
        PROVE  /\ \A e \in Calls \ {d} : ~Configured!Writing(e)'
               /\ command'[d].phase = "truncated" =>
                    file'[Configured!Target(command[d].job)] = None
               /\ command'[d].phase = "written" \/ command'[d].answer.code = "ok" =>
                    file'[Configured!Target(command[d].job)]
                      = Configured!TextOf(Configured!Intended(command[d].job))
               /\ command'[d].answer.code = "ok" =>
                    Configured!Intended(command[d].job).root \in stores'
    BY <1>2 DEF AloneInv
  <2>2. \A e \in Calls \ {d} : ~Configured!Writing(e)'
    BY <1>0, <1>7, <2>1 DEF AloneInv
  <2>3. CASE d = c
    BY <1>1, <2>1, <2>2, <2>3
  <2>4. CASE d # c
    <3>1. file' = file
      BY <1>0, <2>1, <2>4 DEF AloneInv
    <3>2. command'[d] = command[d]
      BY <2>4 DEF Moved
    <3>3. QED BY <1>0, <2>1, <2>2, <3>1, <3>2 DEF AloneInv
  <2>5. QED BY <2>3, <2>4
<1>9. QED BY <1>3, <1>4, <1>5, <1>6, <1>8 DEF ConfigInv

LEMMA BeginKeepsConfig ==
    ASSUME ConfigInv, NEW c \in Calls, NEW j \in Orders, Configured!Begin(c, j)
    PROVE  ConfigInv'
<1> USE SetupAssumption DEF Configured!ConfigurationAssumption
<1>0. CommandTypes /\ GoalInv /\ TextInv /\ LoadInv /\ AloneInv
  BY DEF ConfigInv
<1> DEFINE free == \A e \in Calls : ~Configured!Writing(e)
<1>1. /\ command'[c] = [phase |-> "begun", job |-> j, answer |-> Configured!Failed(None),
                        alone |-> free]
      /\ UNCHANGED <<file, stores>> /\ command[c].phase = "idle" /\ command[c].job = None
      /\ command' = [d \in Calls |-> command'[d]]
  BY <1>0 DEF Configured!Begin, CommandTypes, IsCommand
<1>2. \A d \in Calls \ {c} :
        /\ command'[d] = IF j.op = "init" THEN [command[d] EXCEPT !.alone = FALSE] ELSE command[d]
        /\ command'[d].phase = command[d].phase /\ command'[d].job = command[d].job
        /\ command'[d].answer = command[d].answer
        /\ command'[d].alone = IF j.op = "init" THEN FALSE ELSE command[d].alone
        /\ IsCommand(command'[d])
  <2>1. TAKE d \in Calls \ {c}
  <2>2. command'[d] = IF j.op = "init" THEN [command[d] EXCEPT !.alone = FALSE] ELSE command[d]
    BY DEF Configured!Begin
  <2>3. IsCommand(command[d])
    BY <1>0 DEF CommandTypes
  <2>4. QED BY <2>2, <2>3 DEF IsCommand
<1> HIDE DEF free
<1>3. /\ command'[c].phase = "begun" /\ command'[c].job = j /\ j # None
      /\ command'[c].answer.code # "ok" /\ command'[c].alone = free
  BY <1>1 DEF Configured!Failed
<1>4. CommandTypes'
  <2>1. IsCommand(command'[c])
    BY <1>1, <1>3 DEF IsCommand
  <2>2. QED BY <1>0, <1>1, <1>2, <2>1 DEF CommandTypes
<1>5. Configured!Given \subseteq Configured!Given'
  BY <1>1, <1>2, GivenKept
<1>a. ASSUME NEW d \in Calls \ {c}
      PROVE  Inits(d)' = Inits(d) /\ Acts(d)' = Acts(d)
  BY <1>2 DEF Inits, Acts
<1>b. ~Acts(c)'
  BY <1>3 DEF Acts
<1>6. GoalInv'
  <2>1. SUFFICES ASSUME NEW d \in Calls
        PROVE  /\ command'[d].phase \in {"begun", "truncated", "written"} =>
                    command'[d].answer.code # "ok"
               /\ command'[d].phase \in {"truncated", "written"} => Inits(d)'
               /\ Inits(d)' /\ Acts(d)' =>
                    /\ Configured!Target(command'[d].job) \in Files
                    /\ Configured!Intended(command'[d].job) \in Configured!Pair
                    /\ command'[d].answer.code = "ok" =>
                         command'[d].answer = Configured!Ok(Configured!Intended(command'[d].job))
    BY DEF GoalInv
  <2>2. CASE d = c
    BY <1>3, <1>b, <2>2
  <2>3. CASE d # c
    BY <1>0, <1>2, <1>a, <2>3 DEF GoalInv
  <2>4. QED BY <2>2, <2>3
<1>7. TextInv' /\ LoadInv'
  <2>1. TextInv'
    BY <1>0, <1>1, <1>5 DEF TextInv
  <2>2. ASSUME NEW d \in Calls, command'[d].job # None, command'[d].job.op = "load",
               Bare(command'[d].job), command'[d].answer.code = "ok"
        PROVE  command'[d].answer.pair \in Configured!Given'
    <3>1. d # c
      BY <1>3, <2>2
    <3>2. QED BY <1>0, <1>2, <1>5, <2>2, <3>1 DEF LoadInv
  <2>3. LoadInv'
    BY <2>2 DEF LoadInv, Bare
  <2>4. QED BY <2>1, <2>3
<1>8. AloneInv'
  <2>1. SUFFICES ASSUME NEW d \in Calls, Inits(d)', command'[d].alone
        PROVE  /\ \A e \in Calls \ {d} : ~Configured!Writing(e)'
               /\ command'[d].phase = "truncated" =>
                    file'[Configured!Target(command'[d].job)] = None
               /\ command'[d].phase = "written" \/ command'[d].answer.code = "ok" =>
                    file'[Configured!Target(command'[d].job)]
                      = Configured!TextOf(Configured!Intended(command'[d].job))
               /\ command'[d].answer.code = "ok" =>
                    Configured!Intended(command'[d].job).root \in stores'
    BY DEF AloneInv
  <2>2. CASE d = c
    <3>1. \A e \in Calls \ {c} : Configured!Writing(e)' <=> Configured!Writing(e)
      BY <1>2 DEF Configured!Writing
    <3>2. QED BY <1>3, <2>1, <2>2, <3>1 DEF free
  <2>3. CASE d # c
    <3>0. j.op # "init"
      <4>1. ASSUME j.op = "init" PROVE command'[d].alone = FALSE
        BY <1>2, <2>3, <4>1
      <4>2. QED BY <2>1, <4>1
    <3>1. command'[d] = command[d] /\ Inits(d) /\ command[d].alone
      BY <1>2, <2>1, <2>3, <3>0 DEF Inits
    <3>2. \A e \in Calls : Configured!Writing(e)' => Configured!Writing(e)
      BY <1>2, <1>3, <3>0 DEF Configured!Writing
    <3>3. QED BY <1>0, <1>1, <3>1, <3>2 DEF AloneInv
  <2>4. QED BY <2>2, <2>3
<1>9. QED BY <1>4, <1>6, <1>7, <1>8 DEF ConfigInv

LEMMA WritableGoal ==
    ASSUME ConfigInv, NEW c \in Calls, Configured!Writable(c)
    PROVE  /\ command[c].phase = "begun" /\ Inits(c) /\ Configured!Writing(c)
           /\ command[c].answer.code # "ok"
           /\ Configured!Target(command[c].job) \in Files
           /\ Configured!Intended(command[c].job) \in Configured!Pair
<1> USE SetupAssumption DEF Configured!ConfigurationAssumption
<1> DEFINE j == command[c].job
<1>1. /\ command[c].phase = "begun" /\ j.op = "init" /\ Places[j.root] # Missing
      /\ j.requester # None /\ Configured!Target(j) # None
  BY DEF Configured!Writable, Configured!Intends
<1>2. j # None /\ j \in Orders /\ command[c].answer.code # "ok"
  BY <1>1 DEF ConfigInv, CommandTypes, IsCommand, GoalInv
<1>3. j.root \in DOMAIN Places /\ j.requester \in Requesters
  BY <1>1, <1>2 DEF Configured!Job
<1>4. j.config \in Files \cup {None} /\ j.env \in Configured!Environment
  BY <1>2 DEF Configured!Job
<1>5. Configured!Target(j) \in Files
  BY <1>1, <1>4 DEF Configured!Target, Configured!FirstOf, Configured!Environment
<1>6. QED BY <1>1, <1>2, <1>3, <1>5 DEF Inits, Configured!Writing, Configured!Intended, Configured!Pair

LEMMA GivenHas ==
    ASSUME NEW c \in Calls, Inits(c), Configured!Intended(command[c].job) \in Configured!Pair
    PROVE  Configured!Intended(command[c].job) \in Configured!Given
<1> USE SetupAssumption DEF Configured!ConfigurationAssumption
<1>1. Places[command[c].job.root] # Missing
  BY DEF Configured!Intended, Configured!Pair
<1>2. QED BY <1>1 DEF Configured!Given, Inits

LEMMA WholeText ==
    ASSUME NEW pair \in Configured!Pair
    PROVE  Configured!TextOf(pair) \in Configured!Text /\ Configured!TextOf(pair).pair = pair
BY SetupAssumption DEF Configured!ConfigurationAssumption, Configured!TextOf, Configured!Text

LEMMA OverText ==
    ASSUME NEW pair \in Configured!Pair, NEW old \in {None, Missing} \cup Configured!Text
    PROVE  /\ Configured!Over(old, pair) \in Configured!Text
           /\ Configured!Over(old, pair).pair = pair
           /\ old = None => Configured!Over(old, pair) = Configured!TextOf(pair)
<1> USE SetupAssumption DEF Configured!ConfigurationAssumption
<1>1. CASE Configured!Over(old, pair) = Configured!TextOf(pair)
  BY <1>1, WholeText
<1>2. CASE Configured!Over(old, pair) # Configured!TextOf(pair)
  <2>1. /\ old \in Configured!Text /\ old # None
        /\ Configured!Over(old, pair) =
             [pair |-> pair, size |-> old.size,
              tail |-> IF old.size = Length[pair] + 1 THEN None
                       ELSE Configured!FirstOf(old.tail, old.pair.requester)]
    BY <1>2 DEF Configured!Over
  <2>2. old.size \in Nat /\ old.tail \in {None} \cup Requesters /\ old.pair.requester \in Requesters
    BY <2>1 DEF Configured!Text, Configured!Pair
  <2>3. QED BY <2>1, <2>2 DEF Configured!Text, Configured!FirstOf
<1>3. QED BY <1>1, <1>2

LEMMA ConfigStep == ASSUME ConfigInv, Configured!Next PROVE ConfigInv'
<1> USE SetupAssumption DEF Configured!ConfigurationAssumption
<1>0. CommandTypes /\ GoalInv /\ TextInv /\ LoadInv /\ AloneInv
  BY DEF ConfigInv
<1>t. file \in [Files -> {None, Missing} \cup Configured!Text]
  BY <1>0 DEF CommandTypes
<1>p. PICK c \in Calls :
        \/ \E j \in Orders : Configured!Begin(c, j)
        \/ Configured!InitRefused(c) \/ Configured!Keep(c) \/ Configured!Truncate(c)
        \/ Configured!Write(c) \/ Configured!MakeStore(c) \/ Configured!InitFails(c)
        \/ Configured!LoadConfig(c) \/ Configured!Report(c) \/ Configured!Die(c)
  BY DEF Configured!Next
<1> DEFINE j == command[c].job
           path == Configured!Target(j)
           goal == Configured!Intended(j)
<1>1. CASE \E k \in Orders : Configured!Begin(c, k)
  BY <1>1, BeginKeepsConfig
<1>2. CASE Configured!InitRefused(c)
  <2>1. /\ command[c].phase = "begun" /\ UNCHANGED <<file, stores>>
        /\ Configured!Reply(c, Configured!Failed("refused"))
    BY <1>2 DEF Configured!InitRefused, Configured!Intends
  <2>2. Moved(c, "replying", Configured!Failed("refused"))
    BY <1>0, <2>1, ReplyMoves
  <2>3. Configured!Failed("refused").code # "ok"
    BY DEF Configured!Failed
  <2>4. QED BY <1>t, <2>1, <2>2, <2>3, MoveInvariant
<1>3. CASE Configured!Keep(c)
  <2>1. /\ Configured!Writable(c) /\ file[path] = Configured!TextOf(goal)
        /\ UNCHANGED <<file, stores>>
    BY <1>3 DEF Configured!Keep
  <2>2. Moved(c, "written", command[c].answer)
    BY <1>0, <1>3, EnterMoves DEF Configured!Keep
  <2>3. /\ command[c].phase = "begun" /\ Inits(c) /\ Configured!Writing(c)
        /\ command[c].answer.code # "ok" /\ path \in Files /\ goal \in Configured!Pair
    BY <2>1, WritableGoal
  <2>4. QED BY <1>t, <2>1, <2>2, <2>3, MoveInvariant
<1>4. CASE Configured!Truncate(c)
  <2>1. /\ Configured!Writable(c) /\ file' = [file EXCEPT ![path] = None] /\ stores' = stores
    BY <1>4 DEF Configured!Truncate
  <2>2. Moved(c, "truncated", command[c].answer)
    BY <1>0, <1>4, EnterMoves DEF Configured!Truncate
  <2>3. /\ command[c].phase = "begun" /\ Inits(c) /\ Configured!Writing(c)
        /\ command[c].answer.code # "ok" /\ path \in Files /\ goal \in Configured!Pair
    BY <2>1, WritableGoal
  <2>4. /\ file' \in [Files -> {None, Missing} \cup Configured!Text] /\ file'[path] = None
        /\ \A f \in Files : file'[f] \notin {None, Missing} => file'[f] = file[f]
    BY <1>t, <2>1, <2>3
  <2>5. QED BY <2>1, <2>2, <2>3, <2>4, MoveInvariant
<1>5. CASE Configured!Write(c)
  <2>1. /\ command[c].phase = "truncated" /\ stores' = stores
        /\ file' = [file EXCEPT ![path] = Configured!Over(@, goal)]
    BY <1>5 DEF Configured!Write
  <2>2. Moved(c, "written", command[c].answer)
    BY <1>0, <1>5, EnterMoves DEF Configured!Write
  <2>3. /\ Inits(c) /\ Acts(c) /\ command[c].answer.code # "ok"
        /\ path \in Files /\ goal \in Configured!Pair
    BY <1>0, <2>1 DEF GoalInv, Acts
  <2>4. Configured!Writing(c)
    BY <2>1, <2>3 DEF Configured!Writing, Inits
  <2>5. goal \in Configured!Given
    BY <2>3, GivenHas
  <2>6. /\ Configured!Over(file[path], goal) \in Configured!Text
        /\ Configured!Over(file[path], goal).pair = goal
        /\ file[path] = None => Configured!Over(file[path], goal) = Configured!TextOf(goal)
    BY <1>t, <2>3, OverText
  <2> HIDE DEF path, goal
  <2>7. /\ file' \in [Files -> {None, Missing} \cup Configured!Text]
        /\ \A f \in Files : file'[f] = file[f] \/ file'[f].pair = goal
        /\ file[path] = None => file'[path] = Configured!TextOf(goal)
    BY <1>t, <2>1, <2>3, <2>6
  <2>8. command[c].alone => file[path] = None
    BY <1>0, <2>1, <2>3 DEF AloneInv, path
  <2>9. QED BY <2>1, <2>2, <2>3, <2>4, <2>5, <2>7, <2>8, MoveInvariant DEF path, goal
<1>6. CASE Configured!MakeStore(c)
  <2>1. /\ command[c].phase = "written" /\ file' = file
        /\ stores' = stores \cup {goal.root}
        /\ Configured!Reply(c, Configured!Ok(goal))
    BY <1>6 DEF Configured!MakeStore, Configured!Intended
  <2>2. Moved(c, "replying", Configured!Ok(goal))
    BY <1>0, <2>1, ReplyMoves
  <2>3. Inits(c) /\ Acts(c) /\ path \in Files /\ goal \in Configured!Pair
    BY <1>0, <2>1 DEF GoalInv, Acts
  <2>4. command[c].alone => file[path] = Configured!TextOf(goal)
    BY <1>0, <2>1, <2>3 DEF AloneInv
  <2>5. j.op # "load"
    BY <2>3 DEF Inits
  <2> HIDE DEF path, goal
  <2>6. QED BY <1>t, <2>1, <2>2, <2>3, <2>4, <2>5, MoveInvariant DEF path, goal
<1>7. CASE Configured!LoadConfig(c)
  <2> DEFINE config == Configured!Load(j, file)
             answer == IF config.code = "ok" /\ config.pair.root \notin stores
                       THEN Configured!Failed("no_store") ELSE config
  <2>1. /\ command[c].phase = "begun" /\ j.op = "load" /\ UNCHANGED <<file, stores>>
        /\ Configured!Reply(c, answer)
    BY <1>7 DEF Configured!LoadConfig
  <2> HIDE DEF config
  <2>2. answer.code = "ok" => answer = config /\ config.code = "ok"
    BY DEF Configured!Failed
  <2> HIDE DEF answer
  <2>3. Moved(c, "replying", answer)
    BY <1>0, <2>1, ReplyMoves
  <2>4. ASSUME Bare(j), answer.code = "ok" PROVE answer.pair \in Configured!Given
    <3> DEFINE from == Configured!Selected(j.config, j.env)
    <3>1. /\ from # None /\ file[from] \notin {None, Missing} /\ file[from].tail = None
      BY <2>2, <2>4, LoadedText DEF config
    <3>2. j \in Orders
      BY <1>0, <2>1 DEF CommandTypes, IsCommand
    <3>3. from \in Files
      <4>1. j.config \in Files \cup {None} /\ j.env \in Configured!Environment
        BY <3>2 DEF Configured!Job
      <4>2. QED
        BY <3>1, <4>1
        DEF Configured!Selected, Configured!Variable, Configured!FirstOf, Configured!Environment
    <3>4. file[from] \in Configured!Text
      BY <1>t, <3>1, <3>3
    <3>5. config = Configured!Ok(file[from].pair)
      BY <2>4, <3>1, <3>4, ReadBack DEF config
    <3>6. QED BY <1>0, <2>2, <2>4, <3>1, <3>3, <3>5 DEF TextInv, Configured!Ok
  <2>5. ~Inits(c)
    BY <2>1 DEF Inits
  <2>6. QED BY <1>t, <2>1, <2>3, <2>4, <2>5, MoveInvariant
<1>8. CASE Configured!Report(c) \/ Configured!Die(c)
  <2> DEFINE phase == IF Configured!Report(c) THEN "answered" ELSE "dead"
             answer == command[c].answer
  <2>1. command[c].phase # "idle" /\ Configured!Enter(c, phase) /\ UNCHANGED <<file, stores>>
    BY <1>8 DEF Configured!Report, Configured!Die
  <2>2. phase \in {"answered", "dead"}
    OBVIOUS
  <2> HIDE DEF phase
  <2>3. Moved(c, phase, answer)
    BY <1>0, <2>1, EnterMoves
  <2>4. Inits(c) /\ answer.code = "ok" =>
          /\ path \in Files /\ goal \in Configured!Pair /\ answer = Configured!Ok(goal)
          /\ command[c].alone =>
               file[path] = Configured!TextOf(goal) /\ goal.root \in stores
    BY <1>0 DEF GoalInv, Acts, AloneInv
  <2>5. j.op = "load" /\ Bare(j) /\ answer.code = "ok" => answer.pair \in Configured!Given
    BY <1>0 DEF LoadInv, CommandTypes, IsCommand
  <2>6. QED BY <1>t, <2>1, <2>2, <2>3, <2>4, <2>5, MoveInvariant
<1>9. CASE Configured!InitFails(c)
  <2>1. /\ command[c].phase \in {"begun", "truncated", "written"} /\ UNCHANGED <<file, stores>>
        /\ Configured!Reply(c, Configured!Failed("io"))
    BY <1>9 DEF Configured!InitFails, Configured!Writable, Configured!Intends
  <2>2. Moved(c, "replying", Configured!Failed("io"))
    BY <1>0, <2>1, ReplyMoves
  <2>3. Configured!Failed("io").code # "ok"
    BY DEF Configured!Failed
  <2>4. QED BY <1>t, <2>1, <2>2, <2>3, MoveInvariant
<1>10. QED BY <1>p, <1>1, <1>2, <1>3, <1>4, <1>5, <1>6, <1>7, <1>8, <1>9

(* A command that has nothing but a file to go by uses the root and the      *)
(* requester of one init, and an init that met no other has taken effect    *)
(* when it answers, however inits die and their writes fall, if a variable  *)
(* that names a configuration file can be read (config.rs, cli.rs).         *)
THEOREM LoadsAreOneInits ==
    ASSUME NamesAreRead
    PROVE  SetupSpec => []CommandsLoadOneInit
<1>1. ConfigInv /\ UNCHANGED Configured!vars => ConfigInv'
  BY DEF Configured!vars, ConfigInv, CommandTypes, IsCommand, GoalInv, TextInv, LoadInv, AloneInv,
         Inits, Acts, Configured!Writing, Configured!Given, Bare
<1>2. SetupSpec => []ConfigInv
  BY <1>1, ConfigInitInvariant, ConfigStep, PartsMove, PTL
<1>3. QED BY <1>2, ConfigImplies, PTL

-----------------------------------------------------------------------------
(* The registry of projects.  Paths and remotes are only ever added.        *)

PathMap == [Dirs -> Projects \cup {None}]
RemoteMap == [Identities -> Projects \cup {None}]

IsRegistry(g) ==
    /\ g = [paths |-> g.paths, remotes |-> g.remotes, projects |-> g.projects]
    /\ g.paths \in PathMap /\ g.remotes \in RemoteMap

Grew(m, n) == \A x \in DOMAIN m : m[x] # None => n[x] = m[x]

Mistakes == {"ok", "conflict", "invalid", "corrupt"}

Inference ==
    [phase : {"idle", "begun", "halfread", "read", "resolved", "replying", "answered", "dead"},
     job : Jobs \cup {None}, paths : PathMap, remotes : RemoteMap,
     project : Projects \cup {None}, answer : Projects \cup {None, Unresolved} \cup Mistakes,
     before : PathMap, beforeRemotes : RemoteMap, seen : SUBSET (Projects \cup {Unresolved})]

Found(paths, d) == {a \in Above[d] : paths[a] # None}

(* The longest registered ancestor exists wherever there is one.            *)
LEMMA NearestPath ==
    ASSUME NEW paths \in PathMap, NEW d \in Dirs, Found(paths, d) # {}
    PROVE  \E b \in Found(paths, d) :
             /\ ByPath(paths, d) = paths[b]
             /\ \A a \in Found(paths, d) : Components[a] <= Components[b]
<1> USE SetupAssumption DEF ResolutionAssumption
<1> DEFINE found == Found(paths, d)
<1>1. found \subseteq Dirs /\ IsFiniteSet(Dirs) /\ Cardinality(Dirs) \in Nat
  BY FS_CardinalityType DEF Found, Above
<1>2. \A a \in Dirs : /\ Components[a] \in Nat /\ Components[a] <= Cardinality(Dirs)
  <2>1. TAKE a \in Dirs
  <2>2. Above[a] \in SUBSET Dirs /\ Components[a] = Cardinality(Above[a])
    BY DEF Above, Components
  <2>3. IsFiniteSet(Above[a]) /\ Cardinality(Above[a]) <= Cardinality(Dirs)
    BY <1>1, <2>2, FS_Subset
  <2>4. QED BY <2>2, <2>3, FS_CardinalityType
<1> HIDE DEF found
<1> DEFINE short(a) == Cardinality(Dirs) - Components[a]
           S == {short(a) : a \in found}
<1>3. S \in SUBSET Nat /\ S # {}
  BY <1>1, <1>2 DEF found
<1>4. PICK n \in S : \A m \in S : n <= m
  BY <1>3, LeastNumber
<1>5. PICK c \in found : n = short(c)
  BY <1>4
<1>6. \A a \in found : Components[a] <= Components[c]
  <2>1. TAKE a \in found
  <2>2. short(a) \in S /\ n <= short(a)
    BY <1>4
  <2>3. Components[a] \in Nat /\ Components[c] \in Nat
    BY <1>1, <1>2
  <2>4. QED BY <1>1, <1>5, <2>2, <2>3
<1> DEFINE b == CHOOSE a \in found : \A e \in found : Components[e] <= Components[a]
<1>7. b \in found /\ \A e \in found : Components[e] <= Components[b]
  BY <1>5, <1>6
<1>8. ByPath(paths, d) = paths[b]
  BY <1>5 DEF ByPath, found, Found
<1> HIDE DEF b
<1>9. QED BY <1>7, <1>8 DEF found

LEMMA NoPath ==
    ASSUME NEW paths \in PathMap, NEW d \in Dirs
    PROVE  /\ ByPath(paths, d) \in Projects \cup {None}
           /\ ByPath(paths, d) = None <=> Found(paths, d) = {}
<1>1. CASE Found(paths, d) = {}
  BY <1>1 DEF ByPath, Found
<1>2. CASE Found(paths, d) # {}
  <2>1. PICK b \in Found(paths, d) : ByPath(paths, d) = paths[b]
    BY <1>2, NearestPath
  <2>2. b \in Dirs /\ paths[b] # None
    BY DEF Found, Above
  <2>3. QED BY <1>2, <2>1, <2>2 DEF PathMap
<1>3. QED BY <1>1, <1>2

LEMMA OneOfThem ==
    ASSUME NEW found \in SUBSET Projects
    PROVE  TheOne(found) \in Projects \cup {None, Unresolved}
BY DEF TheOne

(* What a command infers is a project, or that there is none.               *)
LEMMA Resolved ==
    ASSUME NEW explicit \in Projects \cup {None}, NEW d \in Dirs,
           NEW paths \in PathMap, NEW remotes \in RemoteMap
    PROVE  Resolve(explicit, d, paths, remotes) \in Projects \cup {Unresolved}
<1> USE SetupAssumption DEF ResolutionAssumption
<1>1. ByPath(paths, d) \in Projects \cup {None}
  BY NoPath
<1>2. \A e \in Dirs : ByName(e) \in Projects \cup {Unresolved}
  BY DEF ByName
<1>3. Repo[d] # None => Repo[d] \in Dirs
  OBVIOUS
<1>4. ASSUME Repo[d] # None
      PROVE  ByGit(paths, remotes, Repo[d]) \in Projects \cup {None, Unresolved}
  <2> DEFINE root == Repo[d]
             hosted == {remotes[Identity(r.target)] :
                          r \in {q \in Remotes[root] : Identity(q.target) \in DOMAIN remotes}}
                       \ {None}
             dirs == {LocalDir(r.target) : r \in {q \in Remotes[root] : q.name = "local"}} \ {None}
             local == {ByPath(paths, e) : e \in dirs} \ {None}
  <2>1. hosted \in SUBSET Projects
    BY DEF RemoteMap
  <2>2. ByRemote(remotes, root) \in Projects \cup {None, Unresolved}
    BY <2>1, OneOfThem DEF ByRemote
  <2>3. \A r \in Remotes[root] : r.target \in Target
    BY <1>4
  <2>4. dirs \subseteq Dirs \cup {Missing}
    BY <2>3 DEF LocalDir, Target
  <2>5. Missing \notin dirs => local \in SUBSET Projects
    <3>1. ASSUME Missing \notin dirs, NEW e \in dirs PROVE ByPath(paths, e) \in Projects \cup {None}
      BY <2>4, <3>1, NoPath
    <3>2. QED BY <3>1
  <2>6. ByLocalRemote(paths, root) = IF Missing \in dirs THEN Unresolved ELSE TheOne(local)
    BY DEF ByLocalRemote
  <2> HIDE DEF dirs, local
  <2>7. ByLocalRemote(paths, root) \in Projects \cup {None, Unresolved}
    BY <2>5, <2>6, OneOfThem
  <2>8. QED BY <2>2, <2>7 DEF ByGit
<1>5. QED BY <1>1, <1>2, <1>3, <1>4 DEF Resolve

(* A checkout whose remotes belong to one project is that project's, and    *)
(* one whose remotes belong to several is nobody's.                         *)
LEMMA RemotesDecide ==
    ASSUME NEW d \in Dirs, NEW paths \in PathMap, NEW remotes \in RemoteMap,
           ByPath(paths, d) = None, Repo[d] # None,
           Resolve(None, d, paths, remotes) \in Projects,
           NEW r \in Remotes[Repo[d]], Identity(r.target) \in Identities,
           remotes[Identity(r.target)] # None
    PROVE  Resolve(None, d, paths, remotes) = remotes[Identity(r.target)]
<1> USE SetupAssumption DEF ResolutionAssumption
<1> DEFINE root == Repo[d]
           mine == {q \in Remotes[root] : Identity(q.target) \in DOMAIN remotes}
           f == [q \in mine |-> remotes[Identity(q.target)]]
           all == {remotes[Identity(q.target)] : q \in mine}
           found == all \ {None}
<1>1. r \in mine /\ remotes[Identity(r.target)] \in found
  BY DEF RemoteMap
<1>2. IsFiniteSet(mine)
  BY FS_Subset
<1>3. f \in Surjection(mine, all)
  <2>1. f \in [mine -> all] /\ \A y \in all : \E x \in mine : f[x] = y
    OBVIOUS
  <2>2. QED BY <2>1 DEF Surjection
<1> HIDE DEF all, mine, f
<1>4. IsFiniteSet(all)
  BY <1>2, <1>3, FS_Surjection
<1>5. IsFiniteSet(found) /\ Cardinality(found) \in Nat
  BY <1>4, FS_Subset, FS_CardinalityType
<1>6. ByRemote(remotes, root) = TheOne(found)
  BY DEF ByRemote, all, mine
<1> HIDE DEF found
<1>7. Resolve(None, d, paths, remotes) =
        IF ByGit(paths, remotes, root) # None THEN ByGit(paths, remotes, root) ELSE ByName(root)
  BY DEF Resolve
<1>8. CASE Cardinality(found) > 1
  <2>1. ByRemote(remotes, root) = Unresolved
    BY <1>1, <1>6, <1>8 DEF TheOne
  <2>2. QED BY <1>7, <2>1 DEF ByGit
<1>9. CASE ~(Cardinality(found) > 1)
  <2>1. Cardinality(found) # 0
    BY <1>1, <1>5, FS_EmptySet
  <2>2. Cardinality(found) = 1
    BY <1>5, <1>9, <2>1
  <2>3. PICK x : found = {x}
    BY <1>5, <2>2, FS_Singleton
  <2>4. ByRemote(remotes, root) = remotes[Identity(r.target)]
    BY <1>1, <1>6, <1>9, <2>3 DEF TheOne
  <2>5. QED BY <1>7, <2>4 DEF ByGit
<1>10. QED BY <1>8, <1>9

Inferring == {"capture", "list", "session"}

Registered(j, g) ==
    \/ /\ j.op = "path" /\ Canonical[j.place] \in Dirs
       /\ g.paths[Canonical[j.place]] = j.project
    \/ /\ j.op = "remote" /\ Identity(j.target) \in Identities
       /\ g.remotes[Identity(j.target)] = j.project

Inferred(r) == Resolve(r.job.project, r.job.dir, r.paths, r.remotes)

(* A command that was begun saw an earlier registry, reads a later one, and *)
(* answers by what it read.                                                 *)
CallInv(r, g) ==
    /\ r \in Inference
    /\ r.job = None <=> r.phase = "idle"
    /\ r.phase \in {"idle", "begun", "halfread", "read", "resolved"} => r.answer = None
    /\ Grew(r.before, g.paths) /\ Grew(r.paths, g.paths)
    /\ Grew(r.beforeRemotes, g.remotes) /\ Grew(r.remotes, g.remotes)
    /\ r.phase \in {"halfread", "read", "resolved"} =>
         r.job.op \in Inferring /\ Grew(r.before, r.paths)
    /\ r.phase \in {"read", "resolved"} => Grew(r.beforeRemotes, r.remotes)
    /\ r.phase = "halfread" => r.job.op # "session"
    /\ r.job # None => Told(r.job, g) \subseteq r.seen
    /\ r.phase = "read" /\ r.job.op = "session" => Inferred(r) \in r.seen
    /\ r.phase = "resolved" =>
         r.job.op = "capture" /\ r.project \in Projects /\ r.project = Inferred(r)
    /\ r.answer = "ok" => r.job # None /\ Registered(r.job, g)
    /\ r.job # None /\ r.job.op = "session" /\ r.answer \in Projects \cup {Unresolved} =>
         r.answer \in r.seen
    /\ r.job # None /\ r.job.op = "capture" /\ r.answer \in Projects =>
         r.answer = Inferred(r) /\ Grew(r.before, r.paths) /\ Grew(r.beforeRemotes, r.remotes)

RegistryInv ==
    /\ IsRegistry(registry)
    /\ filed \subseteq [key : Keys, project : Projects]
    /\ call = [c \in Calls |-> call[c]]
    /\ \A c \in Calls : CallInv(call[c], registry)

LEMMA RegistrantAccepted == RegistryInv => OneRegistrantIsAccepted
BY SetupAssumption DEF ResolutionAssumption, RegistryInv, CallInv, OneRegistrantIsAccepted, Registered

LEMMA OneMoment == RegistryInv => SessionsInferOneMoment
BY DEF RegistryInv, CallInv, SessionsInferOneMoment

LEMMA FoundGrows ==
    ASSUME NEW m \in PathMap, NEW n \in PathMap, Grew(m, n), NEW d \in Dirs
    PROVE  Found(m, d) \subseteq Found(n, d)
BY DEF Found, Above, Grew, PathMap

LEMMA RegistrationsHeeded == RegistryInv => CapturesHeedRegistrations
<1> USE SetupAssumption DEF ResolutionAssumption
<1>1. SUFFICES ASSUME RegistryInv, NEW c \in Calls, Captured(c), call[c].job.project = None
      PROVE LET j == call[c].job
                paths == {a \in Above[j.dir] : call[c].before[a] # None}
                nearer(a) == {b \in Above[j.dir] : Components[b] >= Components[a]}
                remotes == {call[c].beforeRemotes[Identity(r.target)] :
                              r \in {q \in Remotes[Repo[j.dir]] : Identity(q.target) # None}}
                           \ {None}
            IN  /\ \A a \in paths : \E b \in nearer(a) : registry.paths[b] = call[c].answer
                /\ ByPath(registry.paths, j.dir) = None /\ Repo[j.dir] # None =>
                      remotes \subseteq {call[c].answer}
  BY DEF CapturesHeedRegistrations
<1> DEFINE r == call[c]
           d == call[c].job.dir
<1>2. /\ r.job # None /\ r.job.op = "capture" /\ r.answer \in Projects
      /\ r \in Inference /\ IsRegistry(registry)
      /\ r.answer = Inferred(r) /\ Grew(r.before, r.paths) /\ Grew(r.beforeRemotes, r.remotes)
      /\ Grew(r.paths, registry.paths) /\ Grew(r.remotes, registry.remotes)
  BY <1>1 DEF RegistryInv, CallInv, Captured
<1>3. /\ r.before \in PathMap /\ r.paths \in PathMap /\ registry.paths \in PathMap
      /\ r.beforeRemotes \in RemoteMap /\ r.remotes \in RemoteMap
      /\ d \in Dirs /\ r.job \in Jobs
  <2>1. r.job \in Jobs
    BY <1>2 DEF Inference
  <2>2. d \in Dirs
    BY <1>2, <2>1 DEF Job
  <2>3. QED BY <1>2, <2>1, <2>2 DEF Inference, IsRegistry
<1>4. r.answer = Resolve(None, d, r.paths, r.remotes)
  BY <1>1, <1>2 DEF Inferred
<1>5. /\ Found(r.before, d) \subseteq Found(r.paths, d)
      /\ Found(r.paths, d) \subseteq Found(registry.paths, d)
  BY <1>2, <1>3, FoundGrows
<1>6. ASSUME NEW a \in Above[d], r.before[a] # None
      PROVE  \E b \in Above[d] : Components[b] >= Components[a] /\ registry.paths[b] = r.answer
  <2>1. a \in Found(r.paths, d)
    BY <1>5, <1>6 DEF Found
  <2>2. PICK b \in Found(r.paths, d) :
           ByPath(r.paths, d) = r.paths[b] /\ Components[a] <= Components[b]
    BY <1>3, <2>1, NearestPath
  <2>3. b \in Above[d] /\ b \in Dirs /\ r.paths[b] # None
    BY <1>3, <2>2 DEF Found, Above
  <2>4. r.answer = r.paths[b]
    BY <1>4, <2>2, <2>3 DEF Resolve
  <2>5. registry.paths[b] = r.paths[b]
    BY <1>2, <1>3, <2>3 DEF Grew, PathMap
  <2>6. Components[a] \in Nat /\ Components[b] \in Nat
    <3>1. \A e \in Dirs : Above[e] \in SUBSET Dirs /\ Components[e] = Cardinality(Above[e])
      BY DEF Above, Components
    <3>2. a \in Dirs
      BY <1>3, <1>6 DEF Above
    <3>3. QED BY <2>3, <3>1, <3>2, FS_Subset, FS_CardinalityType
  <2>7. QED BY <2>2, <2>3, <2>4, <2>5, <2>6
<1>7. ASSUME ByPath(registry.paths, d) = None, Repo[d] # None,
             NEW q \in Remotes[Repo[d]], Identity(q.target) # None,
             r.beforeRemotes[Identity(q.target)] # None
      PROVE  r.beforeRemotes[Identity(q.target)] = r.answer
  <2>1. ByPath(r.paths, d) = None
    BY <1>3, <1>5, <1>7, NoPath
  <2>2. Identity(q.target) \in Identities
    BY <1>3, <1>7 DEF Identities
  <2>3. r.remotes[Identity(q.target)] = r.beforeRemotes[Identity(q.target)]
    BY <1>2, <1>3, <1>7, <2>2 DEF Grew, RemoteMap
  <2>4. QED BY <1>2, <1>3, <1>4, <1>7, <2>1, <2>2, <2>3, RemotesDecide
<1>8. QED BY <1>6, <1>7

LEMMA RegistryInitInvariant == Init => RegistryInv
<1> SUFFICES ASSUME Init PROVE RegistryInv
  OBVIOUS
<1> USE SetupAssumption DEF ResolutionAssumption
<1>1. /\ NoPaths \in PathMap /\ NoRemotes \in RemoteMap
      /\ \A n : Grew(NoPaths, n) /\ Grew(NoRemotes, n)
  BY DEF NoPaths, NoRemotes, PathMap, RemoteMap, Grew
<1>2. Idle \in Inference
  BY <1>1 DEF Idle, Inference
<1>3. CallInv(Idle, registry)
  <2>1. /\ Idle.job = None /\ Idle.phase = "idle" /\ Idle.answer = None /\ Idle.answer # "ok"
        /\ Idle.paths = NoPaths /\ Idle.before = NoPaths
        /\ Idle.remotes = NoRemotes /\ Idle.beforeRemotes = NoRemotes
    BY DEF Idle
  <2>2. QED BY <1>1, <1>2, <2>1 DEF CallInv
<1>4. IsRegistry(registry)
  BY <1>1 DEF Init, IsRegistry
<1>5. QED BY <1>3, <1>4 DEF Init, RegistryInv

(* What a call knows of the registry stays true while nothing is added.     *)
LEMMA SameMaps ==
    ASSUME NEW r, NEW g, NEW h, CallInv(r, g), h.paths = g.paths, h.remotes = g.remotes
    PROVE  CallInv(r, h)
BY DEF CallInv, Told, Registered

LEMMA Grows ==
    ASSUME NEW l, NEW m, NEW n, DOMAIN m = DOMAIN l, Grew(l, m), Grew(m, n)
    PROVE  Grew(l, n)
BY DEF Grew

(* ... and when something is, each call under way has seen it.              *)
LEMMA SeenLater ==
    ASSUME NEW r, NEW g, NEW h, CallInv(r, g), IsRegistry(g), IsRegistry(h),
           Grew(g.paths, h.paths), Grew(g.remotes, h.remotes)
    PROVE  CallInv(IF r.job = None THEN r ELSE [r EXCEPT !.seen = @ \cup Told(r.job, h)], h)
<1> USE SetupAssumption DEF ResolutionAssumption
<1> DEFINE s == IF r.job = None THEN r ELSE [r EXCEPT !.seen = @ \cup Told(r.job, h)]
<1>1. r \in Inference
  BY DEF CallInv
<1>2. r.job # None => Told(r.job, h) \subseteq Projects \cup {Unresolved}
  <2>1. SUFFICES ASSUME r.job # None, r.job.op \notin {"path", "remote"}
                 PROVE  Resolve(r.job.project, r.job.dir, h.paths, h.remotes)
                          \in Projects \cup {Unresolved}
    BY DEF Told
  <2>2. r.job \in Jobs
    BY <1>1, <2>1 DEF Inference
  <2>3. r.job.project \in Projects \cup {None} /\ r.job.dir \in Dirs
    BY <2>1, <2>2 DEF Job
  <2>4. QED BY <2>3, Resolved DEF IsRegistry
<1>3. /\ s \in Inference /\ s.job = r.job /\ s.phase = r.phase /\ s.answer = r.answer
      /\ s.paths = r.paths /\ s.remotes = r.remotes /\ s.project = r.project
      /\ s.before = r.before /\ s.beforeRemotes = r.beforeRemotes
      /\ r.seen \subseteq s.seen /\ (s.job # None => Told(s.job, h) \subseteq s.seen)
  BY <1>1, <1>2 DEF Inference
<1> HIDE DEF s
<1>4. /\ Grew(s.before, h.paths) /\ Grew(s.paths, h.paths)
      /\ Grew(s.beforeRemotes, h.remotes) /\ Grew(s.remotes, h.remotes)
  <2>1. /\ DOMAIN g.paths = Dirs /\ DOMAIN s.before = Dirs /\ DOMAIN s.paths = Dirs
        /\ DOMAIN g.remotes = Identities /\ DOMAIN s.beforeRemotes = Identities
        /\ DOMAIN s.remotes = Identities
    BY <1>3 DEF Inference, IsRegistry, PathMap, RemoteMap
  <2>2. /\ Grew(s.before, g.paths) /\ Grew(s.paths, g.paths)
        /\ Grew(s.beforeRemotes, g.remotes) /\ Grew(s.remotes, g.remotes)
    BY <1>3 DEF CallInv
  <2>3. QED BY <2>1, <2>2, Grows
<1>5. ASSUME s.answer = "ok" PROVE s.job # None /\ Registered(s.job, h)
  <2>1. r.job # None /\ r.job \in Jobs /\ Registered(r.job, g)
    BY <1>1, <1>3, <1>5 DEF CallInv, Inference
  <2>2. r.job.op \in {"path", "remote"} => r.job.project \in Projects
    BY <2>1 DEF Job
  <2>3. g.paths \in PathMap /\ g.remotes \in RemoteMap
    BY DEF IsRegistry
  <2>4. Registered(r.job, h)
    BY <2>1, <2>2, <2>3 DEF Registered, Grew, PathMap, RemoteMap
  <2>5. QED BY <1>3, <2>1, <2>4
<1>6. Inferred(s) = Inferred(r)
  BY <1>3 DEF Inferred
<1>7. CallInv(s, h)
  BY <1>3, <1>4, <1>5, <1>6 DEF CallInv
<1>8. QED BY <1>7 DEF s

LEMMA OneCallInvariant ==
    ASSUME RegistryInv, NEW c \in Calls, NEW r, call' = [call EXCEPT ![c] = r],
           registry' = registry, CallInv(r, registry),
           filed' \subseteq [key : Keys, project : Projects]
    PROVE  RegistryInv'
BY DEF RegistryInv

LEMMA RegistrationInvariant ==
    ASSUME RegistryInv, NEW c \in Calls, IsRegistry(registry'),
           Grew(registry.paths, registry'.paths), Grew(registry.remotes, registry'.remotes),
           call[c].job # None, call[c].job.op \in {"path", "remote"}, call[c].phase = "begun",
           Registered(call[c].job, registry'), Accept(c), filed' = filed
    PROVE  RegistryInv'
<1> DEFINE later(d) == IF call[d].job = None THEN call[d]
                       ELSE [call[d] EXCEPT !.seen = @ \cup Told(call[d].job, registry')]
           s == later(c)
           r == [s EXCEPT !.phase = "replying", !.answer = "ok"]
<1>1. \A d \in Calls : CallInv(later(d), registry')
  <2>1. TAKE d \in Calls
  <2>2. CallInv(call[d], registry) /\ IsRegistry(registry)
    BY DEF RegistryInv
  <2>3. QED BY <2>2, SeenLater
<1>2. call' = [[d \in Calls |-> later(d)] EXCEPT ![c] = r]
  BY DEF Accept, Seeing
<1>3. s.job = call[c].job /\ s \in Inference /\ CallInv(s, registry')
  <2>1. call[c] \in Inference
    BY DEF RegistryInv, CallInv
  <2>2. s.job = call[c].job
    BY <2>1 DEF Inference
  <2>3. QED BY <1>1, <2>2 DEF CallInv
<1> HIDE DEF s, later
<1>4. /\ r \in Inference /\ r.phase = "replying" /\ r.answer = "ok" /\ r.job = call[c].job
      /\ r.paths = s.paths /\ r.remotes = s.remotes /\ r.before = s.before
      /\ r.beforeRemotes = s.beforeRemotes /\ r.seen = s.seen
  BY <1>3 DEF Inference, Mistakes
<1> HIDE DEF r
<1>5. "ok" \notin Projects \cup {Unresolved}
  BY SetupAssumption DEF ResolutionAssumption
<1>6. CallInv(r, registry')
  BY <1>3, <1>4, <1>5 DEF CallInv
<1>7. \A d \in Calls : CallInv(call'[d], registry')
  BY <1>1, <1>2, <1>6
<1>8. call' = [d \in Calls |-> call'[d]]
  BY <1>2
<1>9. QED BY <1>7, <1>8 DEF RegistryInv

LEMMA ReplyInvariant ==
    ASSUME RegistryInv, NEW c \in Calls, NEW answer \in Projects \cup {Unresolved} \cup Mistakes,
           Reply(c, answer), call[c].job # None,
           filed' \subseteq [key : Keys, project : Projects],
           IsRegistry(registry'), registry'.paths = registry.paths,
           registry'.remotes = registry.remotes,
           answer = "ok" => Registered(call[c].job, registry),
           call[c].job.op = "session" /\ answer \in Projects \cup {Unresolved} =>
             answer \in call[c].seen,
           call[c].job.op = "capture" /\ answer \in Projects =>
             /\ answer = Inferred(call[c]) /\ Grew(call[c].before, call[c].paths)
             /\ Grew(call[c].beforeRemotes, call[c].remotes)
    PROVE  RegistryInv'
<1> DEFINE r == [call[c] EXCEPT !.phase = "replying", !.answer = answer]
<1>1. call[c] \in Inference /\ CallInv(call[c], registry)
  BY DEF RegistryInv, CallInv
<1>2. call' = [call EXCEPT ![c] = r]
  BY DEF Reply
<1>3. /\ r \in Inference /\ r.phase = "replying" /\ r.answer = answer /\ r.job = call[c].job
      /\ r.paths = call[c].paths /\ r.remotes = call[c].remotes /\ r.before = call[c].before
      /\ r.beforeRemotes = call[c].beforeRemotes /\ r.seen = call[c].seen
  BY <1>1 DEF Inference
<1> HIDE DEF r
<1>4. Inferred(r) = Inferred(call[c])
  BY <1>3 DEF Inferred
<1>5. CallInv(r, registry)
  BY <1>1, <1>3, <1>4 DEF CallInv
<1>6. \A d \in Calls : CallInv(call'[d], registry)
  BY <1>2, <1>5 DEF RegistryInv
<1>7. \A d \in Calls : CallInv(call'[d], registry')
  BY <1>6, SameMaps
<1>8. call' = [d \in Calls |-> call'[d]]
  BY <1>2 DEF RegistryInv
<1>9. QED BY <1>7, <1>8 DEF RegistryInv

LEMMA RegistryStep == ASSUME RegistryInv, Next PROVE RegistryInv'
<1> USE SetupAssumption DEF ResolutionAssumption
<1> PICK c \in Calls :
      \/ \E j \in Jobs : Begin(c, j)
      \/ RegisterMissing(c) \/ RegisterPath(c) \/ RegisterRemote(c)
      \/ ReadPaths(c) \/ ReadRemotes(c) \/ ReadSnapshot(c) \/ Infer(c) \/ File(c)
      \/ Report(c) \/ Die(c)
  BY DEF Next
<1> DEFINE was == call[c]
<1>1. /\ was \in Inference /\ CallInv(was, registry) /\ IsRegistry(registry)
      /\ registry.paths \in PathMap /\ registry.remotes \in RemoteMap
      /\ filed \subseteq [key : Keys, project : Projects]
      /\ was.job = None <=> was.phase = "idle"
      /\ was.job \in Jobs \cup {None}
  BY DEF RegistryInv, CallInv, IsRegistry, Inference
<1>2. was.job # None =>
        /\ was.job.op \in {"path", "remote"} => was.job.project \in Projects
        /\ was.job.op = "path" => Canonical[was.job.place] \in Dirs \cup {Missing}
        /\ was.job.op = "remote" => was.job.target \in Targets
        /\ was.job.op \in Inferring =>
             was.job.project \in Projects \cup {None} /\ was.job.dir \in Dirs
        /\ was.job.op = "capture" => was.job.key \in Keys
        /\ was.job.op \in {"path", "remote"} \cup Inferring
  BY <1>1 DEF Job, Inferring
<1>3. /\ {"ok", "conflict", "invalid", "corrupt"} = Mistakes
      /\ Mistakes \cap (Projects \cup {None, Unresolved}) = {}
  BY DEF Mistakes
<1>4. \A m : Grew(m, m)
  BY DEF Grew
<1>5. ASSUME NEW j \in Jobs, Begin(c, j) PROVE RegistryInv'
  <2> DEFINE r == [Idle EXCEPT !.phase = "begun", !.job = j,
                    !.before = registry.paths, !.beforeRemotes = registry.remotes,
                    !.seen = Told(j, registry)]
  <2>1. /\ NoPaths \in PathMap /\ NoRemotes \in RemoteMap
        /\ \A n : Grew(NoPaths, n) /\ Grew(NoRemotes, n)
    BY DEF NoPaths, NoRemotes, PathMap, RemoteMap, Grew
  <2>2. Told(j, registry) \subseteq Projects \cup {Unresolved}
    <3>1. SUFFICES ASSUME j.op \notin {"path", "remote"}
                   PROVE  Resolve(j.project, j.dir, registry.paths, registry.remotes)
                            \in Projects \cup {Unresolved}
      BY DEF Told
    <3>2. j.project \in Projects \cup {None} /\ j.dir \in Dirs
      BY <3>1 DEF Job
    <3>3. QED BY <1>1, <3>2, Resolved
  <2>3. /\ r \in Inference /\ r.phase = "begun" /\ r.job = j /\ r.answer = None
        /\ r.before = registry.paths /\ r.beforeRemotes = registry.remotes
        /\ r.paths = NoPaths /\ r.remotes = NoRemotes /\ r.seen = Told(j, registry)
    BY <1>1, <2>1, <2>2 DEF Idle, Inference
  <2>4. call' = [call EXCEPT ![c] = r] /\ registry' = registry /\ filed' = filed
    BY <1>5 DEF Begin
  <2> HIDE DEF r
  <2>5. j # None /\ None \notin {"ok"} \cup Projects \cup {Unresolved}
    BY <1>3 DEF Mistakes
  <2>6. CallInv(r, registry)
    BY <1>4, <2>1, <2>3, <2>5 DEF CallInv
  <2>7. QED BY <1>1, <2>4, <2>6, OneCallInvariant
<1>6. CASE RegisterMissing(c)
  <2>1. Reply(c, "invalid") /\ was.job # None /\ UNCHANGED <<registry, filed>>
    BY <1>1, <1>6 DEF RegisterMissing
  <2>2. "invalid" \in Mistakes /\ "invalid" # "ok" /\ "invalid" \notin Projects \cup {Unresolved}
    BY <1>3 DEF Mistakes
  <2>3. QED BY <1>1, <2>1, <2>2, ReplyInvariant
<1>7. CASE RegisterPath(c)
  <2> DEFINE p == was.job.project
             d == Canonical[was.job.place]
  <2>1. /\ was.phase = "begun" /\ was.job.op = "path" /\ was.job # None /\ filed' = filed
        /\ d \in Dirs /\ p \in Projects
    BY <1>1, <1>2, <1>7 DEF RegisterPath
  <2>2. CASE /\ registry.paths[d] = None /\ Accept(c)
             /\ registry' = [registry EXCEPT !.paths[d] = p, !.projects = @ \cup {p}]
    <3>1. /\ registry'.paths = [registry.paths EXCEPT ![d] = p]
          /\ registry'.remotes = registry.remotes
          /\ registry' = [paths |-> registry'.paths, remotes |-> registry'.remotes,
                          projects |-> registry'.projects]
      BY <1>1, <2>2 DEF IsRegistry
    <3>2. /\ registry'.paths \in PathMap /\ registry'.paths[d] = p
          /\ Grew(registry.paths, registry'.paths)
      BY <1>1, <2>1, <2>2, <3>1 DEF PathMap, Grew
    <3>3. IsRegistry(registry') /\ Grew(registry.remotes, registry'.remotes)
      BY <1>1, <1>4, <3>1, <3>2 DEF IsRegistry
    <3>4. Registered(was.job, registry')
      BY <2>1, <3>2 DEF Registered
    <3>5. QED BY <2>1, <2>2, <3>2, <3>3, <3>4, RegistrationInvariant
  <2>3. CASE /\ registry.paths[d] # None /\ UNCHANGED registry
             /\ Reply(c, IF registry.paths[d] = p THEN "ok" ELSE "conflict")
    <3>1. PICK answer \in {"ok", "conflict"} :
            Reply(c, answer) /\ (answer = "ok" => registry.paths[d] = p)
      BY <2>3
    <3>2. answer = "ok" => Registered(was.job, registry)
      BY <2>1, <3>1 DEF Registered
    <3>3. answer \in Mistakes /\ answer \notin Projects \cup {Unresolved}
      BY <1>3 DEF Mistakes
    <3>4. QED BY <1>1, <2>1, <2>3, <3>1, <3>2, <3>3, ReplyInvariant
  <2>4. QED BY <1>7, <2>2, <2>3 DEF RegisterPath
<1>8. CASE RegisterRemote(c)
  <2> DEFINE p == was.job.project
             id == Identity(was.job.target)
  <2>1. /\ was.phase = "begun" /\ was.job.op = "remote" /\ was.job # None /\ filed' = filed
        /\ p \in Projects /\ (id # None => id \in Identities)
    BY <1>1, <1>2, <1>8 DEF RegisterRemote, Identities
  <2>2. CASE id = None /\ Reply(c, "invalid") /\ UNCHANGED registry
    <3>1. "invalid" \in Mistakes /\ "invalid" # "ok" /\ "invalid" \notin Projects \cup {Unresolved}
      BY <1>3 DEF Mistakes
    <3>2. QED BY <1>1, <2>1, <2>2, <3>1, ReplyInvariant
  <2>3. CASE /\ id # None /\ registry.remotes[id] = None /\ Accept(c)
             /\ registry' = [registry EXCEPT !.remotes[id] = p, !.projects = @ \cup {p}]
    <3>1. /\ registry'.remotes = [registry.remotes EXCEPT ![id] = p]
          /\ registry'.paths = registry.paths
          /\ registry' = [paths |-> registry'.paths, remotes |-> registry'.remotes,
                          projects |-> registry'.projects]
      BY <1>1, <2>3 DEF IsRegistry
    <3>2. /\ registry'.remotes \in RemoteMap /\ registry'.remotes[id] = p
          /\ Grew(registry.remotes, registry'.remotes)
      BY <1>1, <2>1, <2>3, <3>1 DEF RemoteMap, Grew
    <3>3. IsRegistry(registry') /\ Grew(registry.paths, registry'.paths)
      BY <1>1, <1>4, <3>1, <3>2 DEF IsRegistry
    <3>4. Registered(was.job, registry')
      BY <2>1, <2>3, <3>2 DEF Registered
    <3>5. QED BY <2>1, <2>3, <3>2, <3>3, <3>4, RegistrationInvariant
  <2>4. CASE /\ id # None /\ registry.remotes[id] # None /\ UNCHANGED registry
             /\ Reply(c, IF registry.remotes[id] = p THEN "ok" ELSE "conflict")
    <3>1. PICK answer \in {"ok", "conflict"} :
            Reply(c, answer) /\ (answer = "ok" => registry.remotes[id] = p)
      BY <2>4
    <3>2. answer = "ok" => Registered(was.job, registry)
      BY <2>1, <2>4, <3>1 DEF Registered
    <3>3. answer \in Mistakes /\ answer \notin Projects \cup {Unresolved}
      BY <1>3 DEF Mistakes
    <3>4. QED BY <1>1, <2>1, <2>4, <3>1, <3>2, <3>3, ReplyInvariant
  <2>5. QED BY <1>8, <2>2, <2>3, <2>4 DEF RegisterRemote
<1>9. CASE ReadPaths(c)
  <2> DEFINE r == [was EXCEPT !.phase = "halfread", !.paths = registry.paths]
  <2>1. /\ call' = [call EXCEPT ![c] = r] /\ registry' = registry /\ filed' = filed
        /\ was.job.op \in {"capture", "list"} /\ was.phase = "begun" /\ was.answer = None
    BY <1>1, <1>9 DEF ReadPaths, CallInv
  <2>2. /\ r \in Inference /\ r.phase = "halfread" /\ r.answer = was.answer /\ r.job = was.job
        /\ r.paths = registry.paths /\ r.remotes = was.remotes /\ r.before = was.before
        /\ r.beforeRemotes = was.beforeRemotes /\ r.seen = was.seen
    BY <1>1 DEF Inference
  <2> HIDE DEF r
  <2>3. CallInv(r, registry)
    BY <1>1, <1>3, <1>4, <2>1, <2>2 DEF CallInv, Inferring
  <2>4. QED BY <1>1, <2>1, <2>3, OneCallInvariant
<1>10. ASSUME Reply(c, "corrupt"), was.job # None, UNCHANGED <<registry, filed>>
       PROVE  RegistryInv'
  <2>1. "corrupt" \in Mistakes /\ "corrupt" # "ok" /\ "corrupt" \notin Projects \cup {Unresolved}
    BY <1>3 DEF Mistakes
  <2>2. QED BY <1>1, <1>10, <2>1, ReplyInvariant
<1>11. CASE ReadRemotes(c)
  <2> DEFINE r == [was EXCEPT !.phase = "read", !.remotes = registry.remotes]
  <2>1. CASE call' = [call EXCEPT ![c] = r]
    <3>1. /\ registry' = registry /\ filed' = filed
          /\ was.phase = "halfread" /\ was.answer = None /\ was.job.op # "session"
      BY <1>1, <1>11 DEF ReadRemotes, CallInv
    <3>2. /\ r \in Inference /\ r.phase = "read" /\ r.answer = was.answer /\ r.job = was.job
          /\ r.paths = was.paths /\ r.remotes = registry.remotes /\ r.before = was.before
          /\ r.beforeRemotes = was.beforeRemotes /\ r.seen = was.seen
      BY <1>1 DEF Inference
    <3> HIDE DEF r
    <3>3. CallInv(r, registry)
      BY <1>1, <1>3, <1>4, <3>1, <3>2 DEF CallInv
    <3>4. QED BY <1>1, <2>1, <3>1, <3>3, OneCallInvariant
  <2>2. CASE Reply(c, "corrupt")
    BY <1>1, <1>10, <1>11, <2>2 DEF ReadRemotes
  <2>3. QED BY <1>11, <2>1, <2>2 DEF ReadRemotes
<1>12. CASE ReadSnapshot(c)
  <2> DEFINE r == [was EXCEPT !.phase = "read", !.paths = registry.paths,
                              !.remotes = registry.remotes]
  <2>1. CASE call' = [call EXCEPT ![c] = r]
    <3>1. /\ registry' = registry /\ filed' = filed /\ was.job # None
          /\ was.phase = "begun" /\ was.answer = None /\ was.job.op = "session"
          /\ Told(was.job, registry) \subseteq was.seen
      BY <1>1, <1>12 DEF ReadSnapshot, CallInv
    <3>2. /\ r \in Inference /\ r.phase = "read" /\ r.answer = was.answer /\ r.job = was.job
          /\ r.paths = registry.paths /\ r.remotes = registry.remotes /\ r.before = was.before
          /\ r.beforeRemotes = was.beforeRemotes /\ r.seen = was.seen
      BY <1>1 DEF Inference
    <3> HIDE DEF r
    <3>3. Inferred(r) \in r.seen
      BY <3>1, <3>2 DEF Told, Inferred
    <3>4. CallInv(r, registry)
      BY <1>1, <1>3, <1>4, <3>1, <3>2, <3>3 DEF CallInv, Inferring
    <3>5. QED BY <1>1, <2>1, <3>1, <3>4, OneCallInvariant
  <2>2. CASE Reply(c, "corrupt")
    BY <1>1, <1>10, <1>12, <2>2 DEF ReadSnapshot
  <2>3. QED BY <1>12, <2>1, <2>2 DEF ReadSnapshot
<1>13. CASE Infer(c)
  <2> DEFINE p == Inferred(was)
  <2>1. /\ was.phase = "read" /\ was.answer = None /\ was.job # None
        /\ was.job.op \in Inferring /\ Grew(was.before, was.paths)
        /\ Grew(was.beforeRemotes, was.remotes) /\ registry' = registry /\ filed' = filed
        /\ was.job.op = "session" => p \in was.seen
    BY <1>1, <1>13 DEF Infer, CallInv
  <2>2. p \in Projects \cup {Unresolved}
    <3>1. was.paths \in PathMap /\ was.remotes \in RemoteMap
      BY <1>1 DEF Inference
    <3>2. QED BY <1>2, <2>1, <3>1, Resolved DEF Inferred
  <2>3. CASE was.job.op = "capture" /\ p # Unresolved
    <3> DEFINE r == [was EXCEPT !.phase = "resolved", !.project = p]
    <3>1. call' = [call EXCEPT ![c] = r]
      BY <1>13, <2>3 DEF Infer, Inferred
    <3>2. /\ r \in Inference /\ r.phase = "resolved" /\ r.answer = was.answer /\ r.job = was.job
          /\ r.paths = was.paths /\ r.remotes = was.remotes /\ r.before = was.before
          /\ r.beforeRemotes = was.beforeRemotes /\ r.seen = was.seen /\ r.project = p
      BY <1>1, <2>2, <2>3 DEF Inference
    <3>3. Inferred(r) = p
      BY <3>2 DEF Inferred
    <3> HIDE DEF r, p
    <3>4. CallInv(r, registry)
      BY <1>1, <1>3, <2>1, <2>2, <2>3, <3>2, <3>3 DEF CallInv
    <3>5. QED BY <1>1, <2>1, <3>1, <3>4, OneCallInvariant
  <2>4. CASE ~(was.job.op = "capture" /\ p # Unresolved)
    <3>1. Reply(c, p)
      BY <1>13, <2>4 DEF Infer, Inferred
    <3>2. p # "ok"
      BY <1>3, <2>2 DEF Mistakes
    <3> HIDE DEF p
    <3>3. was.job.op = "capture" => p \notin Projects
      BY <2>4
    <3>4. QED BY <1>1, <2>1, <2>2, <3>1, <3>2, <3>3, ReplyInvariant
  <2>5. QED BY <2>3, <2>4
<1>14. CASE File(c)
  <2> DEFINE mine == [key |-> was.job.key, project |-> was.project]
  <2>1. /\ was.phase = "resolved" /\ was.job # None /\ was.job.op = "capture"
        /\ was.project \in Projects /\ was.project = Inferred(was)
        /\ Grew(was.before, was.paths) /\ Grew(was.beforeRemotes, was.remotes)
    BY <1>1, <1>14 DEF File, CallInv
  <2>2. mine \in [key : Keys, project : Projects]
    BY <1>2, <2>1
  <2>3. /\ IsRegistry(registry') /\ registry'.paths = registry.paths
        /\ registry'.remotes = registry.remotes
        /\ filed' \subseteq [key : Keys, project : Projects]
    <3>1. CASE /\ filed' = filed \cup {mine}
               /\ registry' = [registry EXCEPT !.projects = @ \cup {mine.project}]
      BY <1>1, <2>2, <3>1 DEF IsRegistry
    <3>2. CASE UNCHANGED <<registry, filed>>
      BY <1>1, <3>2
    <3>3. QED BY <1>14, <3>1, <3>2 DEF File
  <2>4. PICK answer \in {was.project, "conflict"} : Reply(c, answer)
    BY <1>14 DEF File
  <2>5. /\ answer \in Projects \cup Mistakes /\ answer # "ok"
        /\ answer \in Projects => answer = was.project
    BY <1>3, <2>1 DEF Mistakes
  <2>6. QED BY <1>1, <2>1, <2>3, <2>4, <2>5, ReplyInvariant
<1>15. ASSUME NEW phase \in {"answered", "dead"}, was.job # None,
              call' = [call EXCEPT ![c].phase = phase], UNCHANGED <<registry, filed>>
       PROVE  RegistryInv'
  <2> DEFINE r == [was EXCEPT !.phase = phase]
  <2>1. /\ r \in Inference /\ r.phase = phase /\ r.answer = was.answer /\ r.job = was.job
        /\ r.paths = was.paths /\ r.remotes = was.remotes /\ r.before = was.before
        /\ r.beforeRemotes = was.beforeRemotes /\ r.seen = was.seen
    BY <1>1 DEF Inference
  <2>2. call' = [call EXCEPT ![c] = r]
    BY <1>15
  <2> HIDE DEF r
  <2>3. Inferred(r) = Inferred(was)
    BY <2>1 DEF Inferred
  <2>4. CallInv(r, registry)
    BY <1>1, <1>15, <2>1, <2>3 DEF CallInv
  <2>5. QED BY <1>1, <1>15, <2>2, <2>4, OneCallInvariant
<1>16. CASE Report(c)
  BY <1>1, <1>15, <1>16 DEF Report
<1>17. CASE Die(c)
  BY <1>1, <1>15, <1>17 DEF Die
<1>18. QED
  BY <1>5, <1>6, <1>7, <1>8, <1>9, <1>11, <1>12, <1>13, <1>14, <1>16, <1>17

LEMMA RegistryKept == SetupSpec => []RegistryInv
<1>1. RegistryInv /\ UNCHANGED vars => RegistryInv'
  BY DEF vars, RegistryInv, IsRegistry, CallInv, Told, Registered, Inferred
<1>2. QED BY <1>1, RegistryInitInvariant, RegistryStep, PartsMove, PTL

(* Of two processes that register one directory for different projects,     *)
(* through whatever names, or one remote, through whatever spellings, one   *)
(* is accepted and stays so (storage.rs, register_path, register_remote).   *)
THEOREM OneRegistrantWins == SetupSpec => []OneRegistrantIsAccepted
BY RegistryKept, RegistrantAccepted, PTL

(* A capture that a registration made before it covers is never filed by a  *)
(* farther directory, a remote or a name, whatever is registered while the  *)
(* capture reads the two tables apart (config.rs, resolve_project).         *)
THEOREM RegistrationsDecideCaptures == SetupSpec => []CapturesHeedRegistrations
BY RegistryKept, RegistrationsHeeded, PTL

(* A read session's project is what one registry, at one moment of its      *)
(* call, would give (read_session.rs, one transaction for both tables).     *)
THEOREM SessionsReadOneMoment == SetupSpec => []SessionsInferOneMoment
BY RegistryKept, OneMoment, PTL
=============================================================================
