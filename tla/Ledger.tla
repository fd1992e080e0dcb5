------------------------------- MODULE Ledger -------------------------------
(***************************************************************************)
(* The SQLite store of BIF and everyone who changes it: writers that hold  *)
(* a pinned handle and run one immediate transaction per request           *)
(* (storage.rs), the change journal those transactions append to           *)
(* (journal.rs and migration 0004), and the operator who activates, prunes *)
(* and backs up the store and restores a backup in its place               *)
(* (maintenance.rs).                                                       *)
(*                                                                         *)
(* BEGIN IMMEDIATE serializes writers, so a transaction is one step.  A    *)
(* transaction that ends in an error, loses the lock (storage_busy) or     *)
(* crashes before its commit changes nothing: it is a stuttering step.     *)
(***************************************************************************)
EXTENDS Domain, FiniteSets

CONSTANTS
    Requesters, Projects,   \* the identities items are numbered under
    Keys,                   \* idempotency keys callers use
    Attributions,           \* actor and execution of a request, as one value
    Mutations,              \* the mutations callers ask for
    Writers,                \* open repositories (one per process or call)
    MaxGenerations,         \* bound: generations drawn, 1 + the restores
    MaxBackups,             \* bound: backup files kept
    Watched                 \* the item whose life is compared with ItemLifecycle

VARIABLES
    db,         \* the contents of the store's file
    backups,    \* the contents of every backup file, preserved ones included
    drawn,      \* how many generations were ever drawn; each draw is new
    handle,     \* per writer, the generation its repository pinned, or None
    acked       \* history: the effects reported to callers, with the pin used

vars == <<db, backups, drawn, handle, acked>>

ItemIds == Requesters \X Projects \X (1..MaxI64)
ProjectOf(id) == id[2]

CaptureRequest ==
    [key : Keys, requester : Requesters, project : Projects,
     content : Contents, by : Attributions]
MutationRequest ==
    [key : Keys, item : ItemIds, expected : 1..MaxI64,
     mutation : Mutations, by : Attributions]

-----------------------------------------------------------------------------
(* Payload hashes: SHA-256 tells different canonical bytes apart, so a hash *)
(* is the tuple of fields that are written into them.                       *)

PriorityField(field) ==
    CASE field = Omitted -> None
      [] field = Clear -> "clear"
      [] OTHER -> "set:" \o field[2]

AssigneeField(field) ==
    CASE field = Omitted -> None
      [] field = Clear -> "clear"
      [] OTHER -> field[2]

CaptureHash(r) == <<"capture", r.requester, r.project, r.content>>

\* Mutant: the mutation itself is left out of the canonical bytes.
MutationHashOfTarget(r) == <<"mutation", r.item, r.expected, r.by>>

MutationHash(r) ==
    LET m == r.mutation
    IN  <<"mutation", r.item, r.expected, m.lifecycle,
          IF NeedsReason(m.lifecycle) THEN m.reason ELSE None,
          IF m.triage THEN <<PriorityField(m.priority), AssigneeField(m.assignee), m.note>>
          ELSE None,
          r.by>>

-----------------------------------------------------------------------------
(* What the transactions do to the contents `d` of a store. *)

EmptyStore ==
    [generation |-> 1, sync |-> FALSE, bootstrap |-> TRUE,
     floor |-> 0, high |-> 0, allocated |-> 0, rows |-> {},
     projects |-> {}, next |-> [p \in Requesters \X Projects |-> 1],
     items |-> [id \in ItemIds |-> None], operations |-> {},
     receipts |-> [k \in Keys |-> None]]

\* journal::append_change and its triggers: the row is allocated past every
\* earlier allocation and moves the high water mark with it.
JournalRow(seq, id, revision) ==
    [seq |-> seq, item |-> id, project |-> ProjectOf(id), revision |-> revision]

Row == [seq : 1..MaxI64, item : ItemIds, project : Projects, revision : 1..MaxI64]

CanAppend(d) == d.high < MaxI64 /\ d.allocated + 1 > d.high

Appended(d, id, revision) ==
    [d EXCEPT !.allocated = @ + 1,
              !.high = d.allocated + 1,
              !.rows = @ \cup {JournalRow(d.allocated + 1, id, revision)}]

OperationRow ==
    [item : ItemIds, revision : 1..MaxI64, expected : 1..MaxI64 \cup {None},
     events : Seq(Event), by : Attributions]

ReceiptRow ==
    [hash : {CaptureHash(r) : r \in CaptureRequest} \cup {MutationHash(r) : r \in MutationRequest},
     item : ItemIds, revision : 1..MaxI64, request : CaptureRequest \cup MutationRequest]

ASSUME LedgerAssumption ==
    /\ Mutations \subseteq Mutation
    /\ MaxGenerations \in Nat \ {0}
    /\ MaxBackups \in Nat
    /\ Watched \in ItemIds
    /\ None \notin 1..MaxGenerations
    /\ None \notin ReceiptRow

Operation(id, revision, expected, events, by) ==
    [item |-> id, revision |-> revision, expected |-> expected, events |-> events, by |-> by]

Receipt(hash, id, revision, request) ==
    [hash |-> hash, item |-> id, revision |-> revision, request |-> request]

NextId(d, r) == <<r.requester, r.project, d.next[<<r.requester, r.project>>]>>

CanCapture(d, r) ==
    /\ d.receipts[r.key] = None
    /\ d.next[<<r.requester, r.project>>] < MaxI64
    /\ d.items[NextId(d, r)] = None
    /\ CanAppend(d)

\* A capture commits a new item, its operation, event, receipt and journal row.
Captured(d, r) ==
    LET id == NextId(d, r)
    IN  Appended(
          [d EXCEPT
             !.projects = @ \cup {r.project},
             !.next[<<r.requester, r.project>>] = @ + 1,
             !.items[id] = NewItem(r.content),
             !.operations = @ \cup
                {Operation(id, 1, None, <<Change("captured", None, None)>>, r.by)},
             !.receipts[r.key] = Receipt(CaptureHash(r), id, 1, r)],
          id, 1)

\* Mutant: the expected revision is not compared.
CanMutateAnyRevision(d, r) ==
    LET item == d.items[r.item]
    IN  /\ d.receipts[r.key] = None
        /\ item # None
        /\ MutationError(item, r.mutation) = None
        /\ EventsOf(item, r.mutation) # << >>
        /\ item.revision < MaxI64
        /\ CanAppend(d)

\* A mutation is judged against the current item at the expected revision;
\* one without effect commits nothing, not even a receipt.
CanMutate(d, r) ==
    LET item == d.items[r.item]
    IN  /\ d.receipts[r.key] = None
        /\ item # None
        /\ item.revision = r.expected
        /\ MutationError(item, r.mutation) = None
        /\ EventsOf(item, r.mutation) # << >>
        /\ item.revision < MaxI64
        /\ ~ \E o \in d.operations : o.item = r.item /\ o.revision = item.revision + 1
        /\ CanAppend(d)

\* Mutant: the receipt is written outside the transaction and lost.
MutatedWithoutReceipt(d, r) ==
    LET item == d.items[r.item]
        after == Mutated(item, r.mutation)
    IN  Appended(
          [d EXCEPT
             !.items[r.item] = after,
             !.operations = @ \cup {Operation(r.item, after.revision, r.expected,
                                              EventsOf(item, r.mutation), r.by)}],
          r.item, after.revision)

\* Mutant: the UPDATE of items misses the assignee.
MutatedWithoutAssignee(d, r) ==
    LET item == d.items[r.item]
        after == Mutated(item, r.mutation)
    IN  Appended(
          [d EXCEPT
             !.items[r.item] = [after EXCEPT !.assignee = item.assignee],
             !.operations = @ \cup {Operation(r.item, after.revision, r.expected,
                                              EventsOf(item, r.mutation), r.by)},
             !.receipts[r.key] = Receipt(MutationHash(r), r.item, after.revision, r)],
          r.item, after.revision)

MutatedStore(d, r) ==
    LET item == d.items[r.item]
        after == Mutated(item, r.mutation)
    IN  Appended(
          [d EXCEPT
             !.items[r.item] = after,
             !.operations = @ \cup {Operation(r.item, after.revision, r.expected,
                                              EventsOf(item, r.mutation), r.by)},
             !.receipts[r.key] = Receipt(MutationHash(r), r.item, after.revision, r)],
          r.item, after.revision)

\* A receipt under the request's key and with its hash: the request is
\* answered from the receipt.  Any other receipt is an idempotency conflict.
Replays(d, key, hash) == d.receipts[key] # None /\ d.receipts[key].hash = hash

\* The item a replay reports: a capture is rebuilt from the request, a
\* mutation reads the stored item again.
CaptureReplayItem(d, r) == NewItem(r.content)
MutationReplayItem(d, r) == d.items[d.receipts[r.key].item]

\* maintenance::validate_journal, which every maintenance operation requires:
\* the retained rows are exactly the covered positions and belong to operations.
ValidJournal(d) ==
    /\ \A row \in d.rows :
        /\ row.seq <= d.high
        /\ \E o \in d.operations : o.item = row.item /\ o.revision = row.revision
        /\ row.project = ProjectOf(row.item)
        /\ d.items[row.item] # None /\ row.revision <= d.items[row.item].revision
    /\ Cardinality({row \in d.rows : d.floor < row.seq /\ row.seq <= d.high})
         = d.high - d.floor
    /\ d.allocated = d.high

\* Mutant: the restored copy keeps the generation it was backed up with.
RestoredWithoutDraw(d, generation) == [d EXCEPT !.sync = FALSE, !.bootstrap = TRUE]

\* maintenance::restore: the staged copy of a backup under a fresh generation.
Restored(d, generation) ==
    [d EXCEPT !.generation = generation, !.sync = FALSE, !.bootstrap = TRUE]

\* Mutant: pruning deletes up to but not including `through`.
PrunedTooLittle(d, through) ==
    [d EXCEPT !.rows = {row \in @ : row.seq >= through}, !.floor = through]

Pruned(d, through) ==
    [d EXCEPT !.rows = {row \in @ : row.seq > through}, !.floor = through]

-----------------------------------------------------------------------------
Init ==
    /\ db = EmptyStore
    /\ backups = {}
    /\ drawn = 1
    /\ handle = [w \in Writers |-> None]
    /\ acked = {}

\* Repositories pin the store's state when they are made, and a process may
\* make a new one at any time.
Open(w) ==
    /\ handle' = [handle EXCEPT ![w] = db.generation]
    /\ UNCHANGED <<db, backups, drawn, acked>>

\* check_write_state, first thing inside the transaction: a handle pinned to
\* another generation gets restart_required for everything, replays included.
Admitted(w) == handle[w] # None /\ handle[w] = db.generation

Ack(w, key, id, revision) ==
    acked \cup {[pin |-> handle[w], key |-> key, item |-> id, revision |-> revision]}

Capture(w, r) ==
    /\ Admitted(w)
    /\ CanCapture(db, r)
    /\ db' = Captured(db, r)
    /\ acked' = Ack(w, r.key, NextId(db, r), 1)
    /\ UNCHANGED <<backups, drawn, handle>>

Mutate(w, r) ==
    /\ Admitted(w)
    /\ CanMutate(db, r)
    /\ db' = MutatedStore(db, r)
    /\ acked' = Ack(w, r.key, r.item, db.items[r.item].revision + 1)
    /\ UNCHANGED <<backups, drawn, handle>>

\* A retry after a lost answer, or after a restore: nothing is written.
Replay(w, key, hash) ==
    /\ Admitted(w)
    /\ Replays(db, key, hash)
    /\ acked' = Ack(w, key, db.receipts[key].item, db.receipts[key].revision)
    /\ UNCHANGED <<db, backups, drawn, handle>>

\* Offline maintenance.  Each names the generation the operator inspected.
Activate(generation) ==
    /\ ValidJournal(db)
    /\ generation = db.generation
    /\ db' = [db EXCEPT !.sync = TRUE]
    /\ UNCHANGED <<backups, drawn, handle, acked>>

Prune(generation, through) ==
    /\ ValidJournal(db)
    /\ generation = db.generation
    /\ db.floor <= through /\ through <= db.high
    /\ db' = Pruned(db, through)
    /\ UNCHANGED <<backups, drawn, handle, acked>>

Backup ==
    /\ ValidJournal(db)
    /\ Cardinality(backups \cup {db}) <= MaxBackups
    /\ backups' = backups \cup {db}
    /\ UNCHANGED <<db, drawn, handle, acked>>

\* Mutant: the preservation is skipped.
RestoreWithoutPreserving(from) ==
    /\ ValidJournal(from) /\ ValidJournal(db)
    /\ drawn < MaxGenerations
    /\ db' = Restored(from, drawn + 1)
    /\ drawn' = drawn + 1
    /\ UNCHANGED <<backups, handle, acked>>

\* The later writes are preserved before the backup is published over them.
Restore(from) ==
    /\ ValidJournal(from) /\ ValidJournal(db)
    /\ drawn < MaxGenerations
    /\ Cardinality(backups \cup {db}) <= MaxBackups
    /\ backups' = backups \cup {db}
    /\ db' = Restored(from, drawn + 1)
    /\ drawn' = drawn + 1
    /\ UNCHANGED <<handle, acked>>

Next ==
    \/ \E w \in Writers : Open(w)
    \/ \E w \in Writers, r \in CaptureRequest : Capture(w, r)
    \/ \E w \in Writers, r \in MutationRequest : Mutate(w, r)
    \/ \E w \in Writers, r \in CaptureRequest : Replay(w, r.key, CaptureHash(r))
    \/ \E w \in Writers, r \in MutationRequest : Replay(w, r.key, MutationHash(r))
    \/ \E generation \in 1..drawn : Activate(generation)
    \/ \E generation \in 1..drawn, through \in 0..db.high : Prune(generation, through)
    \/ Backup
    \/ \E from \in backups : Restore(from)

Spec == Init /\ [][Next]_vars
-----------------------------------------------------------------------------
(* Properties of every store that exists: the current one and each backup. *)

Stores == {db} \cup backups

Store(generations) ==
    [generation : 1..generations, sync : BOOLEAN, bootstrap : BOOLEAN,
     floor : 0..MaxI64, high : 0..MaxI64, allocated : 0..MaxI64,
     rows : SUBSET Row, projects : SUBSET Projects,
     next : [Requesters \X Projects -> 1..MaxI64],
     items : [ItemIds -> Item \cup {None}],
     operations : SUBSET OperationRow,
     receipts : [Keys -> ReceiptRow \cup {None}]]

TypeOK ==
    /\ drawn \in 1..MaxGenerations
    /\ handle \in [Writers -> 1..drawn \cup {None}]
    /\ Stores \subseteq Store(drawn)
    /\ acked \subseteq
         [pin : 1..drawn, key : Keys, item : ItemIds, revision : 1..MaxI64]

(* The audit of an item is complete: an item at revision r has exactly one *)
(* operation for each revision 1..r, no operation lacks its item, and none *)
(* changed a revision its caller had not seen.  A lost update, a double    *)
(* commit or a half-committed transaction breaks it.                       *)
AuditComplete(d) ==
    /\ \A id \in ItemIds : d.items[id] # None =>
          \A n \in 1..d.items[id].revision :
              \E o \in d.operations : o.item = id /\ o.revision = n
    /\ \A o \in d.operations :
          /\ d.items[o.item] # None /\ o.revision <= d.items[o.item].revision
          /\ o.revision > 1 => o.expected = o.revision - 1
    /\ \A o, p \in d.operations :
          o.item = p.item /\ o.revision = p.revision => o = p

AuditIsComplete == \A d \in Stores : AuditComplete(d)

(* The journal covers (floor, high] without a gap or a duplicate, whatever *)
(* mixture of commits, prunes and restores led here: every position has    *)
(* one row, an operation is journaled at most once, and an item's rows     *)
(* appear in the order of its revisions.                                   *)
JournalCoverage(d) ==
    /\ d.floor <= d.high /\ d.allocated = d.high
    /\ \A row \in d.rows : d.floor < row.seq /\ row.seq <= d.high
    /\ \A n \in (d.floor + 1)..d.high : \E row \in d.rows : row.seq = n
    /\ \A a, b \in d.rows : a.seq = b.seq => a = b
    /\ \A a, b \in d.rows :
          a.item = b.item => (a.seq < b.seq <=> a.revision < b.revision)
    /\ \A row \in d.rows :
          \E o \in d.operations : o.item = row.item /\ o.revision = row.revision

JournalHasNoGaps == \A d \in Stores : JournalCoverage(d)

(* Every effect is journaled exactly once and answered for by exactly one  *)
(* receipt: the three counts agree, so a retry never doubles an effect and *)
(* nothing committed is missing from the feed's coverage.                  *)
EffectsCounted(d) ==
    /\ Cardinality(d.operations) = d.high
    /\ Cardinality({k \in Keys : d.receipts[k] # None}) = d.high
    /\ \A o \in d.operations : \E k \in Keys :
          /\ d.receipts[k] # None
          /\ d.receipts[k].item = o.item /\ d.receipts[k].revision = o.revision

EffectsCountedOnce == \A d \in Stores : EffectsCounted(d)

(* The next sequence of a requester and project is free, so a constraint   *)
(* of the schema never refuses a capture the counter allows, not even in a *)
(* store restored from a backup.                                           *)
SequencesAhead(d) ==
    \A id \in ItemIds : d.items[id] # None <=> id[3] < d.next[<<id[1], id[2]>>]

SequencesNeverCollide == \A d \in Stores : SequencesAhead(d)

(* Every store passes the validation maintenance begins with, so activate, *)
(* prune, backup and restore are never refused by what ordinary use left.  *)
MaintenanceNeverRefused == \A d \in Stores : ValidJournal(d)

(* A generation names one history.  Of two stores with the same generation *)
(* one continues the other: it has all its operations and receipts, and at *)
(* every position both still retain it has the same row.  This is what     *)
(* lets a client trust a covered position bound to a generation.           *)
Continues(d, e) ==
    /\ d.high <= e.high
    /\ d.floor <= e.floor
    /\ d.operations \subseteq e.operations
    /\ \A k \in Keys : d.receipts[k] # None => e.receipts[k] = d.receipts[k]
    /\ \A row \in e.rows : row.seq <= d.high => row \in d.rows
    /\ \A row \in d.rows : row.seq > e.floor => row \in e.rows

GenerationNamesOneHistory ==
    \A d, e \in Stores :
        d.generation = e.generation => Continues(d, e) \/ Continues(e, d)

(* An effect that was reported is in the store it was reported from or in  *)
(* a backup of that generation: a restore loses no acknowledged write,     *)
(* because later writes are preserved first and old handles are fenced.    *)
AcknowledgedSurvives ==
    \A a \in acked : \E d \in Stores :
        /\ d.generation = a.pin
        /\ d.receipts[a.key] # None
        /\ d.receipts[a.key].item = a.item /\ d.receipts[a.key].revision = a.revision

(* Within a generation the store only grows, and the generation is left    *)
(* for one never used before, with synchronization off until the operator  *)
(* activates the new one.                                                  *)
GrowsWithinGeneration ==
    [][IF db'.generation = db.generation
       THEN Continues(db, db') /\ (db.sync => db'.sync)
       ELSE /\ db'.generation > drawn
            /\ ~db'.sync /\ db'.bootstrap]_vars

-----------------------------------------------------------------------------
(* Idempotency: a request answered from a receipt is the request that was  *)
(* executed under that key (docs/bif-v1-plan.md:275 "Changed payloads      *)
(* return idempotency_conflict").  Captures may be retried by another      *)
(* actor, mutations may not.                                               *)
SameCapture(r, q) == r = [q EXCEPT !.by = r.by]

ReplayIsSameRequest ==
    \A d \in Stores :
        /\ \A r \in CaptureRequest : Replays(d, r.key, CaptureHash(r)) =>
              SameCapture(r, d.receipts[r.key].request)
        /\ \A r \in MutationRequest : Replays(d, r.key, MutationHash(r)) =>
              r = d.receipts[r.key].request

(* The fields a mutation has: a reason belongs to reject and block, the     *)
(* triage fields to the triage half.                                       *)
SameMutation(m, n) ==
    /\ m.lifecycle = n.lifecycle
    /\ NeedsReason(m.lifecycle) => m.reason = n.reason
    /\ m.triage = n.triage
    /\ m.triage => /\ m.priority = n.priority /\ m.assignee = n.assignee
                   /\ m.note = n.note

\* What is hashed for the triage half.
TriageFields(m) == <<PriorityField(m.priority), AssigneeField(m.assignee), m.note>>

(* Where hashed payloads are apart: no two mutations of the model           *)
(* differ in a field they do not have; what is hashed for an absent half is *)
(* not what is hashed for a present one; the texts "clear" and "set:P" of   *)
(* priorities are apart; and nobody is called "clear", which is hashed when *)
(* an assignee is cleared.                                                 *)
HashedApart ==
    /\ \A m, n \in Mutations : SameMutation(m, n) => m = n
    /\ \A m \in Mutations : None # TriageFields(m)
    /\ \A f, g \in Field(Priorities) : PriorityField(f) = PriorityField(g) => f = g
    /\ "clear" \notin Assignees
    /\ None # "clear"

(* docs/bif-v1-plan.md:275: "Identical retries return the original         *)
(* allocated ID and current item".                                         *)
ReplayReturnsCurrentItem ==
    /\ \A r \in CaptureRequest : Replays(db, r.key, CaptureHash(r)) =>
          CaptureReplayItem(db, r) = db.items[db.receipts[r.key].item]
    /\ \A r \in MutationRequest : Replays(db, r.key, MutationHash(r)) =>
          MutationReplayItem(db, r) = db.items[db.receipts[r.key].item]

-----------------------------------------------------------------------------
(* Each stored item lives the life of ItemLifecycle: its row and the       *)
(* events of its operations, in revision order, are that machine's state.  *)

OperationAt(d, id, n) == CHOOSE o \in d.operations : o.item = id /\ o.revision = n

TrailOf(d, id) ==
    IF d.items[id] = None THEN << >>
    ELSE [n \in 1..d.items[id].revision |->
            [revision |-> n, events |-> OperationAt(d, id, n).events]]

Lifecycle == INSTANCE ItemLifecycle WITH
    item <- db.items[Watched], trail <- TrailOf(db, Watched)

(* Without a restore, the watched item implements ItemLifecycle.           *)
ItemLivesItsLifecycle == Lifecycle!Spec
=============================================================================
