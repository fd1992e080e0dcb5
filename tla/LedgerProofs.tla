---------------------------- MODULE LedgerProofs ----------------------------
(***************************************************************************)
(* The store and its operator, for every number of writers, keys, items,   *)
(* generations and backups.                                                *)
(*                                                                         *)
(* The two writing transactions, capture and mutate, are first shown to be *)
(* a Commit: one operation, one receipt and one journal row for the next   *)
(* revision of one item.  Each store property is then shown once for a     *)
(* Commit, and once for a prune.  The inductive invariant says it of every *)
(* store, and relates stores of one generation: the current store          *)
(* continues every backup of its generation, and two backups of one        *)
(* generation continue one another.                                        *)
(***************************************************************************)
EXTENDS Ledger, DomainProofs, FiniteSetTheorems, FunctionTheorems

(* Store e is store d after one committed effect on item id.               *)
Commit(d, e, id, k, op, receipt, after) ==
    /\ id \in ItemIds /\ k \in Keys /\ after \in Item
    /\ op \in OperationRow /\ receipt \in ReceiptRow
    /\ op.item = id /\ op.revision = after.revision
    /\ receipt.item = id /\ receipt.revision = after.revision
    /\ d.receipts[k] = None
    /\ d.high < MaxI64
    /\ e.generation = d.generation /\ e.sync = d.sync /\ e.bootstrap = d.bootstrap
    /\ e.floor = d.floor /\ e.high = d.high + 1 /\ e.allocated = d.allocated + 1
    /\ e.rows = d.rows \cup {JournalRow(d.allocated + 1, id, after.revision)}
    /\ e.items = [d.items EXCEPT ![id] = after]
    /\ e.operations = d.operations \cup {op}
    /\ e.receipts = [d.receipts EXCEPT ![k] = receipt]
    /\ \/ /\ d.items[id] = None /\ after.revision = 1 /\ op.revision = 1
          /\ id[3] = d.next[<<id[1], id[2]>>]
          /\ e.next = [d.next EXCEPT ![<<id[1], id[2]>>] = @ + 1]
       \/ /\ d.items[id] # None /\ after.revision = d.items[id].revision + 1
          /\ op.expected = d.items[id].revision
          /\ e.next = d.next

(* Every field of a store after append_change, and its type.               *)
LEMMA AppendedFacts ==
    ASSUME NEW n \in Nat, NEW d \in Store(n), NEW id \in ItemIds, NEW revision \in 1..MaxI64,
           d.allocated = d.high, d.high < MaxI64
    PROVE  LET e == Appended(d, id, revision)
           IN  /\ e \in Store(n)
               /\ e.generation = d.generation /\ e.sync = d.sync
               /\ e.bootstrap = d.bootstrap /\ e.floor = d.floor
               /\ e.high = d.high + 1 /\ e.allocated = d.allocated + 1
               /\ e.rows = d.rows \cup {JournalRow(d.allocated + 1, id, revision)}
               /\ e.projects = d.projects /\ e.next = d.next /\ e.items = d.items
               /\ e.operations = d.operations /\ e.receipts = d.receipts
<1>1. JournalRow(d.allocated + 1, id, revision) \in Row
  <2>1. d.allocated + 1 \in 1..MaxI64
    BY DomainAssumption DEF Store
  <2>2. ProjectOf(id) \in Projects
    BY DEF ProjectOf, ItemIds
  <2>3. QED BY <2>1, <2>2 DEF JournalRow, Row
<1>2. d.allocated + 1 \in 0..MaxI64
  BY DomainAssumption DEF Store
<1> DEFINE rows == d.rows \cup {JournalRow(d.allocated + 1, id, revision)}
<1>3. rows \in SUBSET Row
  BY <1>1 DEF Store
<1>4. Appended(d, id, revision) =
        [d EXCEPT !.allocated = d.allocated + 1, !.high = d.allocated + 1, !.rows = rows]
  BY DEF Appended
<1> HIDE DEF rows
<1>5. LET e == [d EXCEPT !.allocated = d.allocated + 1, !.high = d.allocated + 1,
                         !.rows = rows]
      IN  /\ e \in Store(n)
          /\ e.generation = d.generation /\ e.sync = d.sync
          /\ e.bootstrap = d.bootstrap /\ e.floor = d.floor
          /\ e.high = d.allocated + 1 /\ e.allocated = d.allocated + 1 /\ e.rows = rows
          /\ e.projects = d.projects /\ e.next = d.next /\ e.items = d.items
          /\ e.operations = d.operations /\ e.receipts = d.receipts
  BY <1>2, <1>3 DEF Store
<1>6. QED BY <1>4, <1>5 DEF rows

(* A capture is a commit of a new item under the next sequence.            *)
LEMMA CapturedCommits ==
    ASSUME NEW n \in Nat, NEW d \in Store(n), NEW r \in CaptureRequest,
           CanCapture(d, r), d.allocated = d.high
    PROVE  /\ Captured(d, r) \in Store(n)
           /\ Commit(d, Captured(d, r), NextId(d, r), r.key,
                     Operation(NextId(d, r), 1, None,
                               <<Change("captured", None, None)>>, r.by),
                     Receipt(CaptureHash(r), NextId(d, r), 1, r), NewItem(r.content))
<1> DEFINE id == NextId(d, r)
           op == Operation(id, 1, None, <<Change("captured", None, None)>>, r.by)
           receipt == Receipt(CaptureHash(r), id, 1, r)
           after == NewItem(r.content)
           next == d.next[<<r.requester, r.project>>]
<1>1. /\ r.key \in Keys /\ r.requester \in Requesters /\ r.project \in Projects
      /\ r.content \in Contents /\ r.by \in Attributions
  BY DEF CaptureRequest
<1>2. next \in 1..MaxI64 /\ next < MaxI64 /\ next + 1 \in 1..MaxI64
  BY <1>1, DomainAssumption DEF CanCapture, Store
<1>3. id \in ItemIds /\ id[1] = r.requester /\ id[2] = r.project /\ id[3] = next
  BY <1>1, <1>2 DEF NextId, ItemIds
<1>4. after \in Item /\ after.revision = 1
  BY <1>1, NewItemType
<1>5. 1 \in 1..MaxI64
  BY DomainAssumption
<1>6. op \in OperationRow /\ op.item = id /\ op.revision = 1
  <2>1. Change("captured", None, None) \in Event
    BY DEF Change, Event, EventTypes, EventValues
  <2>2. <<Change("captured", None, None)>> \in Seq(Event)
    BY <2>1
  <2>3. QED BY <2>2, <1>1, <1>3, <1>5 DEF Operation, OperationRow
<1>7. receipt \in ReceiptRow /\ receipt.item = id /\ receipt.revision = 1
  BY <1>3, <1>5 DEF Receipt, ReceiptRow
<1>8. /\ d.receipts[r.key] = None /\ d.items[id] = None
      /\ d.high < MaxI64
  BY DEF CanCapture, CanAppend
<1>9. /\ d.items \in [ItemIds -> Item \cup {None}]
      /\ d.receipts \in [Keys -> ReceiptRow \cup {None}]
      /\ d.next \in [Requesters \X Projects -> 1..MaxI64]
      /\ d.operations \in SUBSET OperationRow
      /\ d.projects \in SUBSET Projects
  BY DEF Store
<1> DEFINE items == [d.items EXCEPT ![id] = after]
           receipts == [d.receipts EXCEPT ![r.key] = receipt]
           nexts == [d.next EXCEPT ![<<r.requester, r.project>>] = next + 1]
           operations == d.operations \cup {op}
           projects == d.projects \cup {r.project}
           mid == [d EXCEPT !.projects = projects, !.next = nexts, !.items = items,
                            !.operations = operations, !.receipts = receipts]
<1>10. Captured(d, r) = Appended(mid, id, 1)
  BY DEF Captured, Store
<1>11. /\ items \in [ItemIds -> Item \cup {None}]
       /\ receipts \in [Keys -> ReceiptRow \cup {None}]
       /\ operations \in SUBSET OperationRow
       /\ projects \in SUBSET Projects
  BY <1>1, <1>4, <1>6, <1>7, <1>9
<1>12. nexts \in [Requesters \X Projects -> 1..MaxI64]
  BY <1>1, <1>2, <1>9
<1> HIDE DEF items, receipts, nexts, operations, projects
<1>13. /\ mid \in Store(n)
       /\ mid.generation = d.generation /\ mid.sync = d.sync /\ mid.bootstrap = d.bootstrap
       /\ mid.floor = d.floor /\ mid.high = d.high /\ mid.allocated = d.allocated
       /\ mid.rows = d.rows /\ mid.items = items /\ mid.receipts = receipts
       /\ mid.next = nexts /\ mid.operations = operations
  BY <1>11, <1>12 DEF Store
<1> HIDE DEF mid, id, op, receipt, after, next
<1>14. LET e == Appended(mid, id, 1)
       IN  /\ e \in Store(n)
           /\ e.generation = d.generation /\ e.sync = d.sync
           /\ e.bootstrap = d.bootstrap /\ e.floor = d.floor
           /\ e.high = d.high + 1 /\ e.allocated = d.allocated + 1
           /\ e.rows = d.rows \cup {JournalRow(d.allocated + 1, id, 1)}
           /\ e.next = nexts /\ e.items = items
           /\ e.operations = operations /\ e.receipts = receipts
  BY <1>3, <1>5, <1>8, <1>13, AppendedFacts
<1>15. nexts = [d.next EXCEPT ![<<id[1], id[2]>>] = @ + 1]
  BY <1>3 DEF nexts, next
<1>16. id[3] = d.next[<<id[1], id[2]>>]
  BY <1>3 DEF next
<1>17. Commit(d, Captured(d, r), id, r.key, op, receipt, after)
  BY <1>1, <1>3, <1>4, <1>6, <1>7, <1>8, <1>10, <1>14, <1>15, <1>16
     DEF Commit, items, receipts, operations
<1>18. QED BY <1>10, <1>14, <1>17 DEF id, op, receipt, after

(* A mutation is a commit of the next revision of the item it names.       *)
LEMMA MutatedCommits ==
    ASSUME NEW n \in Nat, NEW d \in Store(n), NEW r \in MutationRequest,
           CanMutate(d, r), d.allocated = d.high
    PROVE  LET after == Mutated(d.items[r.item], r.mutation)
           IN  /\ MutatedStore(d, r) \in Store(n)
               /\ after.revision = d.items[r.item].revision + 1
               /\ Commit(d, MutatedStore(d, r), r.item, r.key,
                         Operation(r.item, after.revision, r.expected,
                                   EventsOf(d.items[r.item], r.mutation), r.by),
                         Receipt(MutationHash(r), r.item, after.revision, r), after)
<1> DEFINE id == r.item
           item == d.items[id]
           events == EventsOf(item, r.mutation)
           after == Mutated(item, r.mutation)
           op == Operation(id, after.revision, r.expected, events, r.by)
           receipt == Receipt(MutationHash(r), id, after.revision, r)
<1>1. /\ r.key \in Keys /\ id \in ItemIds /\ r.expected \in 1..MaxI64
      /\ r.mutation \in Mutation /\ r.by \in Attributions
  BY LedgerAssumption DEF MutationRequest
<1>2. /\ d.items \in [ItemIds -> Item \cup {None}]
      /\ d.receipts \in [Keys -> ReceiptRow \cup {None}]
      /\ d.operations \in SUBSET OperationRow
  BY DEF Store
<1>3. /\ item \in Item /\ item # None /\ item.revision = r.expected
      /\ MutationError(item, r.mutation) = None /\ item.revision < MaxI64
      /\ d.receipts[r.key] = None /\ d.high < MaxI64
  BY <1>1, <1>2 DEF CanMutate, CanAppend
<1>4. after \in Item /\ after.revision = item.revision + 1
  BY <1>1, <1>3, MutatedFacts
<1>5. after.revision \in 1..MaxI64
  BY <1>4 DEF Item
<1>6. events \in Seq(Event)
  BY <1>1, <1>3, EventsType
<1> HIDE DEF after, events, item
<1>7. /\ op \in OperationRow /\ op.item = id /\ op.revision = after.revision
      /\ op.expected = item.revision
  BY <1>1, <1>3, <1>5, <1>6 DEF Operation, OperationRow
<1>8. receipt \in ReceiptRow /\ receipt.item = id /\ receipt.revision = after.revision
  BY <1>1, <1>5 DEF Receipt, ReceiptRow
<1> DEFINE items == [d.items EXCEPT ![id] = after]
           receipts == [d.receipts EXCEPT ![r.key] = receipt]
           operations == d.operations \cup {op}
           mid == [d EXCEPT !.items = items, !.operations = operations,
                            !.receipts = receipts]
<1>9. MutatedStore(d, r) = Appended(mid, id, after.revision)
  BY DEF MutatedStore, Store, after, events, item
<1>10. /\ items \in [ItemIds -> Item \cup {None}]
       /\ receipts \in [Keys -> ReceiptRow \cup {None}]
       /\ operations \in SUBSET OperationRow
  BY <1>1, <1>2, <1>4, <1>7, <1>8
<1> HIDE DEF items, receipts, operations
<1>11. /\ mid \in Store(n)
       /\ mid.generation = d.generation /\ mid.sync = d.sync /\ mid.bootstrap = d.bootstrap
       /\ mid.floor = d.floor /\ mid.high = d.high /\ mid.allocated = d.allocated
       /\ mid.rows = d.rows /\ mid.items = items /\ mid.receipts = receipts
       /\ mid.next = d.next /\ mid.operations = operations
  BY <1>10 DEF Store
<1> HIDE DEF mid, op, receipt, id
<1>12. LET e == Appended(mid, id, after.revision)
       IN  /\ e \in Store(n)
           /\ e.generation = d.generation /\ e.sync = d.sync
           /\ e.bootstrap = d.bootstrap /\ e.floor = d.floor
           /\ e.high = d.high + 1 /\ e.allocated = d.allocated + 1
           /\ e.rows = d.rows \cup {JournalRow(d.allocated + 1, id, after.revision)}
           /\ e.next = d.next /\ e.items = items
           /\ e.operations = operations /\ e.receipts = receipts
  BY <1>1, <1>3, <1>5, <1>11, AppendedFacts
<1>13. d.items[id] # None /\ d.items[id].revision = item.revision
  BY <1>3 DEF item
<1>14. Commit(d, MutatedStore(d, r), id, r.key, op, receipt, after)
  BY <1>1, <1>3, <1>4, <1>7, <1>8, <1>9, <1>12, <1>13
     DEF Commit, items, receipts, operations
<1>15. QED BY <1>4, <1>9, <1>12, <1>14 DEF id, op, receipt, after, events, item
-----------------------------------------------------------------------------
(* A commit preserves each property of a store.                            *)

LEMMA CommitAudit ==
    ASSUME NEW n \in Nat, NEW d \in Store(n), NEW e \in Store(n),
           NEW id, NEW k, NEW op, NEW receipt, NEW after,
           Commit(d, e, id, k, op, receipt, after), AuditComplete(d)
    PROVE  AuditComplete(e)
<1>1. /\ id \in ItemIds /\ op.item = id /\ op.revision = after.revision
      /\ e.items = [d.items EXCEPT ![id] = after]
      /\ e.operations = d.operations \cup {op}
      /\ after \in Item /\ after # None /\ after.revision \in 1..MaxI64
  BY DomainAssumption DEF Commit, Item
<1>2. /\ d.items \in [ItemIds -> Item \cup {None}]
      /\ \A x \in ItemIds : d.items[x] # None => d.items[x].revision \in 1..MaxI64
      /\ \A o \in d.operations : o.item \in ItemIds /\ o.revision \in 1..MaxI64
  BY DEF Store, Item, OperationRow
<1>3. /\ e.items[id] = after
      /\ \A x \in ItemIds \ {id} : e.items[x] = d.items[x]
  BY <1>1, <1>2
<1>4. \/ d.items[id] = None /\ after.revision = 1
      \/ /\ d.items[id] # None /\ after.revision = d.items[id].revision + 1
         /\ op.expected = d.items[id].revision
  BY DEF Commit
<1>5. \A o \in d.operations : o.item = id => o.revision < after.revision
  BY <1>1, <1>2, <1>4 DEF AuditComplete
<1>6. ASSUME NEW x \in ItemIds, e.items[x] # None, NEW m \in 1..e.items[x].revision
      PROVE  \E o \in e.operations : o.item = x /\ o.revision = m
  <2>1. CASE x # id
    BY <1>1, <1>3, <1>6, <2>1 DEF AuditComplete
  <2>2. CASE x = id /\ m = after.revision
    BY <1>1, <2>2
  <2>3. CASE x = id /\ m # after.revision
    <3>1. d.items[id] # None /\ m \in 1..d.items[id].revision
      BY <1>1, <1>2, <1>3, <1>4, <1>6, <2>3
    <3>2. QED BY <1>1, <2>3, <3>1 DEF AuditComplete
  <2>4. QED BY <2>1, <2>2, <2>3
<1>7. ASSUME NEW o \in e.operations
      PROVE  /\ e.items[o.item] # None /\ o.revision <= e.items[o.item].revision
             /\ o.revision > 1 => o.expected = o.revision - 1
  <2>1. CASE o = op
    BY <1>1, <1>2, <1>3, <1>4, <2>1
  <2>2. CASE o \in d.operations /\ o.item = id
    BY <1>1, <1>2, <1>3, <1>5, <2>2 DEF AuditComplete
  <2>3. CASE o \in d.operations /\ o.item # id
    BY <1>2, <1>3, <2>3 DEF AuditComplete
  <2>4. QED BY <1>1, <1>7, <2>1, <2>2, <2>3
<1>8. ASSUME NEW o \in e.operations, NEW p \in e.operations,
             o.item = p.item, o.revision = p.revision
      PROVE  o = p
  <2>1. CASE o \in d.operations /\ p \in d.operations
    BY <1>8, <2>1 DEF AuditComplete
  <2>2. CASE o = op /\ p \in d.operations
    BY <1>1, <1>2, <1>5, <1>8, <2>2
  <2>3. CASE o \in d.operations /\ p = op
    BY <1>1, <1>2, <1>5, <1>8, <2>3
  <2>4. QED BY <1>1, <1>8, <2>1, <2>2, <2>3
<1>9. QED BY <1>6, <1>7, <1>8 DEF AuditComplete

LEMMA CommitCoverage ==
    ASSUME NEW n \in Nat, NEW d \in Store(n), NEW e \in Store(n),
           NEW id, NEW k, NEW op, NEW receipt, NEW after,
           Commit(d, e, id, k, op, receipt, after), AuditComplete(d), JournalCoverage(d)
    PROVE  JournalCoverage(e)
<1> DEFINE row == JournalRow(d.high + 1, id, after.revision)
<1>1. /\ id \in ItemIds /\ op.item = id /\ op.revision = after.revision
      /\ e.operations = d.operations \cup {op}
      /\ after \in Item /\ after.revision \in 1..MaxI64
      /\ e.rows = d.rows \cup {row}
      /\ e.floor = d.floor /\ e.high = d.high + 1 /\ e.allocated = e.high
  BY DEF Commit, Item, JournalCoverage
<1>2. row.seq = d.high + 1 /\ row.item = id /\ row.revision = after.revision
  BY DEF JournalRow
<1>3. /\ d.floor \in Nat /\ d.high \in Nat /\ d.floor <= d.high
      /\ \A r \in d.rows : r.seq \in Nat /\ r.revision \in Nat /\ d.floor < r.seq /\ r.seq <= d.high
      /\ \A x \in ItemIds : d.items[x] # None => d.items[x].revision \in 1..MaxI64
      /\ \A o \in d.operations : o.item \in ItemIds /\ o.revision \in 1..MaxI64
  BY DEF JournalCoverage, Store, Row, Item, OperationRow
<1>4. \A r \in d.rows : r.item = id => r.revision < after.revision
  <2>1. \A o \in d.operations : o.item = id => o.revision < after.revision
    BY <1>1, <1>3 DEF AuditComplete, Commit
  <2>2. QED BY <2>1 DEF JournalCoverage
<1> HIDE DEF row
<1>5. \A r \in e.rows : e.floor < r.seq /\ r.seq <= e.high
  BY <1>1, <1>2, <1>3
<1>6. \A m \in (e.floor + 1)..e.high : \E r \in e.rows : r.seq = m
  <2>1. \A m \in (d.floor + 1)..d.high : \E r \in d.rows : r.seq = m
    BY DEF JournalCoverage
  <2>2. QED BY <1>1, <1>2, <1>3, <2>1
<1>7. \A a, b \in e.rows : a.seq = b.seq => a = b
  <2>1. \A a, b \in d.rows : a.seq = b.seq => a = b
    BY DEF JournalCoverage
  <2>2. QED BY <1>1, <1>2, <1>3, <2>1
<1>8. ASSUME NEW a \in e.rows, NEW b \in e.rows, a.item = b.item
      PROVE  a.seq < b.seq <=> a.revision < b.revision
  <2>1. CASE a \in d.rows /\ b \in d.rows
    BY <1>8, <2>1 DEF JournalCoverage
  <2>2. CASE a \in d.rows /\ b = row
    BY <1>1, <1>2, <1>3, <1>4, <1>8, <2>2
  <2>3. CASE a = row /\ b \in d.rows
    BY <1>1, <1>2, <1>3, <1>4, <1>8, <2>3
  <2>4. CASE a = row /\ b = row
    BY <1>1, <1>2, <1>3, <2>4
  <2>5. QED BY <1>1, <1>8, <2>1, <2>2, <2>3, <2>4
<1>9. \A r \in e.rows : \E o \in e.operations : o.item = r.item /\ o.revision = r.revision
  <2>1. \A r \in d.rows : \E o \in d.operations : o.item = r.item /\ o.revision = r.revision
    BY DEF JournalCoverage
  <2>2. QED BY <1>1, <1>2, <2>1
<1>10. e.floor <= e.high
  BY <1>1, <1>3
<1>11. QED BY <1>1, <1>5, <1>6, <1>7, <1>8, <1>9, <1>10 DEF JournalCoverage

LEMMA CommitSequences ==
    ASSUME NEW n \in Nat, NEW d \in Store(n), NEW e \in Store(n),
           NEW id, NEW k, NEW op, NEW receipt, NEW after,
           Commit(d, e, id, k, op, receipt, after), SequencesAhead(d)
    PROVE  SequencesAhead(e)
<1>1. /\ id \in ItemIds /\ after # None
      /\ e.items = [d.items EXCEPT ![id] = after]
  BY DomainAssumption DEF Commit
<1>2. /\ d.items \in [ItemIds -> Item \cup {None}]
      /\ d.next \in [Requesters \X Projects -> 1..MaxI64]
  BY DEF Store
<1>3. SUFFICES ASSUME NEW x \in ItemIds
               PROVE  e.items[x] # None <=> x[3] < e.next[<<x[1], x[2]>>]
  BY DEF SequencesAhead
<1>4. /\ x[3] \in 1..MaxI64 /\ id[3] \in 1..MaxI64
      /\ <<x[1], x[2]>> \in Requesters \X Projects
      /\ <<id[1], id[2]>> \in Requesters \X Projects
      /\ x = <<x[1], x[2], x[3]>> /\ id = <<id[1], id[2], id[3]>>
  BY <1>1 DEF ItemIds
<1>5. d.items[x] # None <=> x[3] < d.next[<<x[1], x[2]>>]
  BY DEF SequencesAhead
<1>6. CASE d.items[id] # None /\ e.next = d.next
  BY <1>1, <1>2, <1>5, <1>6
<1>7. CASE /\ d.items[id] = None
           /\ id[3] = d.next[<<id[1], id[2]>>]
           /\ e.next = [d.next EXCEPT ![<<id[1], id[2]>>] = @ + 1]
  <2>1. CASE <<x[1], x[2]>> # <<id[1], id[2]>>
    <3>1. x # id
      BY <2>1
    <3>2. e.next[<<x[1], x[2]>>] = d.next[<<x[1], x[2]>>]
      BY <1>2, <1>4, <1>7, <2>1
    <3>3. QED BY <1>1, <1>2, <1>5, <3>1, <3>2
  <2>2. CASE <<x[1], x[2]>> = <<id[1], id[2]>> /\ x # id
    <3>1. x[3] # id[3]
      BY <1>4, <2>2
    <3>2. e.next[<<x[1], x[2]>>] = d.next[<<x[1], x[2]>>] + 1
      BY <1>2, <1>4, <1>7, <2>2
    <3>3. d.next[<<x[1], x[2]>>] = id[3]
      BY <1>7, <2>2
    <3>4. e.items[x] = d.items[x]
      BY <1>1, <1>2, <2>2
    <3>5. QED BY <1>4, <1>5, <3>1, <3>2, <3>3, <3>4
  <2>3. CASE x = id
    <3>1. e.next[<<id[1], id[2]>>] = id[3] + 1
      BY <1>2, <1>4, <1>7
    <3>2. QED BY <1>1, <1>2, <1>4, <2>3, <3>1
  <2>4. QED BY <2>1, <2>2, <2>3
<1>8. QED BY <1>6, <1>7 DEF Commit

(* The counts of EffectsCounted, with the finiteness they rest on.         *)
Receipted(d) == {k \in Keys : d.receipts[k] # None}
Counted(d) ==
    /\ IsFiniteSet(d.operations) /\ IsFiniteSet(Receipted(d))
    /\ EffectsCounted(d)

LEMMA CommitCounts ==
    ASSUME NEW n \in Nat, NEW d \in Store(n), NEW e \in Store(n),
           NEW id, NEW k, NEW op, NEW receipt, NEW after,
           Commit(d, e, id, k, op, receipt, after), AuditComplete(d), Counted(d)
    PROVE  Counted(e)
<1>1. /\ id \in ItemIds /\ k \in Keys /\ receipt # None /\ d.receipts[k] = None
      /\ op.item = id /\ op.revision = after.revision
      /\ receipt.item = op.item /\ receipt.revision = op.revision
      /\ e.operations = d.operations \cup {op}
      /\ e.receipts = [d.receipts EXCEPT ![k] = receipt]
      /\ e.high = d.high + 1
  BY LedgerAssumption DEF Commit
<1>2. d.receipts \in [Keys -> ReceiptRow \cup {None}] /\ d.high \in Nat
  BY DEF Store
<1>3. op \notin d.operations
  <2>1. /\ \A o \in d.operations : o.item \in ItemIds
        /\ \A x \in ItemIds : d.items[x] # None => d.items[x].revision \in 1..MaxI64
    BY DEF Store, Item, OperationRow
  <2>2. \A o \in d.operations : d.items[o.item] # None /\ o.revision <= d.items[o.item].revision
    BY DEF AuditComplete
  <2>3. \/ d.items[id] = None
        \/ d.items[id] # None /\ op.revision = d.items[id].revision + 1
    BY DEF Commit
  <2>4. QED BY <1>1, <2>1, <2>2, <2>3
<1>4. Receipted(e) = Receipted(d) \cup {k} /\ k \notin Receipted(d)
  BY <1>1, <1>2 DEF Receipted
<1>5. /\ IsFiniteSet(e.operations)
      /\ Cardinality(e.operations) = Cardinality(d.operations) + 1
  <2>1. IsFiniteSet(d.operations)
    BY DEF Counted
  <2>2. /\ IsFiniteSet(d.operations \cup {op})
        /\ Cardinality(d.operations \cup {op}) = Cardinality(d.operations) + 1
    BY <1>3, <2>1, FS_AddElement
  <2>3. QED BY <1>1, <2>2
<1>6. /\ IsFiniteSet(Receipted(e))
      /\ Cardinality(Receipted(e)) = Cardinality(Receipted(d)) + 1
  BY <1>4, FS_AddElement DEF Counted
<1>7. Cardinality(e.operations) = e.high /\ Cardinality(Receipted(e)) = e.high
  <2>1. Cardinality(d.operations) = d.high /\ Cardinality(Receipted(d)) = d.high
    BY DEF Counted, EffectsCounted, Receipted
  <2>2. QED BY <1>1, <1>2, <1>5, <1>6, <2>1
<1>8. ASSUME NEW o \in e.operations
      PROVE  \E j \in Keys : /\ e.receipts[j] # None
                            /\ e.receipts[j].item = o.item
                            /\ e.receipts[j].revision = o.revision
  <2>1. CASE o = op
    <3>1. e.receipts[k] = receipt
      BY <1>1, <1>2
    <3>2. QED BY <1>1, <2>1, <3>1
  <2>2. CASE o \in d.operations
    <3>1. PICK j \in Keys : /\ d.receipts[j] # None
                            /\ d.receipts[j].item = o.item
                            /\ d.receipts[j].revision = o.revision
      BY <2>2 DEF Counted, EffectsCounted
    <3>2. j # k /\ e.receipts[j] = d.receipts[j]
      BY <1>1, <1>2, <3>1
    <3>3. QED BY <3>1, <3>2
  <2>3. QED BY <1>1, <1>8, <2>1, <2>2
<1>9. QED BY <1>5, <1>6, <1>7, <1>8 DEF Counted, EffectsCounted, Receipted

(* A commit continues the store it started from.                           *)
LEMMA CommitContinues ==
    ASSUME NEW n \in Nat, NEW d \in Store(n), NEW e \in Store(n),
           NEW id, NEW k, NEW op, NEW receipt, NEW after,
           Commit(d, e, id, k, op, receipt, after), d.allocated = d.high
    PROVE  Continues(d, e)
<1>1. /\ d.high \in Nat /\ d.floor \in Nat
      /\ d.receipts \in [Keys -> ReceiptRow \cup {None}]
      /\ \A row \in d.rows : row.seq \in Nat
  BY DEF Store, Row
<1>2. /\ e.high = d.high + 1 /\ e.floor = d.floor
      /\ d.operations \subseteq e.operations
      /\ e.rows = d.rows \cup {JournalRow(d.high + 1, id, after.revision)}
      /\ k \in Keys /\ d.receipts[k] = None
      /\ e.receipts = [d.receipts EXCEPT ![k] = receipt]
  BY DEF Commit
<1>3. \A j \in Keys : d.receipts[j] # None => e.receipts[j] = d.receipts[j]
  BY <1>1, <1>2
<1>4. \A row \in e.rows : row.seq <= d.high => row \in d.rows
  <2>1. JournalRow(d.high + 1, id, after.revision).seq = d.high + 1
    BY DEF JournalRow
  <2>2. QED BY <1>1, <1>2, <2>1
<1>5. QED BY <1>1, <1>2, <1>3, <1>4 DEF Continues

-----------------------------------------------------------------------------
(* Pruning, and the two changes of flags, keep everything but the feed.    *)

LEMMA PrunedFacts ==
    ASSUME NEW n \in Nat, NEW d \in Store(n), NEW through \in d.floor..d.high,
           JournalCoverage(d)
    PROVE  LET e == Pruned(d, through)
           IN  /\ e \in Store(n) /\ e.generation = d.generation /\ e.sync = d.sync
               /\ e.high = d.high /\ e.operations = d.operations
               /\ e.items = d.items /\ e.next = d.next /\ e.receipts = d.receipts
               /\ JournalCoverage(e)
               /\ Continues(d, e)
               /\ e.rows \subseteq d.rows
<1> DEFINE e == Pruned(d, through)
           kept == {row \in d.rows : row.seq > through}
<1>1. /\ d.floor \in 0..MaxI64 /\ d.high \in 0..MaxI64 /\ d.rows \in SUBSET Row
      /\ \A row \in d.rows : row.seq \in 1..MaxI64
  BY DEF Store, Row
<1>2. through \in 0..MaxI64 /\ through \in Nat
  BY <1>1, DomainAssumption
<1>3. kept \in SUBSET Row /\ kept \subseteq d.rows
  BY <1>1
<1>4. e = [d EXCEPT !.rows = kept, !.floor = through]
  BY DEF Pruned
<1> HIDE DEF kept, e
<1>5. /\ e \in Store(n) /\ e.generation = d.generation /\ e.sync = d.sync
      /\ e.high = d.high /\ e.allocated = d.allocated /\ e.operations = d.operations
      /\ e.items = d.items /\ e.next = d.next /\ e.receipts = d.receipts
      /\ e.rows = kept /\ e.floor = through
  BY <1>2, <1>3, <1>4 DEF Store
<1>6. JournalCoverage(e)
  <2>1. \A row \in e.rows : row \in d.rows /\ e.floor < row.seq /\ row.seq <= e.high
    BY <1>1, <1>2, <1>5 DEF kept, JournalCoverage
  <2>2. \A m \in (e.floor + 1)..e.high : \E row \in e.rows : row.seq = m
    <3>1. SUFFICES ASSUME NEW m \in (e.floor + 1)..e.high
                   PROVE  \E row \in e.rows : row.seq = m
      OBVIOUS
    <3>2. m \in (d.floor + 1)..d.high /\ m > through
      BY <1>1, <1>2, <1>5
    <3>3. PICK row \in d.rows : row.seq = m
      BY <3>2 DEF JournalCoverage
    <3>4. row \in kept
      BY <3>2, <3>3 DEF kept
    <3>5. QED BY <1>5, <3>3, <3>4
  <2>3. e.floor <= e.high /\ e.allocated = e.high
    BY <1>1, <1>5 DEF JournalCoverage
  <2>4. QED BY <1>5, <2>1, <2>2, <2>3 DEF JournalCoverage
<1>7. Continues(d, e)
  <2>1. \A row \in d.rows : row.seq > e.floor => row \in e.rows
    BY <1>5 DEF kept
  <2>2. d.high <= e.high /\ d.floor <= e.floor
    BY <1>1, <1>2, <1>5
  <2>3. QED BY <1>3, <1>5, <2>1, <2>2 DEF Continues
<1>8. QED BY <1>3, <1>5, <1>6, <1>7 DEF e

LEMMA ContinuesReflexive ==
    ASSUME NEW n \in Nat, NEW d \in Store(n)
    PROVE  Continues(d, d)
<1>1. d.high \in Int /\ d.floor \in Int
  BY DEF Store
<1>2. QED BY <1>1 DEF Continues

LEMMA ContinuesTransitive ==
    ASSUME NEW n \in Nat, NEW c \in Store(n), NEW d \in Store(n), NEW e \in Store(n),
           Continues(c, d), Continues(d, e)
    PROVE  Continues(c, e)
<1>1. /\ c.high \in Nat /\ d.high \in Nat /\ e.high \in Nat
      /\ c.floor \in Nat /\ d.floor \in Nat /\ e.floor \in Nat
      /\ \A row \in c.rows : row.seq \in Nat
      /\ \A row \in e.rows : row.seq \in Nat
  BY DEF Store, Row
<1>2. c.high <= e.high /\ c.floor <= e.floor /\ c.operations \subseteq e.operations
  BY <1>1 DEF Continues
<1>3. \A k \in Keys : c.receipts[k] # None => e.receipts[k] = c.receipts[k]
  BY DEF Continues
<1>4. \A row \in e.rows : row.seq <= c.high => row \in c.rows
  BY <1>1 DEF Continues
<1>5. \A row \in c.rows : row.seq > e.floor => row \in e.rows
  BY <1>1 DEF Continues
<1>6. QED BY <1>2, <1>3, <1>4, <1>5 DEF Continues

-----------------------------------------------------------------------------
(* validate_journal accepts every store whose journal covers its window:   *)
(* the count it makes is the width of the window.                          *)
RowsNameProject(d) == \A row \in d.rows : row.project = ProjectOf(row.item)

LEMMA CoverageIsValid ==
    ASSUME NEW n \in Nat, NEW d \in Store(n),
           AuditComplete(d), JournalCoverage(d), RowsNameProject(d)
    PROVE  ValidJournal(d)
<1> DEFINE window == (d.floor + 1)..d.high
           covered == {row \in d.rows : d.floor < row.seq /\ row.seq <= d.high}
<1>1. /\ d.floor \in Nat /\ d.high \in Nat /\ d.floor <= d.high
      /\ \A row \in d.rows : row.seq \in Nat
  BY DEF Store, JournalCoverage, Row
<1>2. IsFiniteSet(window) /\ Cardinality(window) = d.high - d.floor
  <2>1. d.floor + 1 \in Int /\ d.high \in Int
    BY <1>1
  <2>2. /\ IsFiniteSet(window)
        /\ Cardinality(window) = IF d.floor + 1 > d.high THEN 0 ELSE d.high - (d.floor + 1) + 1
    BY <2>1, FS_Interval
  <2> HIDE DEF window
  <2>3. QED BY <1>1, <2>2
<1>3. ExistsBijection(window, covered)
  <2> DEFINE at == [m \in window |-> CHOOSE row \in d.rows : row.seq = m]
  <2>1. \A m \in window : at[m] \in d.rows /\ at[m].seq = m
    <3>1. \A m \in window : \E row \in d.rows : row.seq = m
      BY DEF JournalCoverage
    <3> HIDE DEF window
    <3>2. QED BY <3>1
  <2>2. at \in [window -> covered]
    <3>1. \A m \in window : d.floor < m /\ m <= d.high
      BY <1>1
    <3> HIDE DEF window, at
    <3>2. \A m \in window : at[m] \in covered
      BY <2>1, <3>1
    <3> USE DEF at
    <3> HIDE DEF covered
    <3>3. QED BY <3>2
  <2>3. \A a, b \in window : at[a] = at[b] => a = b
    BY <2>1
  <2>4. \A row \in covered : \E m \in window : at[m] = row
    <3>1. SUFFICES ASSUME NEW row \in covered PROVE at[row.seq] = row /\ row.seq \in window
      OBVIOUS
    <3>2. row.seq \in window
      BY <1>1
    <3>3. QED BY <2>1, <3>2 DEF JournalCoverage
  <2> HIDE DEF at
  <2>5. at \in Bijection(window, covered)
    BY <2>2, <2>3, <2>4, Fun_IsBij
  <2>6. QED BY <2>5 DEF ExistsBijection
<1>4. Cardinality(covered) = d.high - d.floor
  BY <1>2, <1>3, FS_Bijection
<1>5. \A row \in d.rows :
        /\ row.seq <= d.high
        /\ \E o \in d.operations : o.item = row.item /\ o.revision = row.revision
        /\ row.project = ProjectOf(row.item)
        /\ d.items[row.item] # None /\ row.revision <= d.items[row.item].revision
  BY DEF JournalCoverage, RowsNameProject, AuditComplete
<1>6. QED BY <1>4, <1>5 DEF ValidJournal, JournalCoverage

-----------------------------------------------------------------------------
(* The properties of one store, together.                                  *)
StoreInv(d) ==
    /\ AuditComplete(d) /\ JournalCoverage(d) /\ SequencesAhead(d)
    /\ RowsNameProject(d) /\ Counted(d)

LEMMA EmptyStoreInvariant == EmptyStore \in Store(1) /\ StoreInv(EmptyStore)
<1>1. EmptyStore \in Store(1)
  BY DomainAssumption DEF EmptyStore, Store
<1>2. AuditComplete(EmptyStore)
  BY DEF EmptyStore, AuditComplete
<1>3. JournalCoverage(EmptyStore)
  BY DEF EmptyStore, JournalCoverage
<1>4. SequencesAhead(EmptyStore)
  <2>1. SUFFICES ASSUME NEW id \in ItemIds
                 PROVE  ~ id[3] < [p \in Requesters \X Projects |-> 1][<<id[1], id[2]>>]
    BY DEF EmptyStore, SequencesAhead
  <2>2. id[3] \in 1..MaxI64 /\ <<id[1], id[2]>> \in Requesters \X Projects
    BY DEF ItemIds
  <2>3. QED BY <2>2, DomainAssumption
<1>5. RowsNameProject(EmptyStore)
  BY DEF EmptyStore, RowsNameProject
<1>6. Counted(EmptyStore)
  <2>1. Receipted(EmptyStore) = {} /\ EmptyStore.operations = {} /\ EmptyStore.high = 0
    BY DEF EmptyStore, Receipted
  <2>2. QED BY <2>1, FS_EmptySet DEF Counted, EffectsCounted, Receipted
<1>7. QED BY <1>1, <1>2, <1>3, <1>4, <1>5, <1>6 DEF StoreInv

LEMMA CommitInvariant ==
    ASSUME NEW n \in Nat, NEW d \in Store(n), NEW e \in Store(n),
           NEW id, NEW k, NEW op, NEW receipt, NEW after,
           Commit(d, e, id, k, op, receipt, after), StoreInv(d)
    PROVE  StoreInv(e) /\ Continues(d, e)
<1>1. d.allocated = d.high
  BY DEF StoreInv, JournalCoverage
<1>2. RowsNameProject(e)
  BY DEF StoreInv, RowsNameProject, Commit, JournalRow
<1>3. AuditComplete(e)
  BY CommitAudit DEF StoreInv
<1>4. JournalCoverage(e)
  BY CommitCoverage DEF StoreInv
<1>5. SequencesAhead(e)
  BY CommitSequences DEF StoreInv
<1>6. Counted(e)
  BY CommitCounts DEF StoreInv
<1>7. Continues(d, e)
  BY <1>1, CommitContinues
<1>8. QED BY <1>2, <1>3, <1>4, <1>5, <1>6, <1>7 DEF StoreInv

(* The generation and the flags of a store are no part of its contents.    *)
LEMMA FlagsInvariant ==
    ASSUME NEW n \in Nat, NEW d \in Store(n), StoreInv(d),
           NEW e, e.floor = d.floor, e.high = d.high, e.allocated = d.allocated,
           e.rows = d.rows, e.next = d.next, e.items = d.items,
           e.operations = d.operations, e.receipts = d.receipts
    PROVE  StoreInv(e) /\ Continues(d, e)
<1>1. Continues(d, d)
  BY ContinuesReflexive
<1>2. Continues(d, e)
  BY <1>1 DEF Continues
<1>3. AuditComplete(e)
  BY DEF StoreInv, AuditComplete
<1>4. JournalCoverage(e)
  BY DEF StoreInv, JournalCoverage
<1>5. SequencesAhead(e)
  BY DEF StoreInv, SequencesAhead
<1>6. RowsNameProject(e)
  BY DEF StoreInv, RowsNameProject
<1>7. Counted(e)
  BY DEF StoreInv, Counted, EffectsCounted, Receipted
<1>8. QED BY <1>2, <1>3, <1>4, <1>5, <1>6, <1>7 DEF StoreInv

LEMMA PrunedInvariant ==
    ASSUME NEW n \in Nat, NEW d \in Store(n), NEW through \in d.floor..d.high, StoreInv(d)
    PROVE  StoreInv(Pruned(d, through)) /\ Continues(d, Pruned(d, through))
<1> DEFINE e == Pruned(d, through)
<1>1. /\ e.high = d.high /\ e.operations = d.operations
      /\ e.items = d.items /\ e.next = d.next /\ e.receipts = d.receipts
      /\ JournalCoverage(e) /\ Continues(d, e) /\ e.rows \subseteq d.rows
  BY PrunedFacts DEF StoreInv
<1> HIDE DEF e
<1>2. AuditComplete(e)
  BY <1>1 DEF StoreInv, AuditComplete
<1>3. SequencesAhead(e)
  BY <1>1 DEF StoreInv, SequencesAhead
<1>4. RowsNameProject(e)
  BY <1>1 DEF StoreInv, RowsNameProject
<1>5. Counted(e)
  BY <1>1 DEF StoreInv, Counted, EffectsCounted, Receipted
<1>6. QED BY <1>1, <1>2, <1>3, <1>4, <1>5 DEF StoreInv, e

-----------------------------------------------------------------------------
(* The store and its operator.                                             *)


(* The current store is the latest of its generation.                      *)
CurrentIsLatest == \A d \in backups : d.generation = db.generation => Continues(d, db)

BackupsAgree ==
    \A d, e \in backups :
        d.generation = e.generation => Continues(d, e) \/ Continues(e, d)

IInv ==
    /\ TypeOK
    /\ \A d \in Stores : StoreInv(d)
    /\ CurrentIsLatest
    /\ BackupsAgree
    /\ AcknowledgedSurvives

(* What GrowsWithinGeneration says of one step.                            *)
Grows ==
    IF db'.generation = db.generation
    THEN Continues(db, db') /\ (db.sync => db'.sync)
    ELSE /\ db'.generation > drawn
         /\ ~db'.sync /\ db'.bootstrap

(* The parts of the invariant a step starts from.                          *)
LEMMA Current ==
    ASSUME IInv
    PROVE  /\ drawn \in Nat /\ drawn \in 1..MaxGenerations
           /\ db \in Store(drawn) /\ db.generation \in 1..drawn
           /\ StoreInv(db) /\ JournalCoverage(db) /\ db.allocated = db.high
           /\ \A d \in backups : d \in Store(drawn) /\ StoreInv(d)
<1>1. drawn \in Nat /\ drawn \in 1..MaxGenerations
  BY LedgerAssumption DEF IInv, TypeOK
<1>2. \A d \in backups \cup {db} : d \in Store(drawn) /\ StoreInv(d)
  BY DEF IInv, TypeOK, Stores
<1>3. db.generation \in 1..drawn
  BY <1>2 DEF Store
<1>4. JournalCoverage(db) /\ db.allocated = db.high
  BY <1>2 DEF StoreInv, JournalCoverage
<1>5. QED BY <1>1, <1>2, <1>3, <1>4

LEMMA InitInvariant == Init => IInv
<1> SUFFICES ASSUME Init PROVE IInv
  OBVIOUS
<1>1. db \in Store(1) /\ StoreInv(db) /\ backups = {} /\ drawn = 1 /\ acked = {}
  BY EmptyStoreInvariant DEF Init
<1>2. 1 \in 1..MaxGenerations
  BY LedgerAssumption
<1>3. handle \in [Writers -> 1..drawn \cup {None}]
  BY DEF Init
<1>4. QED BY <1>1, <1>2, <1>3
  DEF IInv, TypeOK, Stores, CurrentIsLatest, BackupsAgree, AcknowledgedSurvives

(* A step that stays in its generation: it may only extend the current     *)
(* store, and report what that store now holds a receipt for.              *)
LEMMA WithinGeneration ==
    ASSUME IInv, drawn' = drawn, backups' = backups,
           handle' \in [Writers -> 1..drawn \cup {None}],
           db' \in Store(drawn), StoreInv(db'), Continues(db, db'),
           db'.generation = db.generation, db.sync => db'.sync,
           \A a \in acked' :
              \/ a \in acked
              \/ /\ a \in [pin : 1..drawn, key : Keys, item : ItemIds, revision : 1..MaxI64]
                 /\ a.pin = db.generation /\ db'.receipts[a.key] # None
                 /\ db'.receipts[a.key].item = a.item
                 /\ db'.receipts[a.key].revision = a.revision
    PROVE  IInv' /\ Grows
<1>1. Grows
  BY DEF Grows
<1>2. TypeOK'
  BY DEF IInv, TypeOK, Stores
<1>3. \A d \in Stores' : StoreInv(d)
  BY DEF IInv, Stores
<1>4. CurrentIsLatest'
  <2>1. SUFFICES ASSUME NEW d \in backups, d.generation = db.generation
                 PROVE  Continues(d, db')
    BY DEF CurrentIsLatest
  <2>2. Continues(d, db)
    BY <2>1 DEF IInv, CurrentIsLatest
  <2>3. QED BY <2>2, Current, ContinuesTransitive
<1>5. BackupsAgree'
  BY DEF IInv, BackupsAgree
<1>6. AcknowledgedSurvives'
  <2>1. SUFFICES ASSUME NEW a \in acked'
                 PROVE  \E d \in Stores' :
                           /\ d.generation = a.pin
                           /\ d.receipts[a.key] # None
                           /\ d.receipts[a.key].item = a.item
                           /\ d.receipts[a.key].revision = a.revision
    BY DEF AcknowledgedSurvives
  <2>2. CASE a \in acked
    <3>1. PICK d \in Stores : /\ d.generation = a.pin
                              /\ d.receipts[a.key] # None
                              /\ d.receipts[a.key].item = a.item
                              /\ d.receipts[a.key].revision = a.revision
      BY <2>2 DEF IInv, AcknowledgedSurvives
    <3>2. CASE d \in backups
      BY <3>1, <3>2 DEF Stores
    <3>3. CASE d = db
      <4>1. a.key \in Keys
        BY <2>2 DEF IInv, TypeOK
      <4>2. db'.receipts[a.key] = db.receipts[a.key]
        BY <3>1, <3>3, <4>1 DEF Continues
      <4>3. QED BY <3>1, <3>3, <4>2 DEF Stores
    <3>4. QED BY <3>2, <3>3 DEF Stores
  <2>3. CASE a \notin acked
    BY <2>3 DEF Stores
  <2>4. QED BY <2>2, <2>3
<1>7. QED BY <1>1, <1>2, <1>3, <1>4, <1>5, <1>6 DEF IInv

(* What Admitted leaves of a pin: it is the current generation.            *)
LEMMA AdmittedPin ==
    ASSUME IInv, NEW w \in Writers, Admitted(w)
    PROVE  handle[w] = db.generation /\ handle[w] \in 1..drawn
BY Current DEF Admitted

LEMMA OpenStep ==
    ASSUME IInv, NEW w \in Writers, Open(w)
    PROVE  IInv' /\ Grows
<1>1. Continues(db, db)
  BY Current, ContinuesReflexive
<1>2. handle' \in [Writers -> 1..drawn \cup {None}]
  BY Current DEF Open, IInv, TypeOK
<1>3. QED BY <1>1, <1>2, Current, WithinGeneration DEF Open

LEMMA CaptureStep ==
    ASSUME IInv, NEW w \in Writers, NEW r \in CaptureRequest, Capture(w, r)
    PROVE  IInv' /\ Grows
<1> DEFINE id == NextId(db, r)
           op == Operation(id, 1, None, <<Change("captured", None, None)>>, r.by)
           receipt == Receipt(CaptureHash(r), id, 1, r)
           after == NewItem(r.content)
<1>1. CanCapture(db, r) /\ db' = Captured(db, r)
  BY DEF Capture
<1>2. db' \in Store(drawn) /\ Commit(db, db', id, r.key, op, receipt, after)
  BY <1>1, Current, CapturedCommits
<1>3. receipt.item = id /\ receipt.revision = 1
  BY DEF Receipt
<1>4. r.key \in Keys
  BY DEF CaptureRequest
<1> HIDE DEF id, op, receipt, after
<1>5. StoreInv(db') /\ Continues(db, db')
  BY <1>2, Current, CommitInvariant
<1>6. /\ db'.generation = db.generation /\ db'.sync = db.sync
      /\ id \in ItemIds /\ receipt # None
      /\ db'.receipts = [db.receipts EXCEPT ![r.key] = receipt]
  BY <1>2, LedgerAssumption DEF Commit
<1>7. db'.receipts[r.key] = receipt
  BY <1>4, <1>6, Current DEF Store
<1>8. acked' = acked \cup {[pin |-> handle[w], key |-> r.key, item |-> id, revision |-> 1]}
  BY DEF Capture, Ack, id
<1>9. handle[w] = db.generation /\ handle[w] \in 1..drawn
  BY AdmittedPin DEF Capture
<1>10. 1 \in 1..MaxI64
  BY DomainAssumption
<1>11. \A a \in acked' :
          \/ a \in acked
          \/ /\ a \in [pin : 1..drawn, key : Keys, item : ItemIds, revision : 1..MaxI64]
             /\ a.pin = db.generation /\ db'.receipts[a.key] # None
             /\ db'.receipts[a.key].item = a.item
             /\ db'.receipts[a.key].revision = a.revision
  BY <1>3, <1>4, <1>6, <1>7, <1>8, <1>9, <1>10
<1>12. /\ drawn' = drawn /\ backups' = backups
       /\ handle' \in [Writers -> 1..drawn \cup {None}]
  BY DEF Capture, IInv, TypeOK
<1>13. QED BY <1>2, <1>5, <1>6, <1>11, <1>12, WithinGeneration

LEMMA MutateStep ==
    ASSUME IInv, NEW w \in Writers, NEW r \in MutationRequest, Mutate(w, r)
    PROVE  IInv' /\ Grows
<1> DEFINE item == db.items[r.item]
           after == Mutated(item, r.mutation)
           op == Operation(r.item, after.revision, r.expected,
                           EventsOf(item, r.mutation), r.by)
           receipt == Receipt(MutationHash(r), r.item, after.revision, r)
<1>1. CanMutate(db, r) /\ db' = MutatedStore(db, r)
  BY DEF Mutate
<1>2. /\ db' \in Store(drawn) /\ after.revision = item.revision + 1
      /\ Commit(db, db', r.item, r.key, op, receipt, after)
  BY <1>1, Current, MutatedCommits
<1>3. receipt.item = r.item /\ receipt.revision = after.revision
  BY DEF Receipt
<1>4. r.key \in Keys /\ r.item \in ItemIds
  BY DEF MutationRequest
<1> HIDE DEF item, op, receipt, after
<1>5. StoreInv(db') /\ Continues(db, db')
  BY <1>2, Current, CommitInvariant
<1>6. /\ db'.generation = db.generation /\ db'.sync = db.sync
      /\ receipt # None /\ after \in Item
      /\ db'.receipts = [db.receipts EXCEPT ![r.key] = receipt]
  BY <1>2, LedgerAssumption DEF Commit
<1>7. db'.receipts[r.key] = receipt
  BY <1>4, <1>6, Current DEF Store
<1>8. acked' = acked \cup
        {[pin |-> handle[w], key |-> r.key, item |-> r.item, revision |-> after.revision]}
  BY <1>2 DEF Mutate, Ack, item
<1>9. handle[w] = db.generation /\ handle[w] \in 1..drawn
  BY AdmittedPin DEF Mutate
<1>10. after.revision \in 1..MaxI64
  BY <1>6 DEF Item
<1>11. \A a \in acked' :
          \/ a \in acked
          \/ /\ a \in [pin : 1..drawn, key : Keys, item : ItemIds, revision : 1..MaxI64]
             /\ a.pin = db.generation /\ db'.receipts[a.key] # None
             /\ db'.receipts[a.key].item = a.item
             /\ db'.receipts[a.key].revision = a.revision
  BY <1>3, <1>4, <1>6, <1>7, <1>8, <1>9, <1>10
<1>12. /\ drawn' = drawn /\ backups' = backups
       /\ handle' \in [Writers -> 1..drawn \cup {None}]
  BY DEF Mutate, IInv, TypeOK
<1>13. QED BY <1>2, <1>5, <1>6, <1>11, <1>12, WithinGeneration

LEMMA ReplayStep ==
    ASSUME IInv, NEW w \in Writers, NEW key \in Keys, NEW hash, Replay(w, key, hash)
    PROVE  IInv' /\ Grows
<1>1. /\ db' = db /\ drawn' = drawn /\ backups' = backups
      /\ handle' \in [Writers -> 1..drawn \cup {None}]
  BY DEF Replay, IInv, TypeOK
<1>2. Continues(db, db)
  BY Current, ContinuesReflexive
<1>3. handle[w] = db.generation /\ handle[w] \in 1..drawn
  BY AdmittedPin DEF Replay
<1>4. db.receipts[key] # None /\ db.receipts[key] \in ReceiptRow
  BY Current DEF Replay, Replays, Store
<1>5. db.receipts[key].item \in ItemIds /\ db.receipts[key].revision \in 1..MaxI64
  BY <1>4 DEF ReceiptRow
<1>6. \A a \in acked' :
         \/ a \in acked
         \/ /\ a \in [pin : 1..drawn, key : Keys, item : ItemIds, revision : 1..MaxI64]
            /\ a.pin = db.generation /\ db.receipts[a.key] # None
            /\ db.receipts[a.key].item = a.item
            /\ db.receipts[a.key].revision = a.revision
  BY <1>3, <1>4, <1>5 DEF Replay, Ack
<1>7. QED BY <1>1, <1>2, <1>6, Current, WithinGeneration

LEMMA ActivateStep ==
    ASSUME IInv, NEW generation, Activate(generation)
    PROVE  IInv' /\ Grows
<1>1. db' = [db EXCEPT !.sync = TRUE]
  BY DEF Activate
<1>2. /\ db' \in Store(drawn) /\ db'.generation = db.generation /\ db'.sync
      /\ db'.floor = db.floor /\ db'.high = db.high /\ db'.allocated = db.allocated
      /\ db'.rows = db.rows /\ db'.next = db.next /\ db'.items = db.items
      /\ db'.operations = db.operations /\ db'.receipts = db.receipts
  BY <1>1, Current DEF Store
<1>3. StoreInv(db') /\ Continues(db, db')
  BY <1>2, Current, FlagsInvariant
<1>4. /\ drawn' = drawn /\ backups' = backups /\ acked' = acked
      /\ handle' \in [Writers -> 1..drawn \cup {None}]
  BY DEF Activate, IInv, TypeOK
<1>5. QED BY <1>2, <1>3, <1>4, WithinGeneration

LEMMA PruneStep ==
    ASSUME IInv, NEW generation, NEW through \in 0..db.high, Prune(generation, through)
    PROVE  IInv' /\ Grows
<1>1. through \in db.floor..db.high /\ db' = Pruned(db, through)
  BY Current DEF Prune, Store
<1>2. /\ db' \in Store(drawn) /\ db'.generation = db.generation /\ db'.sync = db.sync
      /\ StoreInv(db') /\ Continues(db, db')
  BY <1>1, Current, PrunedFacts, PrunedInvariant
<1>3. /\ drawn' = drawn /\ backups' = backups /\ acked' = acked
      /\ handle' \in [Writers -> 1..drawn \cup {None}]
  BY DEF Prune, IInv, TypeOK
<1>4. QED BY <1>2, <1>3, WithinGeneration

(* The preserved store joins the backups without disturbing their order.   *)
LEMMA PreservedAgree ==
    ASSUME IInv
    PROVE  \A d, e \in backups \cup {db} :
              d.generation = e.generation => Continues(d, e) \/ Continues(e, d)
<1>1. Continues(db, db)
  BY Current, ContinuesReflexive
<1>2. QED BY <1>1 DEF IInv, CurrentIsLatest, BackupsAgree

LEMMA BackupStep ==
    ASSUME IInv, Backup
    PROVE  IInv' /\ Grows
<1>1. /\ backups' = backups \cup {db} /\ db' = db /\ drawn' = drawn
      /\ handle' = handle /\ acked' = acked /\ Stores' = Stores
  BY DEF Backup, Stores
<1>2. Continues(db, db)
  BY Current, ContinuesReflexive
<1>3. Grows
  BY <1>1, <1>2 DEF Grows
<1>4. TypeOK' /\ \A d \in Stores' : StoreInv(d)
  BY <1>1 DEF IInv, TypeOK
<1>5. CurrentIsLatest'
  BY <1>1, <1>2 DEF IInv, CurrentIsLatest
<1>6. BackupsAgree'
  BY <1>1, PreservedAgree DEF BackupsAgree
<1>7. AcknowledgedSurvives'
  BY <1>1 DEF IInv, AcknowledgedSurvives
<1>8. QED BY <1>3, <1>4, <1>5, <1>6, <1>7 DEF IInv

LEMMA LaterGenerations ==
    ASSUME NEW n \in Nat, NEW d \in Store(n)
    PROVE  d \in Store(n + 1)
<1>1. 1..n \subseteq 1..(n + 1)
  OBVIOUS
<1>2. QED BY <1>1 DEF Store

LEMMA RestoreStep ==
    ASSUME IInv, NEW from \in backups, Restore(from)
    PROVE  IInv' /\ Grows
<1>1. /\ backups' = backups \cup {db} /\ drawn' = drawn + 1
      /\ db' = Restored(from, drawn + 1)
      /\ handle' = handle /\ acked' = acked /\ drawn < MaxGenerations
      /\ Stores \subseteq Stores'
  BY DEF Restore, Stores
<1>2. from \in Store(drawn) /\ StoreInv(from) /\ drawn \in Nat
  BY Current
<1>3. /\ db' \in Store(drawn + 1) /\ db'.generation = drawn + 1
      /\ ~db'.sync /\ db'.bootstrap
      /\ db'.floor = from.floor /\ db'.high = from.high /\ db'.allocated = from.allocated
      /\ db'.rows = from.rows /\ db'.next = from.next /\ db'.items = from.items
      /\ db'.operations = from.operations /\ db'.receipts = from.receipts
  <2>1. drawn + 1 \in 1..(drawn + 1)
    BY <1>2
  <2>2. QED BY <1>1, <1>2, <2>1 DEF Restored, Store
<1>4. StoreInv(db')
  BY <1>2, <1>3, FlagsInvariant
<1>5. db.generation \in 1..drawn /\ \A d \in backups : d.generation \in 1..drawn
  BY Current DEF Store
<1>6. Grows
  BY <1>2, <1>3, <1>5 DEF Grows
<1>7. TypeOK'
  <2>1. Stores' \subseteq Store(drawn + 1)
    BY <1>1, <1>2, <1>3, Current, LaterGenerations DEF Stores
  <2>2. drawn' \in 1..MaxGenerations /\ 1..drawn \subseteq 1..drawn'
    BY <1>1, <1>2, LedgerAssumption
  <2>3. handle' \in [Writers -> 1..drawn' \cup {None}]
    BY <1>1, <2>2 DEF IInv, TypeOK
  <2>4. acked' \subseteq [pin : 1..drawn', key : Keys, item : ItemIds, revision : 1..MaxI64]
    BY <1>1, <2>2 DEF IInv, TypeOK
  <2>5. QED BY <1>1, <2>1, <2>2, <2>3, <2>4 DEF TypeOK
<1>8. \A d \in Stores' : StoreInv(d)
  BY <1>1, <1>4, Current DEF Stores
<1>9. CurrentIsLatest'
  BY <1>1, <1>2, <1>3, <1>5 DEF CurrentIsLatest
<1>10. BackupsAgree'
  BY <1>1, PreservedAgree DEF BackupsAgree
<1>11. AcknowledgedSurvives'
  BY <1>1 DEF IInv, AcknowledgedSurvives
<1>12. QED BY <1>6, <1>7, <1>8, <1>9, <1>10, <1>11 DEF IInv

LEMMA StepInvariant == IInv /\ Next => IInv' /\ Grows
<1> SUFFICES ASSUME IInv, Next PROVE IInv' /\ Grows
  OBVIOUS
<1>1. ASSUME NEW w \in Writers, Open(w) PROVE IInv' /\ Grows
  BY <1>1, OpenStep
<1>2. ASSUME NEW w \in Writers, NEW r \in CaptureRequest, Capture(w, r) PROVE IInv' /\ Grows
  BY <1>2, CaptureStep
<1>3. ASSUME NEW w \in Writers, NEW r \in MutationRequest, Mutate(w, r) PROVE IInv' /\ Grows
  BY <1>3, MutateStep
<1>4. ASSUME NEW w \in Writers, NEW r \in CaptureRequest, Replay(w, r.key, CaptureHash(r))
      PROVE  IInv' /\ Grows
  <2>1. r.key \in Keys
    BY DEF CaptureRequest
  <2>2. QED BY <1>4, <2>1, ReplayStep
<1>5. ASSUME NEW w \in Writers, NEW r \in MutationRequest, Replay(w, r.key, MutationHash(r))
      PROVE  IInv' /\ Grows
  <2>1. r.key \in Keys
    BY DEF MutationRequest
  <2>2. QED BY <1>5, <2>1, ReplayStep
<1>6. ASSUME NEW generation \in 1..drawn, Activate(generation) PROVE IInv' /\ Grows
  BY <1>6, ActivateStep
<1>7. ASSUME NEW generation \in 1..drawn, NEW through \in 0..db.high, Prune(generation, through)
      PROVE  IInv' /\ Grows
  BY <1>7, PruneStep
<1>8. CASE Backup
  BY <1>8, BackupStep
<1>9. ASSUME NEW from \in backups, Restore(from) PROVE IInv' /\ Grows
  BY <1>9, RestoreStep
<1>10. QED BY <1>1, <1>2, <1>3, <1>4, <1>5, <1>6, <1>7, <1>8, <1>9 DEF Next

THEOREM Invariant == Spec => []IInv
<1>1. IInv /\ [Next]_vars => IInv'
  <2>1. IInv /\ UNCHANGED vars => IInv'
    BY DEF vars, IInv, TypeOK, Stores, CurrentIsLatest, BackupsAgree, AcknowledgedSurvives
  <2>2. QED BY <2>1, StepInvariant
<1>2. QED BY InitInvariant, <1>1, PTL DEF Spec

-----------------------------------------------------------------------------
(* The rows of the current store and of every backup are well typed.       *)
THEOREM StoreTypes == Spec => []TypeOK
<1>1. IInv => TypeOK
  BY DEF IInv
<1>2. QED BY Invariant, <1>1, PTL

(* No update is lost, repeated or half committed (storage.rs capture_inner *)
(* and mutate): each revision of each item has exactly one operation.      *)
THEOREM AuditKept == Spec => []AuditIsComplete
<1>1. IInv => AuditIsComplete
  BY DEF IInv, StoreInv, AuditIsComplete
<1>2. QED BY Invariant, <1>1, PTL

(* The journal of append_change and its triggers covers (floor, high]      *)
(* without a gap, through every prune, backup and restore.                 *)
THEOREM JournalCovered == Spec => []JournalHasNoGaps
<1>1. IInv => JournalHasNoGaps
  BY DEF IInv, StoreInv, JournalHasNoGaps
<1>2. QED BY Invariant, <1>1, PTL

(* One journal position and one receipt per effect: a retry is never a     *)
(* second effect.                                                          *)
THEOREM EffectsOnce == Spec => []EffectsCountedOnce
<1>1. IInv => EffectsCountedOnce
  BY DEF IInv, StoreInv, Counted, EffectsCountedOnce
<1>2. QED BY Invariant, <1>1, PTL

(* The sequence counter is ahead of every stored item.                     *)
THEOREM SequencesFree == Spec => []SequencesNeverCollide
<1>1. IInv => SequencesNeverCollide
  BY DEF IInv, StoreInv, SequencesNeverCollide
<1>2. QED BY Invariant, <1>1, PTL

(* validate_journal accepts every store that the program can produce.      *)
THEOREM MaintenanceAccepted == Spec => []MaintenanceNeverRefused
<1>1. IInv => MaintenanceNeverRefused
  <2>1. SUFFICES ASSUME IInv, NEW d \in Stores PROVE ValidJournal(d)
    BY DEF MaintenanceNeverRefused
  <2>2. d \in Store(drawn) /\ StoreInv(d) /\ drawn \in Nat
    BY <2>1, Current DEF Stores
  <2>3. QED BY <2>2, CoverageIsValid DEF StoreInv
<1>2. QED BY Invariant, <1>1, PTL

(* A generation names one history: stores of one generation are ordered by *)
(* continuation.                                                           *)
THEOREM OneHistory == Spec => []GenerationNamesOneHistory
<1>1. IInv => GenerationNamesOneHistory
  BY PreservedAgree DEF GenerationNamesOneHistory, Stores
<1>2. QED BY Invariant, <1>1, PTL

(* No acknowledged write is lost by maintenance::restore.                  *)
THEOREM AcknowledgedKept == Spec => []AcknowledgedSurvives
<1>1. IInv => AcknowledgedSurvives
  BY DEF IInv
<1>2. QED BY Invariant, <1>1, PTL

(* A store only grows within its generation, and leaves it for a new one.  *)
THEOREM Growing == Spec => GrowsWithinGeneration
<1>1. IInv /\ [Next]_vars => [Grows]_vars
  BY StepInvariant
<1>2. QED BY Invariant, <1>1, PTL DEF Spec, GrowsWithinGeneration, Grows

-----------------------------------------------------------------------------
(* Receipts and the requests they answer for.                              *)

(* A receipt has its request's key and its request's hash.                  *)
ReceiptsAnswer(d) ==
    \A k \in Keys : d.receipts[k] # None =>
        /\ d.receipts[k].request.key = k
        /\ \/ /\ d.receipts[k].request \in CaptureRequest
              /\ d.receipts[k].hash = CaptureHash(d.receipts[k].request)
           \/ /\ d.receipts[k].request \in MutationRequest
              /\ d.receipts[k].hash = MutationHash(d.receipts[k].request)

LEMMA CaptureHashTells ==
    ASSUME NEW r \in CaptureRequest, NEW q \in CaptureRequest, r.key = q.key,
           CaptureHash(r) = CaptureHash(q)
    PROVE  SameCapture(r, q)
<1>1. r.requester = q.requester /\ r.project = q.project /\ r.content = q.content
  BY DEF CaptureHash
<1>2. QED BY <1>1 DEF CaptureRequest, SameCapture

LEMMA AssigneesApart ==
    ASSUME HashedApart, NEW f \in Field(Assignees), NEW g \in Field(Assignees),
           AssigneeField(f) = AssigneeField(g)
    PROVE  f = g
<1>1. None # "clear" /\ "clear" \notin Assignees /\ None \notin Assignees
  BY DomainAssumption DEF HashedApart
<1>2. ASSUME NEW x \in Field(Assignees)
      PROVE  \/ x = Omitted /\ AssigneeField(x) = None
             \/ x = Clear /\ AssigneeField(x) = "clear"
             \/ x # Omitted /\ x # Clear /\ x = Set(x[2]) /\ x[2] \in Assignees
                /\ AssigneeField(x) = x[2]
  BY DEF Field, AssigneeField, Omitted, Clear, Set
<1>3. QED BY <1>1, <1>2

LEMMA MutationHashTells ==
    ASSUME HashedApart, NEW r \in MutationRequest, NEW q \in MutationRequest, r.key = q.key,
           MutationHash(r) = MutationHash(q)
    PROVE  r = q
<1> DEFINE m == r.mutation
           n == q.mutation
           triage(x) == IF x.triage THEN TriageFields(x) ELSE None
           reason(x) == IF NeedsReason(x.lifecycle) THEN x.reason ELSE None
<1>1. m \in Mutations /\ n \in Mutations /\ m \in Mutation /\ n \in Mutation
  BY LedgerAssumption DEF MutationRequest
<1>2. /\ r.item = q.item /\ r.expected = q.expected /\ r.by = q.by
      /\ m.lifecycle = n.lifecycle /\ reason(m) = reason(n) /\ triage(m) = triage(n)
  BY DEF MutationHash, TriageFields
<1>3. m.triage \in BOOLEAN /\ n.triage \in BOOLEAN
  BY <1>1 DEF Mutation
<1>4. m.triage = n.triage
  BY <1>1, <1>2, <1>3 DEF HashedApart
<1>5. ASSUME m.triage
      PROVE  m.priority = n.priority /\ m.assignee = n.assignee /\ m.note = n.note
  <2>1. TriageFields(m) = TriageFields(n)
    BY <1>2, <1>4, <1>5
  <2>2. /\ PriorityField(m.priority) = PriorityField(n.priority)
        /\ AssigneeField(m.assignee) = AssigneeField(n.assignee) /\ m.note = n.note
    BY <2>1 DEF TriageFields
  <2>3. /\ m.priority \in Field(Priorities) /\ n.priority \in Field(Priorities)
        /\ m.assignee \in Field(Assignees) /\ n.assignee \in Field(Assignees)
    BY <1>1 DEF Mutation
  <2>4. m.assignee = n.assignee
    BY <2>2, <2>3, AssigneesApart
  <2>5. QED BY <2>2, <2>3, <2>4 DEF HashedApart
<1>6. SameMutation(m, n)
  BY <1>2, <1>4, <1>5 DEF SameMutation
<1>7. m = n
  BY <1>1, <1>6 DEF HashedApart
<1>8. QED BY <1>2, <1>7 DEF MutationRequest

LEMMA HashKinds ==
    ASSUME NEW r, NEW q
    PROVE  CaptureHash(r) # MutationHash(q)
<1>1. CaptureHash(r)[1] = "capture" /\ MutationHash(q)[1] = "mutation"
  BY DEF CaptureHash, MutationHash
<1>2. QED BY <1>1

\* A committed receipt carries the request it was written for.
LEMMA ReceiptWritten ==
    ASSUME NEW d, d.receipts \in [Keys -> ReceiptRow \cup {None}], ReceiptsAnswer(d),
           NEW e, NEW receipt, e.receipts = [d.receipts EXCEPT ![receipt.request.key] = receipt],
           \/ /\ receipt.request \in CaptureRequest
              /\ receipt.hash = CaptureHash(receipt.request)
           \/ /\ receipt.request \in MutationRequest
              /\ receipt.hash = MutationHash(receipt.request)
    PROVE  ReceiptsAnswer(e)
<1>1. \A k \in Keys : e.receipts[k] = IF k = receipt.request.key THEN receipt ELSE d.receipts[k]
  OBVIOUS
<1>2. QED BY <1>1 DEF ReceiptsAnswer

AllAnswer == \A d \in Stores : ReceiptsAnswer(d)

LEMMA AllAnswerStep == IInv /\ AllAnswer /\ [Next]_vars => AllAnswer'
<1> SUFFICES ASSUME IInv, AllAnswer, [Next]_vars PROVE AllAnswer'
  OBVIOUS
<1>1. ReceiptsAnswer(db) /\ \A d \in backups : ReceiptsAnswer(d)
  BY DEF AllAnswer, Stores
<1>2. ASSUME db'.receipts = db.receipts, backups' \subseteq backups \cup {db}
      PROVE  AllAnswer'
  BY <1>1, <1>2 DEF AllAnswer, Stores, ReceiptsAnswer
<1>3. ASSUME ReceiptsAnswer(db'), backups' = backups
      PROVE  AllAnswer'
  BY <1>1, <1>3 DEF AllAnswer, Stores
<1>4. ASSUME NEW w \in Writers, NEW r \in CaptureRequest, Capture(w, r)
      PROVE  AllAnswer'
  <2> DEFINE receipt == Receipt(CaptureHash(r), NextId(db, r), 1, r)
  <2>1. CanCapture(db, r) /\ db' = Captured(db, r) /\ backups' = backups
    BY <1>4 DEF Capture
  <2>2. db'.receipts = [db.receipts EXCEPT ![r.key] = receipt]
    <3>1. Commit(db, db', NextId(db, r), r.key,
                 Operation(NextId(db, r), 1, None, <<Change("captured", None, None)>>, r.by),
                 receipt, NewItem(r.content))
      BY <2>1, Current, CapturedCommits
    <3>2. QED BY <3>1 DEF Commit
  <2>3. receipt.request = r /\ receipt.hash = CaptureHash(r)
    BY DEF Receipt
  <2>4. db.receipts \in [Keys -> ReceiptRow \cup {None}]
    BY Current DEF Store
  <2> HIDE DEF receipt
  <2>5. ReceiptsAnswer(db')
    BY <1>1, <2>2, <2>3, <2>4, ReceiptWritten
  <2>6. QED BY <1>3, <2>1, <2>5
<1>5. ASSUME NEW w \in Writers, NEW r \in MutationRequest, Mutate(w, r)
      PROVE  AllAnswer'
  <2> DEFINE after == Mutated(db.items[r.item], r.mutation)
             receipt == Receipt(MutationHash(r), r.item, after.revision, r)
  <2>1. CanMutate(db, r) /\ db' = MutatedStore(db, r) /\ backups' = backups
    BY <1>5 DEF Mutate
  <2>2. db'.receipts = [db.receipts EXCEPT ![r.key] = receipt]
    <3>1. Commit(db, db', r.item, r.key,
                 Operation(r.item, after.revision, r.expected,
                           EventsOf(db.items[r.item], r.mutation), r.by),
                 receipt, after)
      BY <2>1, Current, MutatedCommits
    <3>2. QED BY <3>1 DEF Commit
  <2>3. receipt.request = r /\ receipt.hash = MutationHash(r)
    BY DEF Receipt
  <2>4. db.receipts \in [Keys -> ReceiptRow \cup {None}]
    BY Current DEF Store
  <2> HIDE DEF receipt
  <2>5. ReceiptsAnswer(db')
    BY <1>1, <2>2, <2>3, <2>4, ReceiptWritten
  <2>6. QED BY <1>3, <2>1, <2>5
<1>6. CASE UNCHANGED vars
  BY <1>2, <1>6 DEF vars
<1>7. ASSUME NEW w \in Writers, Open(w) PROVE AllAnswer'
  BY <1>2, <1>7 DEF Open
<1>8. ASSUME NEW w \in Writers, NEW key, NEW hash, Replay(w, key, hash) PROVE AllAnswer'
  BY <1>2, <1>8 DEF Replay
<1>9. ASSUME NEW generation, Activate(generation) PROVE AllAnswer'
  <2>1. db'.receipts = db.receipts
    BY <1>9, Current DEF Activate, Store
  <2>2. QED BY <1>2, <1>9, <2>1 DEF Activate
<1>10. ASSUME NEW generation, NEW through \in 0..db.high, Prune(generation, through)
       PROVE  AllAnswer'
  <2>1. db'.receipts = db.receipts
    BY <1>10, Current DEF Prune, Pruned, Store
  <2>2. QED BY <1>2, <1>10, <2>1 DEF Prune
<1>11. CASE Backup
  BY <1>2, <1>11 DEF Backup
<1>12. ASSUME NEW from \in backups, Restore(from) PROVE AllAnswer'
  <2>1. from \in Store(drawn) /\ ReceiptsAnswer(from)
    BY <1>1, Current
  <2>2. db'.receipts = from.receipts /\ backups' = backups \cup {db}
    BY <1>12, <2>1 DEF Restore, Restored, Store
  <2>3. ReceiptsAnswer(db')
    BY <2>1, <2>2 DEF ReceiptsAnswer
  <2>4. QED BY <1>1, <2>2, <2>3 DEF AllAnswer, Stores
<1>13. QED
  BY <1>4, <1>5, <1>6, <1>7, <1>8, <1>9, <1>10, <1>11, <1>12 DEF Next

(* Idempotency under keys that are reused, through every backup and        *)
(* restore: where hashed payloads are apart, a request that is answered    *)
(* from a receipt is the request that was executed under its key.          *)
THEOREM AnsweredForThemselves ==
    ASSUME HashedApart
    PROVE  Spec => []ReplayIsSameRequest
<1>1. Init => AllAnswer
  BY DEF Init, EmptyStore, AllAnswer, Stores, ReceiptsAnswer
<1>2. AllAnswer => ReplayIsSameRequest
  <2> SUFFICES ASSUME AllAnswer, NEW d \in Stores
               PROVE  /\ \A r \in CaptureRequest : Replays(d, r.key, CaptureHash(r)) =>
                           SameCapture(r, d.receipts[r.key].request)
                      /\ \A r \in MutationRequest : Replays(d, r.key, MutationHash(r)) =>
                           r = d.receipts[r.key].request
    BY DEF ReplayIsSameRequest
  <2>1. ReceiptsAnswer(d)
    BY DEF AllAnswer
  <2>2. ASSUME NEW r \in CaptureRequest, Replays(d, r.key, CaptureHash(r))
        PROVE  SameCapture(r, d.receipts[r.key].request)
    <3>1. r.key \in Keys /\ d.receipts[r.key] # None /\ d.receipts[r.key].hash = CaptureHash(r)
      BY <2>2 DEF CaptureRequest, Replays
    <3>2. QED BY <2>1, <3>1, HashKinds, CaptureHashTells DEF ReceiptsAnswer
  <2>3. ASSUME NEW r \in MutationRequest, Replays(d, r.key, MutationHash(r))
        PROVE  r = d.receipts[r.key].request
    <3>1. r.key \in Keys /\ d.receipts[r.key] # None /\ d.receipts[r.key].hash = MutationHash(r)
      BY <2>3 DEF MutationRequest, Replays
    <3>2. QED BY <2>1, <3>1, HashKinds, MutationHashTells DEF ReceiptsAnswer
  <2>4. QED BY <2>2, <2>3
<1>3. QED BY Invariant, AllAnswerStep, <1>1, <1>2, PTL DEF Spec

-----------------------------------------------------------------------------
(* The life of one item, as ItemLifecycle tells it.                        *)

(* The abstract machine uses the item rules of the ledger.                  *)
LEMMA SameRules ==
    ASSUME NEW content, NEW item, NEW m
    PROVE  /\ Lifecycle!NewItem(content) = NewItem(content)
           /\ Lifecycle!Change("captured", None, None) = Change("captured", None, None)
           /\ Lifecycle!MutationError(item, m) = MutationError(item, m)
           /\ Lifecycle!EventsOf(item, m) = EventsOf(item, m)
           /\ Lifecycle!Mutated(item, m) = Mutated(item, m)
<1>1. Lifecycle!NewItem(content) = NewItem(content)
  BY DEF Lifecycle!NewItem, NewItem
<1>2. \A t, b, a : Lifecycle!Change(t, b, a) = Change(t, b, a)
  BY DEF Lifecycle!Change, Change
<1>3. \A field, old : Lifecycle!Resolve(field, old) = Resolve(field, old)
  BY DEF Lifecycle!Resolve, Resolve, Lifecycle!Omitted, Omitted, Lifecycle!Clear, Clear
<1>4. \A op : Lifecycle!NeedsReason(op) <=> NeedsReason(op)
  BY DEF Lifecycle!NeedsReason, NeedsReason
<1>5. /\ Lifecycle!From = From /\ Lifecycle!To = To /\ Lifecycle!LifecycleEvent = LifecycleEvent
      /\ Lifecycle!Terminal = Terminal /\ Lifecycle!Omitted = Omitted /\ Lifecycle!Blank = Blank
  BY DEF Lifecycle!From, From, Lifecycle!To, To, Lifecycle!LifecycleEvent, LifecycleEvent,
         Lifecycle!Terminal, Terminal, Lifecycle!Omitted, Omitted, Lifecycle!Blank, Blank
<1>6. Lifecycle!AfterLifecycle(item, m) = AfterLifecycle(item, m)
  BY <1>4, <1>5 DEF Lifecycle!AfterLifecycle, AfterLifecycle
<1>7. \A i : Lifecycle!AfterTriage(i, m) = AfterTriage(i, m)
  BY <1>3 DEF Lifecycle!AfterTriage, AfterTriage
<1>8. Lifecycle!Planned(item, m) = Planned(item, m)
  BY <1>6, <1>7 DEF Lifecycle!Planned, Planned
<1>9. Lifecycle!Mutated(item, m) = Mutated(item, m)
  BY <1>8 DEF Lifecycle!Mutated, Mutated
<1>10. Lifecycle!MutationError(item, m) = MutationError(item, m)
  <2>1. /\ Lifecycle!WrongStatus(item, m) <=> WrongStatus(item, m)
        /\ Lifecycle!MissingReason(m) <=> MissingReason(m)
        /\ Lifecycle!EmptyTriage(m) <=> EmptyTriage(m)
    BY <1>4, <1>5 DEF Lifecycle!WrongStatus, WrongStatus, Lifecycle!MissingReason, MissingReason,
       Lifecycle!EmptyTriage, EmptyTriage
  <2>2. Lifecycle!TerminalChange(item, m) <=> TerminalChange(item, m)
    BY <1>5, <1>8 DEF Lifecycle!TerminalChange, TerminalChange
  <2>3. QED BY <2>1, <2>2 DEF Lifecycle!MutationError, MutationError
<1>11. Lifecycle!EventsOf(item, m) = EventsOf(item, m)
  <2>1. \A t, b, a : Lifecycle!FieldChange(t, b, a) = FieldChange(t, b, a)
    BY <1>2 DEF Lifecycle!FieldChange, FieldChange
  <2>2. Lifecycle!StatusChange(item, m) = StatusChange(item, m)
    BY <1>2, <1>5 DEF Lifecycle!StatusChange, StatusChange
  <2>3. Lifecycle!TriageChanges(item, m) = TriageChanges(item, m)
    BY <1>3, <2>1 DEF Lifecycle!TriageChanges, TriageChanges
  <2>4. QED BY <2>2, <2>3 DEF Lifecycle!EventsOf, EventsOf
<1>12. QED BY <1>1, <1>2, <1>9, <1>10, <1>11

(* The audit of a store names the operation of each revision.               *)
LEMMA OperationIs ==
    ASSUME NEW d, AuditComplete(d), NEW o \in d.operations
    PROVE  OperationAt(d, o.item, o.revision) = o
BY DEF AuditComplete, OperationAt

\* Operations of other items do not show in an item's trail.
LEMMA TrailKept ==
    ASSUME NEW d, AuditComplete(d), NEW e, AuditComplete(e), NEW id \in ItemIds,
           e.items[id] = d.items[id], d.operations \subseteq e.operations
    PROVE  TrailOf(e, id) = TrailOf(d, id)
<1>1. CASE d.items[id] = None
  BY <1>1 DEF TrailOf
<1>2. CASE d.items[id] # None
  <2>1. \A n \in 1..d.items[id].revision : OperationAt(e, id, n) = OperationAt(d, id, n)
    <3> SUFFICES ASSUME NEW n \in 1..d.items[id].revision
                 PROVE  OperationAt(e, id, n) = OperationAt(d, id, n)
      OBVIOUS
    <3>1. PICK o \in d.operations : o.item = id /\ o.revision = n
      BY <1>2 DEF AuditComplete
    <3>2. QED BY <3>1, OperationIs
  <2>2. QED BY <1>2, <2>1 DEF TrailOf
<1>3. QED BY <1>1, <1>2

\* A commit on an item adds one entry to its trail.
LEMMA TrailGrows ==
    ASSUME NEW n \in Nat, NEW d \in Store(n), AuditComplete(d), NEW e, AuditComplete(e),
           NEW id, NEW k, NEW op, NEW receipt, NEW after, Commit(d, e, id, k, op, receipt, after)
    PROVE  LET entry == [revision |-> after.revision, events |-> op.events]
           IN  IF d.items[id] = None THEN TrailOf(e, id) = <<entry>>
               ELSE TrailOf(e, id) = Append(TrailOf(d, id), entry)
<1> DEFINE entry == [revision |-> after.revision, events |-> op.events]
<1>1. /\ id \in ItemIds /\ after \in Item /\ op.item = id /\ op.revision = after.revision
      /\ e.items[id] = after /\ e.operations = d.operations \cup {op}
  BY DEF Commit, Store
<1>2. after # None /\ after.revision \in 1..MaxI64
  BY <1>1, DomainAssumption DEF Item
<1>3. OperationAt(e, id, after.revision) = op
  BY <1>1, OperationIs
<1>4. TrailOf(e, id) = [m \in 1..after.revision |->
                           [revision |-> m, events |-> OperationAt(e, id, m).events]]
  BY <1>1, <1>2 DEF TrailOf
<1>5. CASE d.items[id] = None
  <2>1. after.revision = 1
    BY <1>5 DEF Commit
  <2>2. TrailOf(e, id) = [m \in 1..1 |-> entry]
    BY <1>3, <1>4, <2>1
  <2>3. [m \in 1..1 |-> entry] = <<entry>>
    OBVIOUS
  <2>4. QED BY <1>5, <2>2, <2>3
<1>6. CASE d.items[id] # None
  <2> DEFINE old == d.items[id].revision
  <2>1. after.revision = old + 1 /\ old \in Nat
    BY <1>1, <1>6 DEF Commit, Store, Item
  <2>2. \A m \in 1..old : OperationAt(e, id, m) = OperationAt(d, id, m)
    <3> SUFFICES ASSUME NEW m \in 1..old
                 PROVE  OperationAt(e, id, m) = OperationAt(d, id, m)
      OBVIOUS
    <3>1. PICK o \in d.operations : o.item = id /\ o.revision = m
      BY <1>1, <1>6 DEF AuditComplete
    <3>2. QED BY <1>1, <3>1, OperationIs
  <2>3. TrailOf(d, id) = [m \in 1..old |->
                             [revision |-> m, events |-> OperationAt(d, id, m).events]]
    BY <1>6 DEF TrailOf
  <2> HIDE DEF old
  <2>4. /\ TrailOf(d, id) \in Seq({TrailOf(d, id)[m] : m \in 1..old}) /\ Len(TrailOf(d, id)) = old
    BY <2>1, <2>3
  <2> DEFINE trail == TrailOf(d, id)
             longer == TrailOf(e, id)
  <2>5. \A m \in 1..old : longer[m] = trail[m]
    BY <1>4, <2>1, <2>2, <2>3
  <2>6. longer[old + 1] = entry
    BY <1>3, <1>4, <2>1
  <2>7. longer = [m \in 1..old + 1 |-> longer[m]]
    BY <1>4, <2>1
  <2> HIDE DEF trail, longer
  <2>8. longer = Append(trail, entry)
    <3>1. /\ Append(trail, entry) \in Seq({trail[m] : m \in 1..old} \cup {entry})
          /\ Len(Append(trail, entry)) = old + 1
          /\ \A m \in 1..old : Append(trail, entry)[m] = trail[m]
          /\ Append(trail, entry)[old + 1] = entry
      BY <2>1, <2>4 DEF trail
    <3>2. Append(trail, entry) = [m \in 1..old + 1 |-> Append(trail, entry)[m]]
      BY <2>1, <3>1
    <3>3. \A m \in 1..old + 1 : longer[m] = Append(trail, entry)[m]
      BY <2>1, <2>5, <2>6, <3>1
    <3>4. QED BY <2>7, <3>2, <3>3
  <2>9. QED BY <1>6, <2>8 DEF trail, longer
<1>7. QED BY <1>5, <1>6


(* A step that is no commit on the watched item, in a history that no       *)
(* restore leaves, does not show in its life; a commit is a step of it.     *)
LEMMA LifeUnchanged ==
    ASSUME IInv, IInv', db'.items[Watched] = db.items[Watched],
           db.operations \subseteq db'.operations
    PROVE  UNCHANGED Lifecycle!vars
<1>1. AuditComplete(db) /\ AuditComplete(db')
  BY DEF IInv, Stores, StoreInv
<1>2. TrailOf(db', Watched) = TrailOf(db, Watched)
  BY <1>1, TrailKept, LedgerAssumption
<1>3. QED BY <1>2 DEF Lifecycle!vars

LEMMA LifeOfCommit ==
    ASSUME IInv, IInv', NEW id, NEW k, NEW op, NEW receipt, NEW after,
           Commit(db, db', id, k, op, receipt, after)
    PROVE  \/ id # Watched /\ UNCHANGED Lifecycle!vars
           \/ /\ id = Watched /\ db'.items[Watched] = after
              /\ IF db.items[Watched] = None
                 THEN TrailOf(db', Watched)
                        = <<[revision |-> after.revision, events |-> op.events]>>
                 ELSE TrailOf(db', Watched)
                        = Append(TrailOf(db, Watched),
                                 [revision |-> after.revision, events |-> op.events])
<1>1. AuditComplete(db) /\ AuditComplete(db')
  BY DEF IInv, Stores, StoreInv
<1>2. db \in Store(drawn) /\ drawn \in Nat
  BY Current
<1>3. /\ id \in ItemIds /\ db'.items = [db.items EXCEPT ![id] = after]
      /\ db'.operations = db.operations \cup {op}
      /\ db.items \in [ItemIds -> Item \cup {None}]
  BY <1>2 DEF Commit, Store
<1>4. CASE id # Watched
  <2>1. db'.items[Watched] = db.items[Watched]
    BY <1>3, <1>4, LedgerAssumption
  <2>2. QED BY <1>3, <1>4, <2>1, LifeUnchanged
<1>5. CASE id = Watched
  <2>1. db'.items[Watched] = after
    BY <1>3, <1>5
  <2>2. QED BY <1>1, <1>2, <1>5, <2>1, TrailGrows
<1>6. QED BY <1>4, <1>5

LEMMA LifeOfCapture ==
    ASSUME IInv, IInv', NEW w \in Writers, NEW r \in CaptureRequest, Capture(w, r)
    PROVE  [Lifecycle!Next]_(Lifecycle!vars)
<1> DEFINE id == NextId(db, r)
           events == <<Change("captured", None, None)>>
           op == Operation(id, 1, None, events, r.by)
           after == NewItem(r.content)
           receipt == Receipt(CaptureHash(r), id, 1, r)
<1>1. CanCapture(db, r) /\ db' = Captured(db, r)
  BY DEF Capture
<1>2. Commit(db, db', id, r.key, op, receipt, after)
  BY <1>1, Current, CapturedCommits
<1>3. db.items[id] = None
  BY <1>1 DEF CanCapture
<1>4. op.events = events /\ after.revision = 1 /\ r.content \in Contents
  BY DEF Operation, NewItem, CaptureRequest
<1> HIDE DEF id, op, after, receipt
<1>5. \/ UNCHANGED Lifecycle!vars
      \/ /\ db.items[Watched] = None /\ db'.items[Watched] = after
         /\ TrailOf(db', Watched) = <<[revision |-> 1, events |-> events]>>
  <2>1. \/ id # Watched /\ UNCHANGED Lifecycle!vars
        \/ /\ id = Watched /\ db'.items[Watched] = after
           /\ IF db.items[Watched] = None
              THEN TrailOf(db', Watched)
                     = <<[revision |-> after.revision, events |-> op.events]>>
              ELSE TrailOf(db', Watched)
                     = Append(TrailOf(db, Watched),
                              [revision |-> after.revision, events |-> op.events])
    BY <1>2, LifeOfCommit
  <2>2. QED BY <1>3, <1>4, <2>1
<1>6. after = Lifecycle!NewItem(r.content)
  BY SameRules DEF after
<1>7. events = <<Lifecycle!Change("captured", None, None)>>
  BY SameRules
<1> HIDE DEF events
<1>8. QED BY <1>4, <1>5, <1>6, <1>7 DEF Lifecycle!Next, Lifecycle!Capture

LEMMA LifeOfMutate ==
    ASSUME IInv, IInv', NEW w \in Writers, NEW r \in MutationRequest, Mutate(w, r)
    PROVE  [Lifecycle!Next]_(Lifecycle!vars)
<1> DEFINE item == db.items[r.item]
           m == r.mutation
           after == Mutated(item, m)
           op == Operation(r.item, after.revision, r.expected, EventsOf(item, m), r.by)
<1>1. CanMutate(db, r) /\ db' = MutatedStore(db, r)
  BY DEF Mutate
<1>2. Commit(db, db', r.item, r.key, op, Receipt(MutationHash(r), r.item, after.revision, r),
             after)
  BY <1>1, Current, MutatedCommits
<1>3. /\ item # None /\ MutationError(item, m) = None /\ EventsOf(item, m) # << >>
      /\ item.revision < MaxI64
  BY <1>1 DEF CanMutate
<1>4. op.events = EventsOf(item, m) /\ m \in Mutations
  BY DEF Operation, MutationRequest
<1> HIDE DEF op, after
<1>5. \/ UNCHANGED Lifecycle!vars
      \/ /\ db.items[Watched] = item /\ db'.items[Watched] = after
         /\ TrailOf(db', Watched)
              = Append(TrailOf(db, Watched),
                       [revision |-> after.revision, events |-> EventsOf(item, m)])
  BY <1>2, <1>3, <1>4, LifeOfCommit
<1>6. /\ Lifecycle!MutationError(item, m) = MutationError(item, m)
      /\ Lifecycle!EventsOf(item, m) = EventsOf(item, m)
      /\ Lifecycle!Mutated(item, m) = after
  BY SameRules DEF after
<1> HIDE DEF item, m
<1>7. CASE UNCHANGED Lifecycle!vars
  BY <1>7
<1>8. CASE /\ db.items[Watched] = item /\ db'.items[Watched] = after
           /\ TrailOf(db', Watched)
                = Append(TrailOf(db, Watched),
                         [revision |-> after.revision, events |-> EventsOf(item, m)])
  <2>1. Lifecycle!Apply(m)
    BY <1>3, <1>6, <1>8 DEF Lifecycle!Apply
  <2>2. QED BY <1>4, <2>1 DEF Lifecycle!Next
<1>9. QED BY <1>5, <1>7, <1>8

LEMMA LifeStep ==
    ASSUME IInv, IInv', [Next]_vars, drawn' = drawn
    PROVE  [Lifecycle!Next]_(Lifecycle!vars)
<1>1. ASSUME NEW w \in Writers, NEW r \in CaptureRequest, Capture(w, r)
      PROVE  [Lifecycle!Next]_(Lifecycle!vars)
  BY <1>1, LifeOfCapture
<1>2. ASSUME NEW w \in Writers, NEW r \in MutationRequest, Mutate(w, r)
      PROVE  [Lifecycle!Next]_(Lifecycle!vars)
  BY <1>2, LifeOfMutate
<1>3. ASSUME db'.items = db.items, db'.operations = db.operations
      PROVE  [Lifecycle!Next]_(Lifecycle!vars)
  BY <1>3, LifeUnchanged
<1>4. CASE db' = db
  BY <1>3, <1>4
<1>5. ASSUME NEW generation, Activate(generation)
      PROVE  db'.items = db.items /\ db'.operations = db.operations
  BY <1>5, Current DEF Activate, Store
<1>6. ASSUME NEW generation, NEW through, Prune(generation, through)
      PROVE  db'.items = db.items /\ db'.operations = db.operations
  BY <1>6, Current DEF Prune, Pruned, Store
<1>7. ASSUME NEW from, Restore(from)
      PROVE  FALSE
  BY <1>7, Current DEF Restore
<1>8. QED
  BY <1>1, <1>2, <1>3, <1>4, <1>5, <1>6, <1>7 DEF Next, vars, Open, Replay, Backup

(* Every item of a store lives the life of ItemLifecycle as long as no      *)
(* backup is restored: the two writing transactions of storage.rs implement *)
(* its capture and its mutations, with their events, and nothing else that  *)
(* writers or operators do shows in an item or its history.                 *)
THEOREM ItemsLiveTheirLifecycle ==
    Spec /\ [][drawn' = drawn]_vars => ItemLivesItsLifecycle
<1>1. Init => Lifecycle!Init
  BY LedgerAssumption DEF Init, EmptyStore, Lifecycle!Init, TrailOf
<1>2. IInv /\ IInv' /\ [Next]_vars /\ [drawn' = drawn]_vars => [Lifecycle!Next]_(Lifecycle!vars)
  BY LifeStep DEF vars
<1>3. QED
  BY Invariant, <1>1, <1>2, PTL DEF Spec, ItemLivesItsLifecycle, Lifecycle!Spec

=============================================================================
