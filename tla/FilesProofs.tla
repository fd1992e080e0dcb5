----------------------------- MODULE FilesProofs -----------------------------
(***************************************************************************)
(* The journal's follower and the maintenance commands, for every set of   *)
(* items and paths, every page limit and every bound.                      *)
(***************************************************************************)
EXTENDS StoreFiles, FiniteSetTheorems, TLAPS

-----------------------------------------------------------------------------
(* The follower.  What is known of a store: its rows explain its revisions. *)

Row == [seq : Nat, item : Items, revision : Nat]

FeedStore ==
    [id : Nat, floor : Nat, high : Nat, enabled : BOOLEAN, rows : SUBSET Row,
     revision : [Items -> Nat]]

Journaled(s) ==
    /\ s \in FeedStore
    /\ IsFiniteSet(s.rows)
    /\ \A r \in s.rows : r.seq <= s.high /\ r.revision <= s.revision[r.item]
    /\ \A r, q \in s.rows : r.seq = q.seq => r = q
    /\ \A r, q \in s.rows : r.item = q.item /\ r.seq < q.seq => r.revision < q.revision
    /\ \A r \in s.rows :
         \/ r.revision = s.revision[r.item]
         \/ \E q \in s.rows : q.item = r.item /\ r.seq < q.seq

(* s is an earlier state of the store t: t has its rows, and has moved only *)
(* items it has later rows of.                                              *)
Earlier(s, t) ==
    /\ s.high <= t.high
    /\ s.rows = {r \in t.rows : r.seq <= s.high}
    /\ \A i \in Items :
         \/ s.revision[i] = t.revision[i]
         \/ /\ s.revision[i] < t.revision[i]
            /\ \E r \in t.rows : r.item = i /\ s.high < r.seq

Ahead(from, to) == {r \in store.rows : r.item \in Followed /\ from < r.seq /\ r.seq <= to}

(* The page in hand is the lower part of what the scan has left.            *)
PageInv ==
    page # None =>
        /\ target # None
        /\ page \subseteq Ahead(covered, target)
        /\ \A r \in Ahead(covered, target) \ page : more /\ \A q \in page : q.seq < r.seq

FollowerInv ==
    /\ copy \in [Followed -> Nat]
    /\ covered \in Nat /\ covered <= store.high
    /\ target # None => target \in Nat /\ covered <= target /\ target <= store.high
    /\ PageInv
    /\ \A r \in store.rows :
         r.item \in Followed /\ r.seq <= covered => r.revision <= copy[r.item]
    /\ \A i \in Followed :
         \/ copy[i] = store.revision[i]
         \/ /\ copy[i] < store.revision[i]
            /\ \E r \in store.rows : r.item = i /\ covered < r.seq

FeedInv ==
    /\ drawn \in Nat
    /\ Journaled(store) /\ store.id = drawn
    /\ saved # None => Journaled(saved) /\ saved.id <= drawn
    /\ snap # None => /\ Journaled(snap) /\ snap.id <= drawn
                      /\ snap.id = store.id => Earlier(snap, store)
    /\ source # None => source \in Nat /\ source <= drawn
    /\ source = store.id => FollowerInv

LEMMA FeedInvIsExact == FeedInv => FollowerIsExact
BY DEF FeedInv, FollowerInv, FollowerIsExact, Feed!FollowerIsExact, Journaled, FeedStore, Row

LEMMA FeedInitInvariant == Feed!Init => FeedInv
<1> SUFFICES ASSUME Feed!Init PROVE FeedInv
  OBVIOUS
<1> USE FilesAssumption DEF Feed!FeedAssumption
<1>1. Journaled(store)
  BY FS_EmptySet DEF Feed!Init, Feed!NewStore, Journaled, FeedStore, Row
<1>2. store.id = 1 /\ drawn = 1 /\ source = None /\ saved = None /\ snap = None
  BY DEF Feed!Init, Feed!NewStore
<1>3. QED BY <1>1, <1>2 DEF FeedInv

LEMMA EarlierItself == ASSUME NEW s, Journaled(s) PROVE Earlier(s, s)
BY DEF Earlier, Journaled, FeedStore, Row

LEMMA SameCardinality == \A S : Feed!Cardinality(S) = Cardinality(S)
BY DEF Feed!Cardinality, Cardinality

(* A page is cut from the front.                                            *)
LEMMA FirstIsLower ==
    ASSUME NEW rows, rows \subseteq Row, IsFiniteSet(rows),
           NEW q \in Feed!First(rows), NEW r \in rows \ Feed!First(rows)
    PROVE  q.seq < r.seq
<1> DEFINE Below(x) == {y \in rows : y.seq < x.seq}
<1> DEFINE First == {x \in rows : Cardinality(Below(x)) < Limit}
<1>0. Feed!First(rows) = First
  BY SameCardinality DEF Feed!First
<1> HIDE DEF Below
<1>1. q \in rows /\ Cardinality(Below(q)) < Limit /\ ~(Cardinality(Below(r)) < Limit)
  BY <1>0
<1> USE DEF Below
<1>2. SUFFICES ASSUME ~(q.seq < r.seq) PROVE FALSE
  OBVIOUS
<1>3. Below(r) \subseteq Below(q)
  BY <1>1, <1>2 DEF Row
<1>4. IsFiniteSet(Below(q))
  BY FS_Subset
<1>5. /\ Cardinality(Below(r)) \in Nat /\ Cardinality(Below(q)) \in Nat
      /\ Cardinality(Below(r)) <= Cardinality(Below(q))
  BY <1>3, <1>4, FS_Subset, FS_CardinalityType
<1>6. QED BY <1>1, <1>5, FilesAssumption DEF Feed!FeedAssumption

(* The store's steps. *)

LEMMA CommitKeepsFeed == ASSUME FeedInv, NEW i \in Items, Feed!Commit(i) PROVE FeedInv'
<1> DEFINE new == [seq |-> store.high + 1, item |-> i, revision |-> store.revision[i] + 1]
<1>1. Journaled(store) /\ store \in FeedStore
  BY DEF FeedInv, Journaled
<1>2. /\ store' = [id |-> store.id, floor |-> store.floor, high |-> store.high + 1,
                   enabled |-> store.enabled, rows |-> store.rows \cup {new},
                   revision |-> [store.revision EXCEPT ![i] = store.revision[i] + 1]]
      /\ UNCHANGED <<saved, drawn, snap, source, covered, target, page, more, copy>>
  BY <1>1 DEF Feed!Commit, Feed!followerVars, FeedStore
<1>3. store.high + 1 \in Nat /\ new \in Row /\ store.revision \in [Items -> Nat]
  BY <1>1 DEF FeedStore, Row
<1> HIDE DEF new
<1>4. /\ store'.id = store.id /\ store'.high = store.high + 1
      /\ store'.rows = store.rows \cup {new}
      /\ store'.revision = [store.revision EXCEPT ![i] = store.revision[i] + 1]
      /\ store' \in FeedStore
  BY <1>1, <1>2, <1>3 DEF FeedStore
<1>5. Journaled(store')
  <2>1. IsFiniteSet(store'.rows)
    BY <1>1, <1>4, FS_AddElement DEF Journaled
  <2>2. \A r \in store.rows : r \in Row /\ r.seq <= store.high /\ r.revision <= store.revision[r.item]
    BY <1>1 DEF Journaled, FeedStore
  <2>3. new.seq = store.high + 1 /\ new.item = i /\ new.revision = store.revision[i] + 1
    BY DEF new
  <2>4. \A r \in store'.rows : r.seq <= store'.high /\ r.revision <= store'.revision[r.item]
    BY <1>3, <1>4, <2>2, <2>3, <1>1 DEF Row, FeedStore
  <2>5. \A r, q \in store'.rows : r.seq = q.seq => r = q
    BY <1>1, <1>4, <2>2, <2>3 DEF Row, FeedStore, Journaled
  <2>6. \A r, q \in store'.rows : r.item = q.item /\ r.seq < q.seq => r.revision < q.revision
    BY <1>1, <1>3, <1>4, <2>2, <2>3 DEF Row, FeedStore, Journaled
  <2>7. \A r \in store'.rows : \/ r.revision = store'.revision[r.item]
                               \/ \E q \in store'.rows : q.item = r.item /\ r.seq < q.seq
    BY <1>1, <1>3, <1>4, <2>2, <2>3 DEF Row, FeedStore, Journaled
  <2>8. QED BY <1>4, <2>1, <2>4, <2>5, <2>6, <2>7 DEF Journaled
<1>6. snap # None /\ snap.id = store.id => Earlier(snap, store')
  <2> SUFFICES ASSUME snap # None, snap.id = store.id PROVE Earlier(snap, store')
    OBVIOUS
  <2>1. Journaled(snap) /\ snap \in FeedStore /\ Earlier(snap, store)
    BY DEF FeedInv, Journaled
  <2>2. new.seq = store.high + 1 /\ new.item = i
    BY DEF new
  <2>3. snap.high <= store'.high /\ snap.rows = {r \in store'.rows : r.seq <= snap.high}
    BY <1>1, <1>4, <2>1, <2>2 DEF Earlier, FeedStore, Row
  <2>4. ASSUME NEW j \in Items
        PROVE  \/ snap.revision[j] = store'.revision[j]
               \/ /\ snap.revision[j] < store'.revision[j]
                  /\ \E r \in store'.rows : r.item = j /\ snap.high < r.seq
    BY <1>1, <1>3, <1>4, <2>1, <2>2 DEF Earlier, FeedStore
  <2>5. QED BY <2>3, <2>4 DEF Earlier
<1>7. source = store.id => FollowerInv'
  <2> SUFFICES ASSUME source = store.id PROVE FollowerInv'
    OBVIOUS
  <2>1. FollowerInv /\ copy \in [Followed -> Nat] /\ Followed \subseteq Items
    BY FilesAssumption DEF FeedInv, FollowerInv, Feed!FeedAssumption
  <2>2. new.seq = store.high + 1 /\ new.item = i
    BY DEF new
  <2>3. /\ covered \in Nat /\ covered <= store'.high
        /\ target # None => target \in Nat /\ covered <= target /\ target <= store'.high
    BY <1>1, <1>4, <2>1 DEF FollowerInv, FeedStore
  <2>4. page # None => Ahead(covered, target)' = Ahead(covered, target)
    BY <1>1, <1>2, <1>4, <2>1, <2>2 DEF FollowerInv, PageInv, Ahead, FeedStore
  <2>5. PageInv'
    BY <1>2, <2>1, <2>4 DEF FollowerInv, PageInv
  <2>6. \A r \in store'.rows : r.item \in Followed /\ r.seq <= covered => r.revision <= copy[r.item]
    BY <1>1, <1>4, <2>1, <2>2 DEF FollowerInv, FeedStore
  <2>7. \A j \in Followed : \/ copy[j] = store'.revision[j]
                            \/ /\ copy[j] < store'.revision[j]
                               /\ \E r \in store'.rows : r.item = j /\ covered < r.seq
    BY <1>1, <1>3, <1>4, <2>1, <2>2 DEF FollowerInv, FeedStore
  <2>8. QED BY <1>2, <2>1, <2>3, <2>5, <2>6, <2>7 DEF FollowerInv
<1>8. QED BY <1>2, <1>4, <1>5, <1>6, <1>7 DEF FeedInv

LEMMA FlagsKeepFeed ==
    ASSUME FeedInv, Feed!Activate \/ \E t \in 0..MaxHigh : Feed!Prune(t)
    PROVE  FeedInv'
<1>1. Journaled(store) /\ store \in FeedStore
  BY DEF FeedInv, Journaled
<1>2. /\ store' \in FeedStore /\ store'.id = store.id /\ store'.high = store.high
      /\ store'.rows = store.rows /\ store'.revision = store.revision
      /\ UNCHANGED <<saved, drawn, snap, source, covered, target, page, more, copy>>
  <2>1. CASE Feed!Activate
    BY <1>1, <2>1 DEF Feed!Activate, Feed!followerVars, FeedStore
  <2>2. ASSUME NEW t \in 0..MaxHigh, Feed!Prune(t)
        PROVE  <1>2
    BY <1>1, <2>2, FilesAssumption DEF Feed!Prune, Feed!followerVars, FeedStore, Feed!FeedAssumption
  <2>3. QED BY <2>1, <2>2
<1>3. Journaled(store')
  BY <1>1, <1>2 DEF Journaled
<1>4. \A s : Earlier(s, store) => Earlier(s, store')
  BY <1>2 DEF Earlier
<1>5. FollowerInv => FollowerInv'
  BY <1>2 DEF FollowerInv, PageInv, Ahead
<1>6. QED BY <1>2, <1>3, <1>4, <1>5 DEF FeedInv

LEMMA BackupKeepsFeed == ASSUME FeedInv, Feed!Backup PROVE FeedInv'
<1>1. /\ saved' = store
      /\ UNCHANGED <<store, drawn, snap, source, covered, target, page, more, copy>>
  BY DEF Feed!Backup, Feed!followerVars
<1>2. store.id <= drawn
  BY DEF FeedInv
<1>3. FollowerInv => FollowerInv'
  BY <1>1 DEF FollowerInv, PageInv, Ahead
<1>4. QED BY <1>1, <1>2, <1>3 DEF FeedInv

(* A restored store has an identity no position was ever given for.         *)
LEMMA RestoreKeepsFeed == ASSUME FeedInv, Feed!Restore PROVE FeedInv'
<1>1. Journaled(saved) /\ saved \in FeedStore /\ drawn \in Nat
  BY DEF FeedInv, Journaled, Feed!Restore
<1>2. /\ drawn' = drawn + 1
      /\ store' = [saved EXCEPT !.id = drawn + 1, !.enabled = FALSE]
      /\ UNCHANGED <<saved, snap, source, covered, target, page, more, copy>>
  BY DEF Feed!Restore, Feed!followerVars
<1>3. /\ store' \in FeedStore /\ store'.id = drawn + 1 /\ store'.high = saved.high
      /\ store'.rows = saved.rows /\ store'.revision = saved.revision
  <2>1. store' = [id |-> drawn + 1, floor |-> saved.floor, high |-> saved.high, enabled |-> FALSE,
                  rows |-> saved.rows, revision |-> saved.revision]
    BY <1>1, <1>2 DEF FeedStore
  <2>2. saved.floor \in Nat /\ saved.high \in Nat /\ saved.rows \in SUBSET Row
        /\ saved.revision \in [Items -> Nat] /\ drawn + 1 \in Nat
    BY <1>1 DEF FeedStore
  <2>3. QED BY <2>1, <2>2 DEF FeedStore
<1>4. Journaled(store')
  BY <1>1, <1>3 DEF Journaled
<1>5. saved # None => saved.id \in Nat /\ saved.id <= drawn
  BY <1>1 DEF FeedInv, FeedStore
<1>6. snap # None => snap.id \in Nat /\ snap.id <= drawn
  BY DEF FeedInv, FeedStore, Journaled
<1>7. source # None => source \in Nat /\ source <= drawn
  BY DEF FeedInv
<1>8. source # drawn + 1
  BY <1>1, <1>7, FilesAssumption DEF Feed!FeedAssumption
<1>9. QED BY <1>1, <1>2, <1>3, <1>4, <1>5, <1>6, <1>7, <1>8 DEF FeedInv

(* The follower's steps. *)

LEMMA BeginKeepsFeed == ASSUME FeedInv, Feed!Begin PROVE FeedInv'
<1>1. /\ snap' = store
      /\ UNCHANGED <<store, saved, drawn, source, covered, target, page, more, copy>>
  BY DEF Feed!Begin, Feed!storeVars
<1>2. Journaled(store) /\ store.id <= drawn /\ Earlier(store, store)
  BY EarlierItself DEF FeedInv
<1>3. FollowerInv => FollowerInv'
  BY <1>1 DEF FollowerInv, PageInv, Ahead
<1>4. QED BY <1>1, <1>2, <1>3 DEF FeedInv

LEMMA FetchRefusedKeepsFeed == ASSUME FeedInv, Feed!FetchRefused PROVE FeedInv'
<1>1. /\ snap' = None /\ target' = None /\ source' \in {source, None} /\ page = None
      /\ UNCHANGED <<store, saved, drawn, covered, page, more, copy>>
  BY DEF Feed!FetchRefused, Feed!storeVars
<1>2. source' = store.id => source = store.id
  <2>1. store.id \in Nat
    BY DEF FeedInv, Journaled, FeedStore
  <2>2. QED BY <1>1, <2>1, FilesAssumption DEF Feed!FeedAssumption
<1>3. FollowerInv => FollowerInv'
  BY <1>1 DEF FollowerInv, PageInv
<1>4. QED BY <1>1, <1>2, <1>3 DEF FeedInv

(* A snapshot of the same identity shows the rows of the store up to its    *)
(* own mark, and the refusals keep the scan below it.                       *)
LEMMA FetchKeepsFeed == ASSUME FeedInv, Feed!Fetch PROVE FeedInv'
<1> DEFINE rows == Feed!Selected(snap, covered, Feed!Mark)
<1>1. /\ snap # None /\ source # None /\ page = None
      /\ Feed!Refusal(snap, source, covered, Feed!Mark) = None
      /\ page' = Feed!First(rows) /\ more' = (Feed!First(rows) # rows)
      /\ target' = Feed!Mark /\ snap' = None
      /\ UNCHANGED <<store, saved, drawn, source, covered, copy>>
  BY DEF Feed!Fetch, Feed!storeVars
<1>2. /\ source = snap.id
      /\ ~(Feed!Mark < covered \/ Feed!Mark > snap.high)
      /\ ~(covered < snap.floor)
  BY <1>1, FilesAssumption DEF Feed!Refusal, Feed!FeedAssumption
<1>3. Journaled(snap) /\ snap \in FeedStore /\ Journaled(store) /\ store \in FeedStore
  BY <1>1 DEF FeedInv, Journaled
<1>4. source = store.id => FollowerInv'
  <2> SUFFICES ASSUME source = store.id PROVE FollowerInv'
    OBVIOUS
  <2>1. Earlier(snap, store) /\ FollowerInv
    BY <1>1, <1>2 DEF FeedInv
  <2>2. covered \in Nat /\ Feed!Mark \in Nat
    BY <1>1, <1>3, <2>1 DEF FollowerInv, Feed!Mark, FeedStore
  <2>3. covered <= Feed!Mark /\ Feed!Mark <= snap.high /\ snap.high <= store.high
    BY <1>2, <1>3, <2>1, <2>2 DEF Earlier, FeedStore
  <2>4. rows = Ahead(covered, Feed!Mark)
    <3> HIDE DEF Feed!Mark
    <3>1. rows = {r \in snap.rows : /\ r.item \in Followed
                                    /\ covered < r.seq /\ r.seq <= Feed!Mark}
      BY <1>2, <1>3, <2>2 DEF Feed!Selected, Feed!Retained, FeedStore, Row
    <3>2. \A r \in store.rows : r.seq <= Feed!Mark => r \in snap.rows
      BY <1>3, <2>1, <2>2, <2>3 DEF Earlier, FeedStore, Row
    <3>3. snap.rows \subseteq store.rows
      BY <2>1 DEF Earlier
    <3>4. QED BY <3>1, <3>2, <3>3 DEF Ahead
  <2>5. rows \subseteq Row /\ IsFiniteSet(rows)
    BY <1>3, <2>4, FS_Subset DEF Ahead, Journaled, FeedStore
  <2>6. /\ Feed!First(rows) \subseteq rows
        /\ \A r \in rows \ Feed!First(rows) : \A q \in Feed!First(rows) : q.seq < r.seq
    BY <2>5, FirstIsLower DEF Feed!First
  <2> HIDE DEF rows
  <2>7. Ahead(covered, target)' = rows
    BY <1>1, <2>4 DEF Ahead
  <2>8. PageInv'
    <3>1. target' # None
      BY <1>1, <2>2, FilesAssumption DEF Feed!FeedAssumption
    <3>2. \A r \in rows \ Feed!First(rows) : more'
      BY <1>1
    <3>3. QED BY <1>1, <2>6, <2>7, <3>1, <3>2 DEF PageInv
  <2>9. target' \in Nat /\ covered' <= target' /\ target' <= store'.high
    BY <1>1, <1>3, <2>2, <2>3 DEF FeedStore
  <2>10. QED BY <1>1, <2>1, <2>8, <2>9 DEF FollowerInv
<1>5. QED BY <1>1, <1>4 DEF FeedInv

LEMMA BootstrapKeepsFeed == ASSUME FeedInv, Feed!Bootstrap PROVE FeedInv'
<1>1. /\ snap # None /\ source = None
      /\ snap' = None /\ target' = None /\ page' = None
      /\ UNCHANGED <<store, saved, drawn>>
  BY DEF Feed!Bootstrap, Feed!storeVars
<1>2. Journaled(snap) /\ snap \in FeedStore /\ Journaled(store) /\ store \in FeedStore
  BY <1>1 DEF FeedInv, Journaled
<1>3. CASE snap.enabled
  <2>1. /\ source' = snap.id /\ covered' = snap.high
        /\ copy' = [i \in Followed |-> snap.revision[i]]
    BY <1>3 DEF Feed!Bootstrap
  <2>2. Followed \subseteq Items /\ copy' \in [Followed -> Nat]
    BY <1>2, <2>1, FilesAssumption DEF Feed!FeedAssumption, FeedStore
  <2>3. snap.id \in Nat /\ snap.id <= drawn
    BY <1>1, <1>2 DEF FeedInv, FeedStore
  <2>4. source' = store.id => FollowerInv'
    <3> SUFFICES ASSUME snap.id = store.id PROVE FollowerInv'
      BY <2>1
    <3>1. Earlier(snap, store)
      BY <1>1 DEF FeedInv
    <3>2. covered' \in Nat /\ covered' <= store.high
      BY <1>2, <2>1, <3>1 DEF Earlier, FeedStore
    <3>3. \A r \in store.rows :
            r.item \in Followed /\ r.seq <= covered' => r.revision <= copy'[r.item]
      BY <1>2, <2>1, <3>1 DEF Earlier, Journaled
    <3>4. \A i \in Followed : \/ copy'[i] = store.revision[i]
                              \/ /\ copy'[i] < store.revision[i]
                                 /\ \E r \in store.rows : r.item = i /\ covered' < r.seq
      BY <2>1, <2>2, <3>1 DEF Earlier
    <3>5. QED BY <1>1, <2>2, <3>2, <3>3, <3>4 DEF FollowerInv, PageInv
  <2>5. QED BY <1>1, <2>1, <2>3, <2>4 DEF FeedInv
<1>4. CASE ~snap.enabled
  <2>1. UNCHANGED <<source, covered, copy>>
    BY <1>4 DEF Feed!Bootstrap
  <2>2. source # store.id
    BY <1>1, <1>2, FilesAssumption DEF Feed!FeedAssumption, FeedStore
  <2>3. QED BY <1>1, <2>1, <2>2 DEF FeedInv
<1>5. QED BY <1>3, <1>4

(* The lowest row of the page is the next one the store has for the scan.   *)
LEMMA ApplyKeepsFeed == ASSUME FeedInv, NEW r, Feed!Apply(r) PROVE FeedInv'
<1>1. /\ page # None /\ r \in page /\ \A q \in page : r.seq <= q.seq
      /\ copy' = [copy EXCEPT ![r.item] = r.revision]
      /\ covered' = r.seq /\ page' = page \ {r}
      /\ UNCHANGED <<store, saved, drawn, snap, source, target, more>>
  BY DEF Feed!Apply, Feed!storeVars
<1>2. Journaled(store) /\ store \in FeedStore
  BY DEF FeedInv, Journaled
<1>3. CASE source = store.id
  <2>1. FollowerInv /\ PageInv /\ copy \in [Followed -> Nat]
    BY <1>3 DEF FeedInv, FollowerInv
  <2>2. r \in store.rows /\ r.item \in Followed /\ covered < r.seq /\ r.seq <= target
    BY <1>1, <2>1 DEF PageInv, Ahead
  <2>3. r \in Row /\ covered \in Nat /\ target \in Nat /\ target <= store.high
    BY <1>1, <1>2, <2>1, <2>2 DEF FollowerInv, PageInv, FeedStore
  <2>4. copy' \in [Followed -> Nat]
    BY <1>1, <2>1, <2>2, <2>3 DEF Row
  <2>5. \A q \in store.rows : q \in Row
    BY <1>2 DEF FeedStore
  <2>6. \A q \in Ahead(covered, target) : r.seq <= q.seq
    BY <1>1, <2>1, <2>3, <2>5 DEF PageInv, Ahead, Row
  <2>7. \A q \in store.rows : q.item \in Followed /\ covered < q.seq => r.seq <= q.seq
    BY <2>3, <2>2, <2>5, <2>6 DEF Ahead, Row
  <2>8. covered' \in Nat /\ covered' <= store.high
    BY <1>1, <1>2, <2>2, <2>3 DEF Row, FeedStore
  <2>9. \A q \in store.rows : q.seq = r.seq => q = r
    BY <1>2, <2>2 DEF Journaled
  <2>10. PageInv'
    <3>1. page' \subseteq Ahead(r.seq, target)
      BY <1>1, <2>1, <2>2, <2>3, <2>5, <2>9 DEF PageInv, Ahead, Row
    <3>2. Ahead(r.seq, target) \subseteq Ahead(covered, target) \ {r}
      BY <2>2, <2>3, <2>5 DEF Ahead, Row
    <3>3. \A q \in Ahead(r.seq, target) \ page' : more /\ \A x \in page : x.seq < q.seq
      BY <1>1, <2>1, <3>2 DEF PageInv
    <3>4. Ahead(covered, target)' = Ahead(r.seq, target)
      BY <1>1 DEF Ahead
    <3>5. QED BY <1>1, <2>1, <3>1, <3>3, <3>4 DEF PageInv
  <2>11. \A q \in store.rows :
           q.item \in Followed /\ q.seq <= r.seq => q.revision <= copy'[q.item]
    <3> SUFFICES ASSUME NEW q \in store.rows, q.item \in Followed, q.seq <= r.seq
                 PROVE  q.revision <= copy'[q.item]
      OBVIOUS
    <3>1. CASE q.item = r.item
      <4>1. copy'[q.item] = r.revision
        BY <1>1, <2>1, <2>2, <3>1
      <4>2. q = r \/ q.seq < r.seq
        BY <2>3, <2>5, <2>9 DEF Row
      <4>3. QED BY <1>2, <2>2, <2>3, <2>5, <3>1, <4>1, <4>2 DEF Journaled, Row
    <3>2. CASE q.item # r.item
      <4>1. copy'[q.item] = copy[q.item]
        BY <1>1, <2>1, <3>2
      <4>2. q.seq < r.seq
        BY <2>3, <2>5, <2>9, <3>2 DEF Row
      <4>3. q.seq <= covered
        BY <2>3, <2>5, <2>7, <4>2 DEF Row
      <4>4. QED BY <2>1, <4>1, <4>3 DEF FollowerInv
    <3>3. QED BY <3>1, <3>2
  <2>12. \A i \in Followed : \/ copy'[i] = store.revision[i]
                             \/ /\ copy'[i] < store.revision[i]
                                /\ \E q \in store.rows : q.item = i /\ r.seq < q.seq
    <3> SUFFICES ASSUME NEW i \in Followed
                 PROVE  \/ copy'[i] = store.revision[i]
                        \/ /\ copy'[i] < store.revision[i]
                           /\ \E q \in store.rows : q.item = i /\ r.seq < q.seq
      OBVIOUS
    <3>1. CASE i = r.item
      <4>1. copy'[i] = r.revision
        BY <1>1, <2>1, <3>1
      <4>2. r.revision <= store.revision[i] /\ r.revision \in Nat /\ store.revision[i] \in Nat
        BY <1>2, <2>2, <2>3, <3>1 DEF Journaled, FeedStore, Row
      <4>3. \/ r.revision = store.revision[i]
            \/ \E q \in store.rows : q.item = i /\ r.seq < q.seq
        BY <1>2, <2>2, <3>1 DEF Journaled
      <4>4. QED BY <4>1, <4>2, <4>3
    <3>2. CASE i # r.item
      <4>1. copy'[i] = copy[i]
        BY <1>1, <2>1, <3>2
      <4>2. CASE copy[i] # store.revision[i]
        <5>1. PICK q \in store.rows : q.item = i /\ covered < q.seq
          BY <2>1, <4>2 DEF FollowerInv
        <5>2. r.seq < q.seq
          BY <2>3, <2>5, <2>7, <2>9, <3>2, <5>1 DEF Row
        <5>3. QED BY <2>1, <4>1, <4>2, <5>1, <5>2 DEF FollowerInv
      <4>3. QED BY <4>1, <4>2
    <3>3. QED BY <3>1, <3>2
  <2>13. FollowerInv'
    <3>1. target' # None => target' \in Nat /\ covered' <= target' /\ target' <= store'.high
      BY <1>1, <2>2, <2>3 DEF Row
    <3>2. QED BY <1>1, <2>4, <2>8, <2>10, <2>11, <2>12, <3>1 DEF FollowerInv
  <2>14. QED BY <1>1, <2>13 DEF FeedInv
<1>4. CASE source # store.id
  BY <1>1, <1>4 DEF FeedInv
<1>5. QED BY <1>3, <1>4

LEMMA PageDoneKeepsFeed == ASSUME FeedInv, Feed!PageDone PROVE FeedInv'
<1>1. /\ page = {} /\ page' = None
      /\ IF more THEN UNCHANGED <<covered, target>> ELSE covered' = target /\ target' = None
      /\ UNCHANGED <<store, saved, drawn, snap, source, more, copy>>
  BY DEF Feed!PageDone, Feed!storeVars
<1>2. page # None
  BY <1>1, FilesAssumption DEF Feed!FeedAssumption
<1>3. source = store.id => FollowerInv'
  <2> SUFFICES ASSUME source = store.id PROVE FollowerInv'
    OBVIOUS
  <2>1. FollowerInv /\ PageInv
    BY DEF FeedInv, FollowerInv
  <2>2. CASE more
    BY <1>1, <2>1, <2>2 DEF FollowerInv, PageInv
  <2>3. CASE ~more
    <3>1. Ahead(covered, target) = {} /\ target # None
      BY <1>1, <1>2, <2>1, <2>3 DEF PageInv
    <3>2. target \in Nat /\ covered \in Nat /\ covered <= target /\ target <= store.high
      BY <2>1, <3>1 DEF FollowerInv
    <3>3. \A r \in store.rows : r.seq \in Nat
      BY DEF FeedInv, Journaled, FeedStore, Row
    <3>4. \A r \in store.rows :
            r.item \in Followed => (r.seq <= target <=> r.seq <= covered)
      BY <3>1, <3>2, <3>3 DEF Ahead
    <3>5. \A r \in store.rows :
            r.item \in Followed => (target < r.seq <=> covered < r.seq)
      BY <3>2, <3>3, <3>4
    <3>6. QED BY <1>1, <2>1, <2>3, <3>2, <3>4, <3>5 DEF FollowerInv, PageInv
  <2>4. QED BY <2>2, <2>3
<1>4. QED BY <1>1, <1>3 DEF FeedInv

LEMMA CrashKeepsFeed == ASSUME FeedInv, Feed!Crash PROVE FeedInv'
<1>1. /\ snap' = None /\ page' = None
      /\ UNCHANGED <<store, saved, drawn, source, covered, target, more, copy>>
  BY DEF Feed!Crash, Feed!storeVars
<1>2. FollowerInv => FollowerInv'
  BY <1>1 DEF FollowerInv, PageInv
<1>3. QED BY <1>1, <1>2 DEF FeedInv

LEMMA FeedStep == ASSUME FeedInv, Feed!Next PROVE FeedInv'
<1>1. CASE Feed!StoreStep
  BY <1>1, CommitKeepsFeed, FlagsKeepFeed, BackupKeepsFeed, RestoreKeepsFeed DEF Feed!StoreStep
<1>2. CASE Feed!FollowerStep
  BY <1>2, BeginKeepsFeed, FetchKeepsFeed, FetchRefusedKeepsFeed, BootstrapKeepsFeed,
     PageDoneKeepsFeed, ApplyKeepsFeed DEF Feed!FollowerStep
<1>3. QED BY <1>1, <1>2, CrashKeepsFeed DEF Feed!Next

(* The maintenance view draws generations and leaves the feed alone: its    *)
(* follower has no source.                                                  *)
FeedPart ==
    /\ part \in {"maintenance", "feed"}
    /\ IF part = "feed" THEN FeedInv ELSE source = None /\ store = Feed!NewStore

LEMMA FeedPartIsExact == FeedPart => FollowerIsExact
BY FeedInvIsExact, FilesAssumption
DEF FeedPart, FollowerIsExact, Feed!FollowerIsExact, Feed!NewStore, Feed!FeedAssumption

LEMMA FeedPartInit == FilesInit => FeedPart
BY FeedInitInvariant DEF FilesInit, FeedPart, Feed!Init

LEMMA FeedPartStep == ASSUME FeedPart, [FilesNext]_filesVars PROVE FeedPart'
<1>1. CASE part = "maintenance" /\ Next /\ UNCHANGED <<part, feedVars>>
  BY <1>1 DEF FeedPart, feedVars, Feed!NewStore
<1>2. CASE part = "feed" /\ Feed!Next /\ UNCHANGED <<part, fileVars>>
  BY <1>2, FeedStep DEF FeedPart
<1>3. CASE UNCHANGED filesVars
  <2>1. UNCHANGED <<part, drawn, store, saved, snap, source, covered, target, page, more, copy>>
    BY <1>3 DEF filesVars, feedVars
  <2>2. FollowerInv => FollowerInv'
    BY <2>1 DEF FollowerInv, PageInv, Ahead
  <2>3. QED BY <2>1, <2>2 DEF FeedPart, FeedInv, Feed!NewStore
<1>4. QED BY <1>1, <1>2, <1>3 DEF FilesNext

(* The follower's copy is exact at the position it covers: whatever is      *)
(* pruned, restored, crashed or cut into pages, it knows every revision     *)
(* journaled up to there, and rows past it say so where it is behind.       *)
THEOREM FollowerStaysExact == FilesSpec => []FollowerIsExact
<1>1. FilesInit => FeedPart
  BY FeedPartInit
<1>2. FeedPart /\ [FilesNext]_filesVars => FeedPart'
  BY FeedPartStep
<1>3. FeedPart => FollowerIsExact
  BY FeedPartIsExact
<1>4. QED BY <1>1, <1>2, <1>3, PTL DEF FilesSpec

-----------------------------------------------------------------------------
(* The maintenance commands.  What each phase knows of the files: between   *)
(* the check and the end of a command nothing else touches them.            *)

File == Stores \cup {Old, Missing, Claimed}

Phases == {"idle", "checking", "staging", "drawing", "claiming", "copying", "publishing",
           "verifying", "transacting", "syncing", "replying"}

Op ==
    [phase : Phases, cmd : Commands \cup {None}, staged : File \cup {None},
     generation : 0..MaxGenerations, source : File \cup {None}, before : File \cup {None},
     result : {None, "usage", "failed", "ok", "unknown"}]

MaintTypes ==
    /\ files \in [Paths -> File]
    /\ window \in BOOLEAN
    /\ drawn \in 1..MaxGenerations
    /\ commits \in 0..MaxCommits
    /\ op \in Op
    /\ ~window => op = Idle
    /\ op.phase # "idle" => op.cmd \in Commands /\ op.result = None

KindOfPhase ==
    /\ op.phase \in {"checking", "claiming", "copying"} => op.cmd.kind \in {"backup", "restore"}
    /\ op.phase \in {"staging", "drawing", "publishing", "verifying"} => op.cmd.kind = "restore"
    /\ op.phase \in {"transacting", "replying"} => op.cmd.kind \in {"prune", "activate"}
    /\ op.phase = "syncing" => op.cmd.kind = "backup"

Restoring == op.phase # "idle" /\ op.cmd.kind = "restore"
Restored == op.phase = "idle" /\ op.result = "ok" /\ op.cmd.kind = "restore"

Renewed(file, generation) ==
    [file EXCEPT !.generation = generation, !.sync = FALSE, !.bootstrap = TRUE]

(* The generation drawn is ahead of every file but the published store.     *)
Fresh(paths) ==
    op.generation = drawn
    /\ \A p \in paths : IsStore(files[p]) => files[p].generation < drawn

PhaseInv ==
    /\ op.phase \in {"staging", "drawing", "claiming", "copying", "publishing"} =>
         Distinct /\ op.before = files[Live]
    /\ op.phase = "staging" => op.source = files[op.cmd.from]
    /\ op.phase = "drawing" => op.staged = op.source /\ op.source \in Stores
    /\ Restoring /\ op.phase \in {"claiming", "copying", "publishing"} =>
         /\ op.source \in Stores /\ op.staged = Renewed(op.source, op.generation)
         /\ Fresh(Paths)
    /\ op.phase = "copying" => files[Output] = Claimed
    /\ op.phase = "publishing" => files[Output] = files[Live]
    /\ op.phase = "verifying" \/ Restored =>
         /\ files[Live] = Renewed(op.source, op.generation)
         /\ Output # Live /\ files[Output] = op.before
         /\ Fresh(Paths \ {Live})

Generations == \A p \in Paths : IsStore(files[p]) => files[p].generation <= drawn

MaintInv == MaintTypes /\ KindOfPhase /\ PhaseInv /\ Generations

LEMMA MaintInvIsExact == MaintInv => VerifiedRestoreIsExact
<1> SUFFICES ASSUME MaintInv, op.result = "ok", op.cmd.kind = "restore"
             PROVE  VerifiedRestoreIsExact
  BY DEF VerifiedRestoreIsExact
<1>1. op.phase = "idle"
  BY FilesAssumption DEF MaintInv, MaintTypes, MaintenanceAssumption
<1>2. /\ files[Live] = Renewed(op.source, op.generation) /\ files[Output] = op.before
      /\ Fresh(Paths \ {Live})
  BY <1>1 DEF MaintInv, PhaseInv, Restored
<1>3. \A p \in Paths \ {Live} : IsStore(files[p]) => files[p].generation # op.generation
  <2>1. \A p \in Paths \ {Live} : IsStore(files[p]) => files[p] \in Stores
    BY DEF MaintInv, MaintTypes, File, IsStore
  <2>2. QED BY <1>2, <2>1 DEF Fresh, Stores
<1>4. QED BY <1>2, <1>3 DEF VerifiedRestoreIsExact, Renewed

LEMMA StoreFacts ==
    ASSUME MaintInv, NEW p \in Paths, IsStore(files[p])
    PROVE  files[p] \in Stores
BY DEF MaintInv, MaintTypes, File, IsStore

LEMMA IdleIsOp == Idle \in Op
BY FilesAssumption DEF Idle, Op, Phases, MaintenanceAssumption

LEMMA MaintInitInvariant == Init => MaintInv
<1> SUFFICES ASSUME Init PROVE MaintInv
  OBVIOUS
<1> USE FilesAssumption DEF MaintenanceAssumption
<1>1. NewStore \in Stores
  BY DEF NewStore, Stores
<1>2. /\ files \in [Paths -> File] /\ files[Live] = NewStore
      /\ \A p \in Paths : p # Live => files[p] \in {Old, Missing}
  BY <1>1 DEF Init, File
<1>3. op = Idle /\ op.phase = "idle" /\ op.result # "ok" /\ Idle \in Op /\ window = FALSE
      /\ drawn = 1 /\ commits = 0
  BY IdleIsOp DEF Init, Idle
<1>4. MaintTypes
  <2>1. drawn \in 1..MaxGenerations
    BY <1>3
  <2>2. commits \in 0..MaxCommits
    BY <1>3
  <2>3. op \in Op
    BY <1>3
  <2>4. window \in BOOLEAN
    BY <1>3
  <2>5. QED BY <1>2, <1>3, <2>1, <2>2, <2>3, <2>4 DEF MaintTypes
<1>8. KindOfPhase
  BY <1>3 DEF KindOfPhase
<1>5. PhaseInv
  BY <1>3 DEF PhaseInv, Restoring, Restored
<1>6. Generations
  BY <1>2, <1>3 DEF Generations, NewStore, IsStore
<1>7. QED BY <1>4, <1>5, <1>6, <1>8 DEF MaintInv

(* A phase other than idle has a command, of its kind, inside the window.   *)
LEMMA InPhase ==
    ASSUME MaintInv, op.phase # "idle"
    PROVE  op \in Op /\ op.cmd \in Commands /\ window = TRUE /\ op.result = None
BY DEF MaintInv, MaintTypes, Idle

LEMMA EndKeeps ==
    ASSUME MaintInv, op.phase # "idle", UNCHANGED <<files, window, drawn, commits>>,
           \/ op' = [op EXCEPT !.phase = "idle", !.result = "failed"]
           \/ op' = [op EXCEPT !.phase = "idle", !.result = "ok"] /\ op.cmd.kind # "restore"
           \/ op' = [Idle EXCEPT !.result = "unknown"]
    PROVE  MaintInv'
<1>1. op \in Op /\ Idle \in Op /\ window = TRUE
  BY InPhase, IdleIsOp
<1>2. op' \in Op /\ op'.phase = "idle"
      /\ (op'.result # "ok" \/ op'.cmd.kind # "restore")
  <2>1. CASE op' = [op EXCEPT !.phase = "idle", !.result = "failed"]
    BY <1>1, <2>1 DEF Op, Phases
  <2>2. CASE op' = [op EXCEPT !.phase = "idle", !.result = "ok"] /\ op.cmd.kind # "restore"
    BY <1>1, <2>2 DEF Op, Phases
  <2>3. CASE op' = [Idle EXCEPT !.result = "unknown"]
    BY <1>1, <2>3 DEF Op, Phases, Idle
  <2>4. QED BY <2>1, <2>2, <2>3
<1>3. MaintTypes'
  BY <1>1, <1>2 DEF MaintInv, MaintTypes
<1>4. KindOfPhase'
  BY <1>2 DEF KindOfPhase
<1>5. PhaseInv'
  BY <1>2 DEF PhaseInv, Restoring, Restored
<1>6. Generations'
  BY DEF MaintInv, Generations
<1>7. QED BY <1>3, <1>4, <1>5, <1>6 DEF MaintInv

(* Steps that leave no command running.                                     *)
LEMMA IdleKeeps ==
    ASSUME MaintInv, op' \in Op, op'.phase = "idle",
           op'.result # "ok" \/ op'.cmd.kind # "restore",
           ~window' => op' = Idle, window' \in BOOLEAN,
           UNCHANGED <<drawn>>, files' \in [Paths -> File], commits' \in 0..MaxCommits,
           \A p \in Paths : IsStore(files'[p]) => files'[p].generation <= drawn
    PROVE  MaintInv'
<1>1. MaintTypes'
  BY DEF MaintInv, MaintTypes
<1>2. KindOfPhase'
  BY DEF KindOfPhase
<1>3. PhaseInv'
  BY DEF PhaseInv, Restoring, Restored
<1>4. Generations'
  BY DEF MaintInv, Generations
<1>5. QED BY <1>1, <1>2, <1>3, <1>4 DEF MaintInv

LEMMA WriteKeeps == ASSUME MaintInv, Write PROVE MaintInv'
<1> DEFINE live == files[Live]
<1>1. /\ ~window /\ IsStore(live) /\ commits < MaxCommits
      /\ commits' = commits + 1 /\ UNCHANGED <<window, op, drawn>>
      /\ files' = [files EXCEPT ![Live].history = Append(@, commits + 1)]
  BY DEF Write, Valid
<1>2. /\ Live \in Paths /\ files \in [Paths -> File] /\ commits \in 0..MaxCommits
      /\ MaxCommits \in Nat /\ op = Idle /\ window \in BOOLEAN
  BY <1>1, FilesAssumption DEF MaintInv, MaintTypes, MaintenanceAssumption
<1>3. live \in Stores
  BY <1>1, <1>2, StoreFacts
<1> DEFINE next == [live EXCEPT !.history = Append(live.history, commits + 1)]
<1>4. files' = [files EXCEPT ![Live] = next]
  BY <1>1
<1>5. next \in Stores /\ next.generation = live.generation
  <2>1. Append(live.history, commits + 1) \in Seq(1..MaxCommits)
    BY <1>1, <1>2, <1>3 DEF Stores
  <2>2. QED BY <1>3, <2>1 DEF Stores
<1> HIDE DEF next
<1>6. files' \in [Paths -> File]
  BY <1>2, <1>4, <1>5 DEF File
<1>7. \A p \in Paths : IsStore(files'[p]) => files'[p].generation <= drawn
  BY <1>1, <1>2, <1>4, <1>5 DEF MaintInv, Generations
<1>8. op' \in Op /\ op'.phase = "idle" /\ op'.result # "ok"
  BY <1>1, <1>2, IdleIsOp, FilesAssumption DEF Idle, MaintenanceAssumption
<1>9. commits' \in 0..MaxCommits
  BY <1>1, <1>2
<1>10. QED BY <1>1, <1>2, <1>6, <1>7, <1>8, <1>9, IdleKeeps

LEMMA WindowKeeps == ASSUME MaintInv, OpenWindow \/ CloseWindow PROVE MaintInv'
<1>1. /\ op' = Idle /\ window' \in BOOLEAN /\ UNCHANGED <<files, drawn, commits>>
  BY DEF OpenWindow, CloseWindow
<1>2. op' \in Op /\ op'.phase = "idle" /\ op'.result # "ok"
  BY <1>1, IdleIsOp, FilesAssumption DEF Idle, MaintenanceAssumption
<1>3. files' \in [Paths -> File] /\ commits' \in 0..MaxCommits
  BY <1>1 DEF MaintInv, MaintTypes
<1>4. \A p \in Paths : IsStore(files'[p]) => files'[p].generation <= drawn
  BY <1>1 DEF MaintInv, Generations
<1>5. QED BY <1>1, <1>2, <1>3, <1>4, IdleKeeps

LEMMA RunKeeps == ASSUME MaintInv, NEW cmd \in Commands, Run(cmd) PROVE MaintInv'
<1>1. window /\ UNCHANGED <<files, window, drawn, commits>>
  BY DEF Run
<1>2. /\ op' \in Op /\ op'.cmd = cmd
      /\ \/ op'.phase = "idle" /\ op'.result = "usage"
         \/ op'.phase = "checking" /\ op'.result = None /\ cmd.kind \in {"backup", "restore"}
         \/ op'.phase = "transacting" /\ op'.result = None /\ cmd.kind \in {"prune", "activate"}
  <2>1. cmd.kind \in {"backup", "restore", "prune", "activate"}
    BY DEF Commands
  <2>2. CASE ~cmd.offline
    BY <2>2, IdleIsOp DEF Run, Op, Idle
  <2>3. CASE cmd.offline /\ cmd.kind \in {"backup", "restore"}
    BY <2>3, IdleIsOp DEF Run, Op, Phases, Idle
  <2>4. CASE cmd.offline /\ cmd.kind \in {"prune", "activate"}
    BY <2>4, IdleIsOp DEF Run, Op, Phases, Idle
  <2>5. QED BY <2>1, <2>2, <2>3, <2>4
<1>3. MaintTypes'
  BY <1>1, <1>2 DEF MaintInv, MaintTypes
<1>4. KindOfPhase'
  BY <1>2 DEF KindOfPhase
<1>5. PhaseInv'
  BY <1>2 DEF PhaseInv, Restoring, Restored
<1>6. Generations'
  BY <1>1 DEF MaintInv, Generations
<1>7. QED BY <1>3, <1>4, <1>5, <1>6 DEF MaintInv

LEMMA CheckKeeps == ASSUME MaintInv, Check PROVE MaintInv'
<1>1. op.phase = "checking" /\ UNCHANGED <<files, window, drawn, commits>>
  BY DEF Check
<1>2. /\ op \in Op /\ op.cmd \in Commands /\ window = TRUE /\ op.result = None
      /\ op.cmd.kind \in {"backup", "restore"} /\ files \in [Paths -> File] /\ Live \in Paths
  BY <1>1, InPhase, FilesAssumption DEF MaintInv, KindOfPhase, MaintTypes, MaintenanceAssumption
<1>3. CASE op' = [op EXCEPT !.phase = "idle", !.result = "failed"]
  BY <1>1, <1>3, EndKeeps
<1>4. CASE /\ Distinct
           /\ op' = [op EXCEPT
                 !.phase = IF op.cmd.kind = "restore" THEN "staging" ELSE "claiming",
                 !.before = files[Live],
                 !.source = IF op.cmd.kind = "restore" THEN files[op.cmd.from] ELSE None]
  <2>1. op.cmd.kind = "restore" => op.cmd.from \in Paths
    BY <1>2 DEF Commands
  <2>2. /\ op' \in Op /\ op'.cmd = op.cmd /\ op'.result = None /\ op'.before = files[Live]
        /\ op'.phase = IF op.cmd.kind = "restore" THEN "staging" ELSE "claiming"
        /\ op.cmd.kind = "restore" => op'.source = files[op.cmd.from]
    BY <1>2, <1>4, <2>1 DEF Op, Phases
  <2>3. MaintTypes'
    BY <1>1, <1>2, <2>2 DEF MaintInv, MaintTypes
  <2>4. KindOfPhase'
    BY <1>2, <2>2 DEF KindOfPhase
  <2>5. Distinct'
    BY <1>1, <1>4, <2>2 DEF Distinct, Named, Output
  <2>6. PhaseInv'
    BY <1>1, <1>2, <2>2, <2>5 DEF PhaseInv, Restoring, Restored
  <2>7. Generations'
    BY <1>1 DEF MaintInv, Generations
  <2>8. QED BY <2>3, <2>4, <2>6, <2>7 DEF MaintInv
<1>5. QED BY <1>3, <1>4 DEF Check, End

LEMMA StageKeeps == ASSUME MaintInv, Stage PROVE MaintInv'
<1>1. op.phase = "staging" /\ UNCHANGED <<files, window, drawn, commits>>
  BY DEF Stage
<1>2. /\ op \in Op /\ op.cmd \in Commands /\ window = TRUE /\ op.result = None
      /\ op.cmd.kind = "restore" /\ files \in [Paths -> File]
  BY <1>1, InPhase DEF MaintInv, KindOfPhase, MaintTypes
<1>3. CASE op' = [op EXCEPT !.phase = "idle", !.result = "failed"]
  BY <1>1, <1>3, EndKeeps
<1>4. CASE /\ Valid(files[op.cmd.from])
           /\ op' = [op EXCEPT !.phase = "drawing", !.staged = files[op.cmd.from]]
  <2>1. op.cmd.from \in Paths
    BY <1>2 DEF Commands
  <2>2. /\ op' \in Op /\ op'.cmd = op.cmd /\ op'.result = None /\ op'.before = op.before
        /\ op'.phase = "drawing" /\ op'.staged = files[op.cmd.from] /\ op'.source = op.source
    BY <1>2, <1>4, <2>1 DEF Op, Phases
  <2>3. MaintTypes'
    BY <1>1, <1>2, <2>2 DEF MaintInv, MaintTypes
  <2>4. KindOfPhase'
    BY <1>2, <2>2 DEF KindOfPhase
  <2>5. /\ Distinct /\ op.before = files[Live] /\ op.source = files[op.cmd.from]
        /\ op.source \in Stores
    BY <1>1, <1>4, <2>1, StoreFacts DEF MaintInv, PhaseInv, Valid
  <2>6. Distinct'
    BY <2>2, <2>5 DEF Distinct, Named, Output
  <2>7. PhaseInv'
    BY <1>1, <1>4, <2>2, <2>5, <2>6 DEF PhaseInv, Restoring, Restored
  <2>8. Generations'
    BY <1>1 DEF MaintInv, Generations
  <2>9. QED BY <2>3, <2>4, <2>7, <2>8 DEF MaintInv
<1>5. QED BY <1>3, <1>4 DEF Stage, End

(* The generation drawn is later than every file's.                         *)
LEMMA DrawKeeps == ASSUME MaintInv, Draw PROVE MaintInv'
<1>1. /\ op.phase = "drawing" /\ drawn < MaxGenerations /\ drawn' = drawn + 1
      /\ UNCHANGED <<files, window, commits>>
  BY DEF Draw
<1>2. /\ op \in Op /\ op.cmd \in Commands /\ window = TRUE /\ op.result = None
      /\ op.cmd.kind = "restore" /\ files \in [Paths -> File] /\ drawn \in 1..MaxGenerations
      /\ MaxGenerations \in Nat
  BY <1>1, InPhase, FilesAssumption DEF MaintInv, KindOfPhase, MaintTypes, MaintenanceAssumption
<1>3. /\ Distinct /\ op.before = files[Live] /\ op.staged = op.source /\ op.source \in Stores
  BY <1>1 DEF MaintInv, PhaseInv
<1>4. op' = [op EXCEPT !.phase = "claiming", !.generation = drawn + 1,
                       !.staged = Renewed(op.source, drawn + 1)]
  BY <1>2, <1>3 DEF Draw, Renewed, Op, Stores
<1>5. Renewed(op.source, drawn + 1) \in Stores /\ drawn + 1 \in 1..MaxGenerations
  <2>1. drawn + 1 \in 1..MaxGenerations
    BY <1>1, <1>2
  <2>2. ASSUME NEW g \in 1..MaxGenerations PROVE Renewed(op.source, g) \in Stores
    BY <1>3 DEF Renewed, Stores
  <2>3. QED BY <2>1, <2>2
<1>6. /\ op' \in Op /\ op'.cmd = op.cmd /\ op'.result = None /\ op'.before = op.before
      /\ op'.phase = "claiming" /\ op'.staged = Renewed(op.source, drawn + 1)
      /\ op'.source = op.source /\ op'.generation = drawn + 1
  <2> DEFINE g == drawn + 1  staged == Renewed(op.source, drawn + 1)
  <2>1. g \in 0..MaxGenerations /\ staged \in File \cup {None}
    BY <1>2, <1>5 DEF File
  <2> HIDE DEF g, staged
  <2>2. op' = [op EXCEPT !.phase = "claiming", !.generation = g, !.staged = staged]
    BY <1>4 DEF g, staged
  <2>3. /\ op' \in Op /\ op'.cmd = op.cmd /\ op'.result = None /\ op'.before = op.before
        /\ op'.phase = "claiming" /\ op'.staged = staged
        /\ op'.source = op.source /\ op'.generation = g
    BY <1>2, <2>1, <2>2 DEF Op, Phases
  <2>4. QED BY <2>3 DEF g, staged
<1>7. MaintTypes'
  BY <1>1, <1>2, <1>5, <1>6 DEF MaintInv, MaintTypes
<1>8. KindOfPhase'
  BY <1>2, <1>6 DEF KindOfPhase
<1>9. Distinct'
  BY <1>3, <1>6 DEF Distinct, Named, Output
<1>10. \A p \in Paths : IsStore(files[p]) => files[p].generation <= drawn
                                           /\ files[p].generation \in Nat
  BY StoreFacts DEF MaintInv, Generations, Stores
<1>11. Fresh(Paths)' /\ Generations'
  BY <1>1, <1>2, <1>6, <1>10 DEF Fresh, Generations
<1>12. PhaseInv'
  BY <1>1, <1>3, <1>6, <1>9, <1>11 DEF PhaseInv, Restoring, Restored
<1>13. QED BY <1>7, <1>8, <1>11, <1>12 DEF MaintInv

(* The output is created beside the store and what a restore was given:     *)
(* neither is spoilt.                                                       *)
LEMMA DistinctOutput ==
    ASSUME Distinct, op.cmd \in Commands, op.cmd.kind \in {"backup", "restore"}
    PROVE  /\ Output \in Paths /\ Output # Live /\ {Live, Output} \notin Collide
<1>1. Output \in Paths
  BY DEF Commands, Output
<1>2. CASE op.cmd.kind = "restore"
  <2>1. Named = <<Live, op.cmd.from, Output>>
    BY <1>2 DEF Named
  <2>2. 1 \in DOMAIN Named /\ 3 \in DOMAIN Named /\ Named[1] = Live /\ Named[3] = Output
    BY <2>1
  <2>3. QED BY <1>1, <2>2 DEF Distinct
<1>3. CASE op.cmd.kind = "backup"
  <2>1. Named = <<Live, Output>>
    BY <1>3 DEF Named
  <2>2. 1 \in DOMAIN Named /\ 2 \in DOMAIN Named /\ Named[1] = Live /\ Named[2] = Output
    BY <2>1
  <2>3. QED BY <1>1, <2>2 DEF Distinct
<1>4. QED BY <1>2, <1>3

LEMMA ClaimKeeps == ASSUME MaintInv, Claim PROVE MaintInv'
<1>1. op.phase = "claiming" /\ UNCHANGED <<window, drawn, commits>>
  BY DEF Claim
<1>2. /\ op \in Op /\ op.cmd \in Commands /\ window = TRUE /\ op.result = None
      /\ op.cmd.kind \in {"backup", "restore"} /\ files \in [Paths -> File] /\ Live \in Paths
  BY <1>1, InPhase, FilesAssumption DEF MaintInv, KindOfPhase, MaintTypes, MaintenanceAssumption
<1>3. CASE op' = [op EXCEPT !.phase = "idle", !.result = "failed"] /\ UNCHANGED files
  BY <1>1, <1>3, EndKeeps
<1>4. CASE /\ Free(Output) /\ op' = [op EXCEPT !.phase = "copying"]
           /\ files' = [Spoilt(Output) EXCEPT ![Output] = Claimed]
  <2>1. Distinct /\ op.before = files[Live]
    BY <1>1 DEF MaintInv, PhaseInv
  <2>2. Output \in Paths /\ Output # Live /\ {Live, Output} \notin Collide
    BY <1>2, <2>1, DistinctOutput
  <2>3. /\ op' \in Op /\ op'.cmd = op.cmd /\ op'.result = None /\ op'.before = op.before
        /\ op'.phase = "copying" /\ op'.staged = op.staged /\ op'.source = op.source
        /\ op'.generation = op.generation
    BY <1>2, <1>4 DEF Op, Phases
  <2>4. ASSUME NEW p \in Paths
        PROVE  /\ Spoilt(Output)[p] \in File
               /\ IsStore(Spoilt(Output)[p]) =>
                    IsStore(files[p]) /\ Spoilt(Output)[p].generation = files[p].generation
    <3>1. CASE IsStore(files[p])
      <4>1. files[p] \in Stores
        BY <3>1, StoreFacts
      <4>2. [files[p] EXCEPT !.intact = FALSE] \in Stores
            /\ [files[p] EXCEPT !.intact = FALSE].generation = files[p].generation
        BY <4>1 DEF Stores
      <4>3. QED BY <3>1, <4>1, <4>2 DEF Spoilt, File
    <3>2. CASE ~IsStore(files[p])
      BY <1>2, <3>2 DEF Spoilt
    <3>3. QED BY <3>1, <3>2
  <2>5. Spoilt(Output)[Live] = files[Live]
    BY <1>2, <2>2 DEF Spoilt
  <2>6. /\ files' \in [Paths -> File] /\ files'[Live] = files[Live] /\ files'[Output] = Claimed
        /\ \A p \in Paths : IsStore(files'[p]) =>
             IsStore(files[p]) /\ files'[p].generation = files[p].generation
    <3>1. Spoilt(Output) \in [Paths -> File] /\ Claimed \in File /\ ~IsStore(Claimed)
      BY <2>4 DEF Spoilt, File, IsStore
    <3> HIDE DEF Spoilt
    <3>2. QED BY <1>2, <1>4, <2>2, <2>4, <2>5, <3>1
  <2>7. MaintTypes'
    BY <1>1, <1>2, <2>3, <2>6 DEF MaintInv, MaintTypes
  <2>8. KindOfPhase'
    BY <1>2, <2>3 DEF KindOfPhase
  <2>9. Distinct' /\ Output' = Output
    BY <2>1, <2>3 DEF Distinct, Named, Output
  <2>10. Fresh(Paths) => Fresh(Paths)'
    BY <1>1, <2>3, <2>6 DEF Fresh
  <2>11. PhaseInv'
    <3>1. Restoring => op.source \in Stores /\ op.staged = Renewed(op.source, op.generation)
                       /\ Fresh(Paths)
      BY <1>1 DEF MaintInv, PhaseInv
    <3>2. QED BY <1>1, <2>1, <2>3, <2>6, <2>9, <2>10, <3>1 DEF PhaseInv, Restoring, Restored
  <2>12. Generations'
    BY <1>1, <2>6 DEF MaintInv, Generations
  <2>13. QED BY <2>7, <2>8, <2>11, <2>12 DEF MaintInv
<1>5. QED BY <1>3, <1>4 DEF Claim, End, Goto

LEMMA CopyKeeps == ASSUME MaintInv, Copy PROVE MaintInv'
<1>1. /\ op.phase = "copying" /\ files' = [files EXCEPT ![Output] = files[Live]]
      /\ UNCHANGED <<window, drawn, commits>>
  BY DEF Copy
<1>2. /\ op \in Op /\ op.cmd \in Commands /\ window = TRUE /\ op.result = None
      /\ op.cmd.kind \in {"backup", "restore"} /\ files \in [Paths -> File] /\ Live \in Paths
  BY <1>1, InPhase, FilesAssumption DEF MaintInv, KindOfPhase, MaintTypes, MaintenanceAssumption
<1>3. Distinct /\ op.before = files[Live]
  BY <1>1 DEF MaintInv, PhaseInv
<1>4. Output \in Paths /\ Output # Live
  BY <1>2, <1>3, DistinctOutput
<1>5. files' \in [Paths -> File] /\ files'[Live] = files[Live] /\ files'[Output] = files[Live]
      /\ \A p \in Paths : files'[p] = files[p] \/ files'[p] = files[Live]
  BY <1>1, <1>2, <1>4
<1>6. \A p \in Paths : IsStore(files'[p]) => files'[p].generation <= drawn
  BY <1>2, <1>5 DEF MaintInv, Generations
<1>7. CASE op.cmd.kind = "restore"
  <2>1. op' = [op EXCEPT !.phase = "publishing"]
    BY <1>7 DEF Copy, Goto
  <2>2. /\ op' \in Op /\ op'.cmd = op.cmd /\ op'.result = None /\ op'.before = op.before
        /\ op'.phase = "publishing" /\ op'.staged = op.staged /\ op'.source = op.source
        /\ op'.generation = op.generation
    BY <1>2, <2>1 DEF Op, Phases
  <2>3. MaintTypes'
    BY <1>1, <1>2, <1>5, <2>2 DEF MaintInv, MaintTypes
  <2>4. KindOfPhase'
    BY <1>7, <2>2 DEF KindOfPhase
  <2>5. Distinct' /\ Output' = Output
    BY <1>3, <2>2 DEF Distinct, Named, Output
  <2>6. /\ op.source \in Stores /\ op.staged = Renewed(op.source, op.generation)
        /\ Fresh(Paths)
    BY <1>1, <1>7 DEF MaintInv, PhaseInv, Restoring
  <2>7. Fresh(Paths)'
    BY <1>1, <1>2, <1>5, <2>2, <2>6 DEF Fresh
  <2>8. PhaseInv'
    BY <1>1, <1>3, <1>5, <2>2, <2>5, <2>6, <2>7 DEF PhaseInv, Restoring, Restored
  <2>9. Generations'
    BY <1>1, <1>6 DEF Generations
  <2>10. QED BY <2>3, <2>4, <2>8, <2>9 DEF MaintInv
<1>8. CASE op.cmd.kind = "backup"
  <2>1. op' = [op EXCEPT !.phase = "syncing"]
    BY <1>8 DEF Copy, Goto
  <2>2. /\ op' \in Op /\ op'.cmd = op.cmd /\ op'.result = None /\ op'.phase = "syncing"
    BY <1>2, <2>1 DEF Op, Phases
  <2>3. MaintTypes'
    BY <1>1, <1>2, <1>5, <2>2 DEF MaintInv, MaintTypes
  <2>4. KindOfPhase'
    BY <1>8, <2>2 DEF KindOfPhase
  <2>5. PhaseInv'
    BY <1>8, <2>2 DEF PhaseInv, Restoring, Restored
  <2>6. Generations'
    BY <1>1, <1>6 DEF Generations
  <2>7. QED BY <2>3, <2>4, <2>5, <2>6 DEF MaintInv
<1>9. QED BY <1>2, <1>7, <1>8

LEMMA PublishKeeps == ASSUME MaintInv, Publish PROVE MaintInv'
<1>1. /\ op.phase = "publishing" /\ files' = [files EXCEPT ![Live] = op.staged]
      /\ op' = [op EXCEPT !.phase = "verifying"]
      /\ UNCHANGED <<window, drawn, commits>>
  BY DEF Publish, Goto
<1>2. /\ op \in Op /\ op.cmd \in Commands /\ window = TRUE /\ op.result = None
      /\ op.cmd.kind = "restore" /\ files \in [Paths -> File] /\ Live \in Paths
      /\ drawn \in 1..MaxGenerations
  BY <1>1, InPhase, FilesAssumption DEF MaintInv, KindOfPhase, MaintTypes, MaintenanceAssumption
<1>3. /\ Distinct /\ op.before = files[Live] /\ files[Output] = files[Live]
      /\ op.source \in Stores /\ op.staged = Renewed(op.source, op.generation) /\ Fresh(Paths)
  BY <1>1, <1>2 DEF MaintInv, PhaseInv, Restoring
<1>4. Output \in Paths /\ Output # Live
  BY <1>2, <1>3, DistinctOutput
<1>5. op.generation = drawn /\ op.staged \in Stores /\ op.staged.generation = drawn
  <2>1. op.generation = drawn
    BY <1>3 DEF Fresh
  <2>2. QED BY <1>2, <1>3, <2>1 DEF Renewed, Stores
<1>6. /\ op' \in Op /\ op'.cmd = op.cmd /\ op'.result = None /\ op'.before = op.before
      /\ op'.phase = "verifying" /\ op'.source = op.source /\ op'.generation = op.generation
  BY <1>1, <1>2 DEF Op, Phases
<1>7. files' \in [Paths -> File] /\ files'[Live] = op.staged
      /\ \A p \in Paths \ {Live} : files'[p] = files[p]
  BY <1>1, <1>2, <1>5 DEF File
<1>8. MaintTypes'
  BY <1>1, <1>2, <1>6, <1>7 DEF MaintInv, MaintTypes
<1>9. KindOfPhase'
  BY <1>2, <1>6 DEF KindOfPhase
<1>10. Output' = Output
  BY <1>6 DEF Output
<1>11. Fresh(Paths \ {Live})'
  BY <1>1, <1>3, <1>6, <1>7 DEF Fresh
<1>12. PhaseInv'
  BY <1>3, <1>4, <1>6, <1>7, <1>10, <1>11 DEF PhaseInv, Restoring, Restored
<1>13. Generations'
  BY <1>1, <1>2, <1>5, <1>7 DEF MaintInv, Generations
<1>14. QED BY <1>8, <1>9, <1>12, <1>13 DEF MaintInv

LEMMA VerifyKeeps == ASSUME MaintInv, Verify PROVE MaintInv'
<1>1. op.phase = "verifying" /\ UNCHANGED <<files, window, drawn, commits>>
  BY DEF Verify
<1>2. /\ op \in Op /\ op.cmd \in Commands /\ window = TRUE /\ op.result = None
      /\ op.cmd.kind = "restore"
  BY <1>1, InPhase DEF MaintInv, KindOfPhase
<1>3. CASE op' = [op EXCEPT !.phase = "idle", !.result = "failed"]
  BY <1>1, <1>3, EndKeeps
<1>4. CASE op' = [op EXCEPT !.phase = "idle", !.result = "ok"]
  <2>1. /\ op' \in Op /\ op'.cmd = op.cmd /\ op'.result = "ok" /\ op'.before = op.before
        /\ op'.phase = "idle" /\ op'.source = op.source /\ op'.generation = op.generation
    BY <1>2, <1>4 DEF Op, Phases
  <2>2. MaintTypes'
    BY <1>1, <1>2, <2>1 DEF MaintInv, MaintTypes
  <2>3. KindOfPhase'
    BY <2>1 DEF KindOfPhase
  <2>4. /\ files[Live] = Renewed(op.source, op.generation)
        /\ Output # Live /\ files[Output] = op.before /\ Fresh(Paths \ {Live})
    BY <1>1 DEF MaintInv, PhaseInv
  <2>5. Output' = Output /\ Fresh(Paths \ {Live})'
    BY <1>1, <2>1, <2>4 DEF Output, Fresh
  <2>6. PhaseInv'
    BY <1>1, <2>1, <2>4, <2>5 DEF PhaseInv, Restoring, Restored
  <2>7. Generations'
    BY <1>1 DEF MaintInv, Generations
  <2>8. QED BY <2>2, <2>3, <2>6, <2>7 DEF MaintInv
<1>5. QED BY <1>3, <1>4 DEF Verify, End

LEMMA TransactKeeps == ASSUME MaintInv, Transact PROVE MaintInv'
<1>1. op.phase = "transacting" /\ UNCHANGED <<window, drawn, commits>>
  BY DEF Transact
<1>2. /\ op \in Op /\ op.cmd \in Commands /\ window = TRUE /\ op.result = None
      /\ op.cmd.kind \in {"prune", "activate"} /\ files \in [Paths -> File] /\ Live \in Paths
  BY <1>1, InPhase, FilesAssumption DEF MaintInv, KindOfPhase, MaintTypes, MaintenanceAssumption
<1>3. CASE op' = [op EXCEPT !.phase = "idle", !.result = "failed"] /\ UNCHANGED files
  BY <1>1, <1>3, EndKeeps
<1>4. CASE /\ ~Refused /\ op' = [op EXCEPT !.phase = "replying"]
           /\ files' = IF op.cmd.kind = "prune"
                       THEN [files EXCEPT ![Live].floor = op.cmd.through]
                       ELSE [files EXCEPT ![Live].sync = TRUE]
  <2>1. files[Live] \in Stores
    BY <1>2, <1>4, StoreFacts DEF Refused, Valid
  <2>2. op.cmd.kind = "prune" => op.cmd.through \in 0..MaxCommits
    BY <1>2 DEF Commands
  <2>3. PICK next \in Stores : /\ files' = [files EXCEPT ![Live] = next]
                               /\ next.generation = files[Live].generation
    <3>1. CASE op.cmd.kind = "prune"
      <4>1. [files[Live] EXCEPT !.floor = op.cmd.through] \in Stores
            /\ [files[Live] EXCEPT !.floor = op.cmd.through].generation = files[Live].generation
        BY <2>1, <2>2, <3>1 DEF Stores
      <4>2. QED BY <1>4, <3>1, <4>1
    <3>2. CASE op.cmd.kind # "prune"
      <4>1. [files[Live] EXCEPT !.sync = TRUE] \in Stores
            /\ [files[Live] EXCEPT !.sync = TRUE].generation = files[Live].generation
        BY <2>1 DEF Stores
      <4>2. QED BY <1>4, <3>2, <4>1
    <3>3. QED BY <3>1, <3>2
  <2>4. files' \in [Paths -> File]
    BY <1>2, <2>3 DEF File
  <2>5. \A p \in Paths : IsStore(files'[p]) => files'[p].generation <= drawn
    BY <1>2, <1>4, <2>3 DEF MaintInv, Generations, Refused, Valid
  <2>6. /\ op' \in Op /\ op'.cmd = op.cmd /\ op'.result = None /\ op'.phase = "replying"
    BY <1>2, <1>4 DEF Op, Phases
  <2>7. MaintTypes'
    BY <1>1, <1>2, <2>4, <2>6 DEF MaintInv, MaintTypes
  <2>8. KindOfPhase'
    BY <1>2, <2>6 DEF KindOfPhase
  <2>9. PhaseInv'
    BY <2>6 DEF PhaseInv, Restoring, Restored
  <2>10. Generations'
    BY <1>1, <2>5 DEF Generations
  <2>11. QED BY <2>7, <2>8, <2>9, <2>10 DEF MaintInv
<1>5. QED BY <1>3, <1>4 DEF Transact, End, Goto

LEMMA MaintStep == ASSUME MaintInv, Next PROVE MaintInv'
<1>1. CASE Reply \/ Fail \/ Die
  <2>1. op.phase # "idle" /\ UNCHANGED <<files, window, drawn, commits>>
    BY <1>1 DEF Reply, Fail, Die
  <2>2. op.phase \in {"syncing", "replying"} => op.cmd.kind # "restore"
    BY DEF MaintInv, KindOfPhase
  <2>3. QED BY <1>1, <2>1, <2>2, EndKeeps DEF Reply, Fail, Die, End
<1>2. QED BY <1>1, WriteKeeps, WindowKeeps, RunKeeps, CheckKeeps, StageKeeps, DrawKeeps,
  ClaimKeeps, CopyKeeps, PublishKeeps, VerifyKeeps, TransactKeeps DEF Next

(* Effects in the trail of a whole store.                                   *)
Holds(file, n) == Valid(file) /\ \E k \in DOMAIN file.history : file.history[k] = n

(* A step that takes no effect from any file but one whose effects another  *)
(* file has loses nothing.                                                  *)
LEMMA NothingLostBy ==
    ASSUME NothingLost, commits' = commits,
           \A p \in Paths, n \in 1..commits :
              Holds(files[p], n) => \E q \in Paths : Holds(files'[q], n)
    PROVE  NothingLost'
BY DEF NothingLost, Holds, Valid, IsStore

LEMMA WriteLosesNothing == ASSUME MaintInv, NothingLost, Write PROVE NothingLost'
<1> DEFINE live == files[Live]
<1>1. /\ Valid(live) /\ commits < MaxCommits /\ commits' = commits + 1
      /\ files' = [files EXCEPT ![Live].history = Append(@, commits + 1)]
  BY DEF Write
<1>2. Live \in Paths /\ files \in [Paths -> File] /\ commits \in 0..MaxCommits /\ MaxCommits \in Nat
  BY FilesAssumption DEF MaintInv, MaintTypes, MaintenanceAssumption
<1>3. live \in Stores
  BY <1>1, <1>2, StoreFacts DEF Valid
<1> DEFINE longer == Append(live.history, commits + 1)
<1> DEFINE next == [live EXCEPT !.history = longer]
<1>4. files' = [files EXCEPT ![Live] = next]
  BY <1>1
<1>5. live.history \in Seq(1..MaxCommits)
  BY <1>3 DEF Stores
<1>6. /\ longer \in Seq(1..MaxCommits) /\ Len(longer) = Len(live.history) + 1
      /\ longer[Len(live.history) + 1] = commits + 1
      /\ \A k \in 1..Len(live.history) : longer[k] = live.history[k]
  BY <1>1, <1>2, <1>5
<1>7. DOMAIN longer = 1..(Len(live.history) + 1) /\ DOMAIN live.history = 1..Len(live.history)
      /\ Len(live.history) \in Nat
  BY <1>5, <1>6
<1> HIDE DEF longer
<1>8. next \in Stores /\ next.intact = live.intact /\ next.history = longer
  BY <1>3, <1>6 DEF Stores
<1>9. Valid(next)
  <2>1. next \notin {Old, Missing, Claimed}
    BY <1>8, FilesAssumption DEF MaintenanceAssumption
  <2>2. QED BY <1>1, <1>8, <2>1 DEF Valid, IsStore
<1> HIDE DEF next
<1>10. files'[Live] = next /\ \A p \in Paths \ {Live} : files'[p] = files[p]
  BY <1>2, <1>4
<1>11. ASSUME NEW n \in 1..(commits + 1) PROVE \E p \in Paths : Holds(files'[p], n)
  <2>1. \A k \in DOMAIN longer : longer[k] = n => Holds(next, n)
    BY <1>8, <1>9 DEF Holds
  <2>2. CASE n = commits + 1
    <3>1. Holds(next, n)
      BY <1>6, <1>7, <2>1, <2>2
    <3>2. QED BY <1>2, <1>10, <3>1
  <2>3. CASE n \in 1..commits
    <3>1. PICK p \in Paths : Holds(files[p], n)
      BY <2>3 DEF NothingLost, Holds
    <3>2. CASE p = Live
      <4>1. \E k \in 1..Len(live.history) : live.history[k] = n
        BY <1>7, <3>1, <3>2 DEF Holds
      <4>2. \E k \in DOMAIN longer : longer[k] = n
        BY <1>6, <1>7, <4>1
      <4>3. QED BY <1>2, <1>10, <2>1, <4>2
    <3>3. CASE p # Live
      BY <1>10, <3>1, <3>3
    <3>4. QED BY <3>2, <3>3
  <2>4. n = commits + 1 \/ n \in 1..commits
    BY <1>2
  <2>5. QED BY <2>2, <2>3, <2>4
<1>12. QED BY <1>1, <1>11 DEF NothingLost, Holds, Valid, IsStore

LEMMA ClaimLosesNothing == ASSUME NamesApart, MaintInv, NothingLost, Claim PROVE NothingLost'
<1>1. op.phase = "claiming" /\ commits' = commits
  BY DEF Claim
<1>2. /\ op.cmd \in Commands /\ op.cmd.kind \in {"backup", "restore"}
      /\ files \in [Paths -> File] /\ Live \in Paths
  BY <1>1, InPhase, FilesAssumption DEF MaintInv, KindOfPhase, MaintTypes, MaintenanceAssumption
<1>3. CASE UNCHANGED files
  BY <1>1, <1>3, NothingLostBy
<1>4. CASE Free(Output) /\ files' = [Spoilt(Output) EXCEPT ![Output] = Claimed]
  <2>1. Output \in Paths /\ Output # Live /\ {Live, Output} \notin Collide
    BY <1>1, <1>2, DistinctOutput DEF MaintInv, PhaseInv
  <2>2. \A p \in Paths : {p, Output} \notin Collide
    BY <2>1 DEF NamesApart
  <2>3. \A p \in Paths \ {Output} : files'[p] = files[p]
    BY <1>2, <1>4, <2>2 DEF Spoilt
  <2>4. ~Valid(files[Output])
    BY <1>4 DEF Free, Valid, IsStore
  <2>5. \A p \in Paths, n \in 1..commits :
          Holds(files[p], n) => \E q \in Paths : Holds(files'[q], n)
    BY <2>3, <2>4 DEF Holds
  <2>6. QED BY <1>1, <2>5, NothingLostBy
<1>5. QED BY <1>3, <1>4 DEF Claim

LEMMA CopyLosesNothing == ASSUME MaintInv, NothingLost, Copy PROVE NothingLost'
<1>1. /\ op.phase = "copying" /\ files' = [files EXCEPT ![Output] = files[Live]]
      /\ commits' = commits
  BY DEF Copy
<1>2. files \in [Paths -> File] /\ files[Output] = Claimed
  BY <1>1 DEF MaintInv, MaintTypes, PhaseInv
<1>3. ~Valid(files[Output])
  BY <1>2 DEF Valid, IsStore
<1>4. \A p \in Paths, n \in 1..commits :
        Holds(files[p], n) => \E q \in Paths : Holds(files'[q], n)
  BY <1>1, <1>2, <1>3 DEF Holds
<1>5. QED BY <1>1, <1>4, NothingLostBy

LEMMA PublishLosesNothing == ASSUME MaintInv, NothingLost, Publish PROVE NothingLost'
<1>1. /\ op.phase = "publishing" /\ files' = [files EXCEPT ![Live] = op.staged]
      /\ commits' = commits
  BY DEF Publish
<1>2. /\ op.cmd \in Commands /\ op.cmd.kind = "restore" /\ files \in [Paths -> File]
      /\ Distinct /\ files[Output] = files[Live]
  BY <1>1, InPhase DEF MaintInv, KindOfPhase, MaintTypes, PhaseInv
<1>3. Output \in Paths /\ Output # Live
  BY <1>2, DistinctOutput
<1>4. \A p \in Paths, n \in 1..commits :
        Holds(files[p], n) => \E q \in Paths : Holds(files'[q], n)
  BY <1>1, <1>2, <1>3
<1>5. QED BY <1>1, <1>4, NothingLostBy

LEMMA TransactLosesNothing == ASSUME MaintInv, NothingLost, Transact PROVE NothingLost'
<1>1. op.phase = "transacting" /\ commits' = commits
  BY DEF Transact
<1>2. files \in [Paths -> File] /\ Live \in Paths
  BY FilesAssumption DEF MaintInv, MaintTypes, MaintenanceAssumption
<1>3. CASE UNCHANGED files
  BY <1>1, <1>3, NothingLostBy
<1>4. CASE /\ ~Refused
           /\ files' = IF op.cmd.kind = "prune"
                       THEN [files EXCEPT ![Live].floor = op.cmd.through]
                       ELSE [files EXCEPT ![Live].sync = TRUE]
  <2>1. files[Live] \in Stores
    BY <1>2, <1>4, StoreFacts DEF Refused, Valid
  <2>2. op.cmd.kind = "prune" => op.cmd.through \in 0..MaxCommits
    <3>1. op.cmd \in Commands
      BY <1>1, InPhase
    <3>2. QED BY <3>1 DEF Commands
  <2>3. PICK next \in Stores : /\ files' = [files EXCEPT ![Live] = next]
                               /\ next.history = files[Live].history
                               /\ next.intact = files[Live].intact
    <3>1. CASE op.cmd.kind = "prune"
      <4>1. /\ [files[Live] EXCEPT !.floor = op.cmd.through] \in Stores
            /\ [files[Live] EXCEPT !.floor = op.cmd.through].history = files[Live].history
            /\ [files[Live] EXCEPT !.floor = op.cmd.through].intact = files[Live].intact
        BY <2>1, <2>2, <3>1 DEF Stores
      <4>2. QED BY <1>4, <3>1, <4>1
    <3>2. CASE op.cmd.kind # "prune"
      <4>1. /\ [files[Live] EXCEPT !.sync = TRUE] \in Stores
            /\ [files[Live] EXCEPT !.sync = TRUE].history = files[Live].history
            /\ [files[Live] EXCEPT !.sync = TRUE].intact = files[Live].intact
        BY <2>1 DEF Stores
      <4>2. QED BY <1>4, <3>2, <4>1
    <3>3. QED BY <3>1, <3>2
  <2>4. next \notin {Old, Missing, Claimed}
    BY FilesAssumption DEF MaintenanceAssumption
  <2>5. \A n \in 1..commits : Holds(files[Live], n) => Holds(next, n)
    BY <2>3, <2>4 DEF Holds, Valid, IsStore
  <2>6. \A p \in Paths, n \in 1..commits :
          Holds(files[p], n) => \E q \in Paths : Holds(files'[q], n)
    BY <1>2, <2>3, <2>5
  <2>7. QED BY <1>1, <2>6, NothingLostBy
<1>5. QED BY <1>3, <1>4 DEF Transact

LEMMA NothingLostStep ==
    ASSUME NamesApart, MaintInv, NothingLost, Next
    PROVE  NothingLost'
<1>1. CASE UNCHANGED <<files, commits>>
  BY <1>1, NothingLostBy
<1>2. CASE Write \/ Claim \/ Copy \/ Publish \/ Transact
  BY <1>2, WriteLosesNothing, ClaimLosesNothing, CopyLosesNothing, PublishLosesNothing,
     TransactLosesNothing
<1>3. QED BY <1>1, <1>2
  DEF Next, OpenWindow, CloseWindow, Run, Check, Stage, Draw, Verify, Reply, Fail, Die

(* The feed draws generations and leaves the files alone.                   *)
MaintPart ==
    /\ part \in {"maintenance", "feed"}
    /\ IF part = "maintenance" THEN MaintInv ELSE op = Idle

LEMMA MaintPartInit == FilesInit => MaintPart
BY MaintInitInvariant DEF FilesInit, MaintPart, Init

LEMMA MaintPartStep == ASSUME MaintPart, [FilesNext]_filesVars PROVE MaintPart'
<1>1. CASE part = "maintenance" /\ Next /\ UNCHANGED <<part, feedVars>>
  BY <1>1, MaintStep DEF MaintPart
<1>2. CASE part = "feed" /\ Feed!Next /\ UNCHANGED <<part, fileVars>>
  BY <1>2 DEF MaintPart, fileVars, Idle
<1>3. CASE UNCHANGED filesVars
  <2>1. UNCHANGED <<part, drawn, files, window, op, commits>>
    BY <1>3 DEF filesVars, fileVars
  <2>2. MaintInv => MaintInv'
    BY <2>1 DEF MaintInv, MaintTypes, KindOfPhase, PhaseInv, Generations, Restoring, Restored,
                Fresh, Distinct, Named, Output
  <2>3. QED BY <2>1, <2>2 DEF MaintPart, Idle
<1>4. QED BY <1>1, <1>2, <1>3 DEF FilesNext

LEMMA MaintPartIsExact == MaintPart => VerifiedRestoreIsExact
BY MaintInvIsExact, FilesAssumption
DEF MaintPart, VerifiedRestoreIsExact, Idle, MaintenanceAssumption

(* When restore reports success, the store is the backup under a generation *)
(* no other file has, inactive and to be bootstrapped, and the preserved    *)
(* file is the store as the command found it, whatever failed before.       *)
THEOREM VerifiedRestoresAreExact == FilesSpec => []VerifiedRestoreIsExact
<1>1. FilesInit => MaintPart
  BY MaintPartInit
<1>2. MaintPart /\ [FilesNext]_filesVars => MaintPart'
  BY MaintPartStep
<1>3. MaintPart => VerifiedRestoreIsExact
  BY MaintPartIsExact
<1>4. QED BY <1>1, <1>2, <1>3, PTL DEF FilesSpec

(* Whatever fails or dies between any two steps, every acknowledged effect  *)
(* is in the trail of a whole store under some path.                        *)
THEOREM NothingIsLost ==
    ASSUME NamesApart
    PROVE  FilesSpec => []NothingLost
<1>1. FilesInit => MaintPart /\ NothingLost
  <2>1. FilesInit => commits = 0
    BY DEF FilesInit, Init
  <2>2. commits = 0 => NothingLost
    BY DEF NothingLost
  <2>3. QED BY <2>1, <2>2, MaintPartInit
<1>2. MaintPart /\ NothingLost /\ [FilesNext]_filesVars => MaintPart' /\ NothingLost'
  <2> SUFFICES ASSUME MaintPart, NothingLost, [FilesNext]_filesVars
               PROVE  MaintPart' /\ NothingLost'
    OBVIOUS
  <2>1. CASE part = "maintenance" /\ Next
    BY <2>1, MaintPartStep, NothingLostStep DEF MaintPart
  <2>2. CASE UNCHANGED <<files, commits>>
    BY <2>2, MaintPartStep, NothingLostBy
  <2>3. QED BY <2>1, <2>2 DEF FilesNext, filesVars, fileVars
<1>3. QED BY <1>1, <1>2, PTL DEF FilesSpec
=============================================================================
