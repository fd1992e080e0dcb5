------------------------- MODULE ReadSessionProofs -------------------------
(***************************************************************************)
(* What a read session promises, for every number of items, projections,   *)
(* files, restores and mutations.                                          *)
(***************************************************************************)
EXTENDS ReadSession, TLAPS

Answers == Data \cup Errors

(* What a selection yields is data or an error of the selection.           *)
LEMMA SelectedTypes ==
    ASSUME NEW store \in Store, NEW r \in Request(Known)
    PROVE  /\ Selected(store, r) \in Answers
           /\ Selected(store, r).kind # "error" => Selected(store, r) \in Data
<1>1. CASE r.kind = "get"
  <2>1. r.item \in Items /\ r.projection \in Projections
    BY <1>1 DEF Request
  <2>2. /\ store.items[r.item] \in ItemState
        /\ store.generation \in Generation /\ store.schema \in 0..MaxSchema
    BY <2>1 DEF Store
  <2>3. Version(store, r.item, r.projection) \in VersionToken
    BY <2>1, <2>2 DEF Version, VersionToken, ItemState
  <2>4. Payload(store, r.item, r.projection) \in Content
    BY <2>1, <2>2 DEF Payload, Content, ItemState
  <2>5. Selected(store, r) = Found(store, r)
    BY <1>1 DEF Selected
  <2>6. \/ Found(store, r) \in {Failed("not_found"), Failed("generation_missing")}
        \/ Found(store, r) = [kind |-> "item", payload |-> Payload(store, r.item, r.projection)]
        \/ Found(store, r) = [kind |-> "not_modified", version |-> Version(store, r.item, r.projection)]
        \/ Found(store, r) = [kind |-> "modified", version |-> Version(store, r.item, r.projection),
                              payload |-> Payload(store, r.item, r.projection)]
    BY DEF Found
  <2>7. QED BY <2>3, <2>4, <2>5, <2>6 DEF Answers, Data, Errors, Failed
<1>2. CASE r.kind # "get"
  <2>1. Selected(store, r) = [kind |-> "project", generation |-> store.generation]
    BY <1>2 DEF Selected
  <2>2. QED BY <2>1 DEF Store, Answers, Data
<1>3. QED BY <1>1, <1>2

(* What the fields of an answer are, by its kind.                          *)
LEMMA AnswerFields ==
    ASSUME NEW a \in Answers
    PROVE  /\ a.kind \in {"item", "modified"} =>
                a.payload.item \in Items /\ a.payload.revision \in 0..MaxRevision
           /\ a.kind = "modified" => a.version \in VersionToken /\ a.payload \in Content
           /\ a.kind = "not_modified" =>
                a.version.item \in Items /\ a.version.revision \in 0..MaxRevision
           /\ a.kind = "restart" => a.reason \in Reasons
           /\ a \in Data <=> a.kind \notin {"error", "restart"}
BY DEF Answers, Data, Errors, Content, VersionToken

(* The history variables are Boolean whatever step they watch.             *)
LEMMA ObserveTypes == Observe => moved' \in BOOLEAN /\ seen' \in BOOLEAN
BY DEF Observe

(* Ending a call with any answer keeps the types.                          *)
LEMMA AnswerTypes ==
    ASSUME TypeOK, call.pc # "idle", NEW a \in Answers, Answer(a), Serving
    PROVE  TypeOK'
<1>1. session' = session \/ \E reason \in Reasons : session' = [session EXCEPT !.latched = reason]
  BY AnswerFields DEF Answer, Invalidated
<1>2. held' \in Copy \cup {None}
  BY AnswerFields DEF Answer, TypeOK, Types, Copy
<1>3. latest' \in [Items -> 0..MaxRevision]
  <2>1. CASE a.kind \in {"item", "modified"}
    BY <2>1, AnswerFields DEF Answer, TypeOK, Types
  <2>2. CASE a.kind = "not_modified"
    BY <2>2, AnswerFields DEF Answer, TypeOK, Types
  <2>3. CASE a.kind \notin {"item", "modified", "not_modified"}
    BY <2>3 DEF Answer, TypeOK, Types
  <2>4. QED BY <2>1, <2>2, <2>3
<1>4. told' \in BOOLEAN /\ answer' \in Data \cup Errors \cup {None}
  BY DEF Answer, TypeOK, Types, Answers
<1>5. Types'
  <2>1. call' \in CallState
    BY DEF Answer, Idle, CallState
  <2>2. session' \in Session
    BY <1>1 DEF TypeOK, Types, Session, CallState
  <2>3. QED BY <1>2, <1>3, <1>4, <2>1, <2>2, ObserveTypes DEF Serving, storeVars, TypeOK, Types
<1>6. SessionShape'
  BY <1>1 DEF TypeOK, Types, SessionShape, Session, CallState
<1>7. CallShape'
  BY DEF Answer, Idle, CallShape, HasSnapshot
<1>8. QED BY <1>5, <1>6, <1>7 DEF TypeOK

(* A step of the surroundings only has to keep the types of the store.     *)
LEMMA SurroundingTypes ==
    ASSUME TypeOK, Surrounding,
           files' \in [File -> Store], path' \in File \cup {None},
           drawn' \in 1..MaxGenerations, backup' \in [Items -> ItemState]
    PROVE  TypeOK'
<1>1. Types'
  <2>1. /\ UNCHANGED session /\ UNCHANGED call /\ UNCHANGED answer /\ UNCHANGED held
        /\ UNCHANGED told /\ UNCHANGED latest /\ moved' \in BOOLEAN /\ seen' \in BOOLEAN
    BY ObserveTypes DEF Surrounding
  <2>2. Types
    BY DEF TypeOK
  <2>3. QED BY <2>1, <2>2 DEF Types
<1>2. SessionShape' /\ CallShape'
  BY DEF Surrounding, TypeOK, SessionShape, CallShape, HasSnapshot
<1>3. QED BY <1>1, <1>2 DEF TypeOK

(* A step of opening only has to keep the types and shape of the session.  *)
LEMMA OpeningTypes ==
    ASSUME TypeOK, Opening, call.pc = "idle", SessionShape',
           session' \in Session
    PROVE  TypeOK'
<1>1. latest' \in [Items -> 0..MaxRevision]
  BY ReadSessionAssumption DEF Opening
<1>2. Types'
  BY <1>1, ObserveTypes DEF Opening, storeVars, TypeOK, Types
<1>3. CallShape'
  BY DEF Opening, TypeOK, CallShape, HasSnapshot
<1>4. QED BY <1>2, <1>3 DEF TypeOK

(* A step of a call that goes on only has to keep the call's.              *)
LEMMA GoingOnTypes ==
    ASSUME TypeOK, Serving, CallShape', UNCHANGED <<session, held, told, latest>>,
           answer' \in {answer, None},
           call' \in CallState
    PROVE  TypeOK'
<1>1. Types'
  BY ObserveTypes DEF Serving, storeVars, TypeOK, Types
<1>2. SessionShape'
  BY DEF TypeOK, SessionShape
<1>3. QED BY <1>1, <1>2 DEF TypeOK

LEMMA StoreItems ==
    /\ NoStore \in Store
    /\ \A generation \in Generation : NewStore(generation) \in Store
<1>1. NoItem \in ItemState /\ 0 \in Generation /\ 0 \in 0..MaxSchema
  BY ReadSessionAssumption DEF NoItem, ItemState, Generation
<1>2. NoStore \in Store
  BY <1>1 DEF NoStore, Store
<1>3. QED BY <1>2 DEF NewStore, Store

LEMMA TypesAtInit == Init => TypeOK
<1> SUFFICES ASSUME Init PROVE TypeOK
  OBVIOUS
<1>1. files \in [File -> Store] /\ backup \in [Items -> ItemState]
  BY StoreItems, ReadSessionAssumption DEF Init, Store, Generation
<1>2. path \in File /\ drawn \in 1..MaxGenerations
  BY ReadSessionAssumption DEF Init, File
<1>3. session \in Session
  BY DEF Init, Closed, Session, CallState
<1>4. call \in CallState
  BY DEF Init, Idle, Session, CallState
<1>5. latest \in [Items -> 0..MaxRevision]
  BY ReadSessionAssumption DEF Init
<1>6. Types
  BY <1>1, <1>2, <1>3, <1>4, <1>5 DEF Init, Types
<1>7. SessionShape /\ CallShape
  BY DEF Init, Closed, Idle, SessionShape, CallShape, HasSnapshot
<1>8. QED BY <1>6, <1>7 DEF TypeOK

LEMMA TypesAtStep == TypeOK /\ [Next]_vars => TypeOK'
<1> SUFFICES ASSUME TypeOK, [Next]_vars PROVE TypeOK'
  OBVIOUS
<1> USE DEF Exists
<1>1. ASSUME NEW f \in File, NEW i \in Items, Mutate(f, i) PROVE TypeOK'
  <2> DEFINE item == [revision |-> files[f].items[i].revision + 1,
                      branch |-> files[f].generation]
  <2>1. files[f] \in Store /\ files[f].items[i] \in ItemState
    BY DEF TypeOK, Types, Store
  <2>2. item \in ItemState
    BY <1>1, <2>1, ReadSessionAssumption DEF Mutate, Store, ItemState
  <2>3. files' = [files EXCEPT ![f] = [files[f] EXCEPT !.items = [files[f].items EXCEPT ![i] = item]]]
    BY <1>1, <2>1 DEF Mutate, TypeOK, Types, Store
  <2> HIDE DEF item
  <2>4. files' \in [File -> Store]
    BY <2>1, <2>2, <2>3 DEF TypeOK, Types, Store
  <2>5. QED BY <1>1, <2>4, SurroundingTypes DEF Mutate, TypeOK, Types
<1>2. ASSUME NEW f \in File, ChangeSchema(f) PROVE TypeOK'
  <2>1. files[f] \in Store
    BY DEF TypeOK, Types
  <2>2. files' = [files EXCEPT ![f] = [files[f] EXCEPT !.schema = files[f].schema + 1]]
    BY <1>2, <2>1 DEF ChangeSchema, TypeOK, Types, Store
  <2>3. files[f].schema + 1 \in 0..MaxSchema
    BY <1>2, <2>1, ReadSessionAssumption DEF ChangeSchema, Store
  <2>4. files' \in [File -> Store]
    BY <2>1, <2>2, <2>3 DEF TypeOK, Types, Store
  <2>5. QED BY <1>2, <2>4, SurroundingTypes DEF ChangeSchema, TypeOK, Types
<1>3. ASSUME NEW f \in File, MoveBack(f) PROVE TypeOK'
  BY <1>3, SurroundingTypes DEF MoveBack, TypeOK, Types
<1>4. ASSUME NEW f \in File, Install(f) PROVE TypeOK'
  <2>1. /\ files \in [File -> Store] /\ drawn \in 1..MaxGenerations
        /\ backup \in [Items -> ItemState]
    BY DEF TypeOK, Types
  <2>2. /\ drawn < MaxGenerations /\ files' = [files EXCEPT ![f] = NewStore(drawn + 1)]
        /\ path' = f /\ drawn' = drawn + 1 /\ backup' = backup /\ Surrounding
    BY <1>4 DEF Install
  <2>3. drawn' \in 1..MaxGenerations /\ drawn + 1 \in Generation
    BY <2>1, <2>2, ReadSessionAssumption DEF Generation
  <2>4. files' \in [File -> Store]
    BY <2>1, <2>2, <2>3, StoreItems
  <2>5. QED BY <2>1, <2>2, <2>3, <2>4, SurroundingTypes
<1>5. CASE Backup
  BY <1>5, SurroundingTypes DEF Backup, TypeOK, Types, Store
<1>6. CASE Restore
  <2> DEFINE restored == [generation |-> drawn + 1, schema |-> files[path].schema + 1,
                          items |-> backup]
  <2>1. /\ files \in [File -> Store] /\ drawn \in 1..MaxGenerations
        /\ path \in File \cup {None} /\ backup \in [Items -> ItemState]
    BY DEF TypeOK, Types
  <2>2. /\ path # None /\ drawn < MaxGenerations /\ files[path].schema < MaxSchema
        /\ drawn' = drawn + 1 /\ path' = path /\ backup' = backup /\ Surrounding
    BY <1>6 DEF Restore
  <2>3. files' = [files EXCEPT ![path] = restored]
    BY <1>6, <2>1, <2>2 DEF Restore
  <2>4. drawn' \in 1..MaxGenerations /\ drawn + 1 \in Generation
    BY <2>1, <2>2, ReadSessionAssumption DEF Generation
  <2>5. files[path].schema + 1 \in 0..MaxSchema
    BY <2>1, <2>2, ReadSessionAssumption DEF Store
  <2>6. restored \in Store
    BY <2>1, <2>4, <2>5 DEF Store
  <2> HIDE DEF restored
  <2>7. files' \in [File -> Store]
    BY <2>1, <2>2, <2>3, <2>6
  <2>8. QED BY <2>1, <2>2, <2>4, <2>7, SurroundingTypes
<1>7. CASE MoveAway
  BY <1>7, SurroundingTypes DEF MoveAway, TypeOK, Types
<1>8. CASE Pin \/ Connect \/ Confirm \/ Load \/ Close
  <2>1. call.pc = "idle" /\ Opening
    BY <1>8 DEF Pin, Connect, Confirm, Load, Close, TypeOK, CallShape
  <2>2. CASE Pin
    <3>1. session' = [pc |-> "connect", file |-> path, conn |-> None, pinned |-> None,
                      latched |-> None]
      BY <2>2 DEF Pin, Closed
    <3>2. path # None
      BY <2>2 DEF Pin
    <3>3. SessionShape'
      BY <3>1, <3>2 DEF SessionShape
    <3>4. QED BY <2>1, <3>1, <3>3, OpeningTypes DEF TypeOK, Types, Session, CallState
  <2>3. CASE Connect
    <3>1. SessionShape'
      BY <2>3 DEF Connect, TypeOK, Types, SessionShape
    <3>2. QED BY <2>1, <2>3, <3>1, OpeningTypes DEF Connect, TypeOK, Types, Session, CallState
  <2>4. CASE Confirm
    <3>1. SessionShape'
      BY <2>4 DEF Confirm, Closed, TypeOK, Types, SessionShape
    <3>2. QED BY <2>1, <2>4, <3>1, OpeningTypes DEF Confirm, Closed, TypeOK, Types, Session, CallState
  <2>5. CASE Load
    <3>1. session.conn \in File /\ files[session.conn] \in Store
      BY <2>5 DEF Load, TypeOK, Types, SessionShape, Session, CallState
    <3>2. StateOf(files[session.conn]) \in State /\ StateOf(files[session.conn]) # None
      BY <3>1, NoneAssumption DEF StateOf, State, Store
    <3>3. session' = [session EXCEPT !.pc = "open", !.pinned = StateOf(files[session.conn])]
      BY <2>5 DEF Load
    <3>4. SessionShape'
      BY <2>5, <3>2, <3>3 DEF Load, TypeOK, Types, SessionShape
    <3>5. QED BY <2>1, <3>2, <3>3, <3>4, OpeningTypes DEF TypeOK, Types, Session, CallState
  <2>6. CASE Close
    <3>1. SessionShape'
      BY <2>6 DEF Close, Closed, SessionShape
    <3>2. QED BY <2>1, <2>6, <3>1, OpeningTypes DEF Close, Closed, Session, CallState
  <2>7. QED BY <1>8, <2>2, <2>3, <2>4, <2>5, <2>6
<1>9. CASE Call
  <2>1. PICK r \in Request(Offered) :
            call' = [pc |-> "file", request |-> r, snapshot |-> None, result |-> None]
    BY <1>9 DEF Call, Idle
  <2>2. Offered \subseteq Known
    BY DEF Offered, Known, TypeOK, Types, Copy
  <2>3. r \in Request(Known) /\ r # None
    BY <2>1, <2>2, NoneAssumption DEF Request, Known
  <2>4. CallShape'
    BY <1>9, <2>1, <2>3 DEF Call, CallShape, HasSnapshot
  <2>5. QED BY <1>9, <2>1, <2>3, <2>4, GoingOnTypes DEF Call, Session, CallState
<1>10. ASSUME NEW pc, NEW next, CheckFile(pc, next),
              <<pc, next>> \in {<<"file", "state">>, <<"file again", "state again">>}
       PROVE  TypeOK'
  <2>1. call.pc \in {"file", "file again"} /\ Serving
    BY <1>10 DEF CheckFile
  <2>2. Restart("database_file_changed") \in Answers
    BY DEF Restart, Answers, Errors, Reasons
  <2>3. session.latched # None => Restart(session.latched) \in Answers
    BY DEF TypeOK, Types, Session, Restart, Answers, Errors
  <2>4. CASE GoOn(next)
    <3>1. CallShape'
      BY <1>10, <2>1, <2>4 DEF CheckFile, GoOn, TypeOK, Types, CallShape, HasSnapshot, Session, CallState
    <3>2. QED BY <1>10, <2>1, <2>4, <3>1, GoingOnTypes DEF GoOn, TypeOK, Types, Session, CallState
  <2>5. QED BY <1>10, <2>1, <2>2, <2>3, <2>4, AnswerTypes DEF CheckFile
<1>11. CASE Bind
  <2>1. Restart("store_or_schema_changed") \in Answers
    BY DEF Restart, Answers, Errors, Reasons
  <2>2. CASE Answer(Restart("store_or_schema_changed"))
    BY <1>11, <2>1, <2>2, AnswerTypes DEF Bind
  <2>3. CASE /\ call' = [call EXCEPT !.pc = "read", !.snapshot = files[session.conn]]
             /\ UNCHANGED <<session, answer, held, told, latest>>
    <3>1. session.conn \in File /\ files \in [File -> Store]
      BY <1>11 DEF Bind, TypeOK, Types, SessionShape, CallShape, Session, CallState
    <3>2. files[session.conn] \in Store /\ files[session.conn] # None
      BY <3>1, NoneAssumption
    <3>3. CallShape'
      BY <1>11, <2>3, <3>2 DEF Bind, TypeOK, Types, CallShape, HasSnapshot
    <3>4. QED BY <1>11, <2>3, <3>2, <3>3, GoingOnTypes DEF Bind, TypeOK, Types, Session, CallState
  <2>4. QED BY <1>11, <2>2, <2>3 DEF Bind
<1>12. CASE Read
  <2> DEFINE a == Selected(call.snapshot, call.request)
  <2>1. call.snapshot \in Store /\ call.request \in Request(Known)
    BY <1>12 DEF Read, TypeOK, Types, CallShape, HasSnapshot, Session, CallState
  <2>2. a \in Answers /\ (a.kind # "error" => a \in Data)
    BY <2>1, SelectedTypes
  <2>3. \/ Answer(a)
        \/ /\ a.kind # "error"
           /\ call' = [call EXCEPT !.pc = "file again", !.result = a]
           /\ UNCHANGED <<session, answer, held, told, latest>>
    BY <1>12 DEF Read
  <2> HIDE DEF a
  <2>4. CASE Answer(a)
    BY <1>12, <2>2, <2>4, AnswerTypes DEF Read
  <2>5. CASE /\ a.kind # "error"
             /\ call' = [call EXCEPT !.pc = "file again", !.result = a]
             /\ UNCHANGED <<session, answer, held, told, latest>>
    <3>1. a \in Data /\ a # None
      BY <2>2, <2>5, NoneAssumption
    <3>2. CallShape'
      BY <1>12, <2>5, <3>1 DEF Read, TypeOK, Types, CallShape, HasSnapshot
    <3>3. QED BY <1>12, <2>5, <3>1, <3>2, GoingOnTypes DEF Read, TypeOK, Types, Session, CallState
  <2>6. QED BY <2>3, <2>4, <2>5
<1>13. CASE Deliver
  <2>1. Restart("store_or_schema_changed") \in Answers
    BY DEF Restart, Answers, Errors, Reasons
  <2>2. call.result \in Answers
    BY <1>13 DEF Deliver, TypeOK, Types, CallShape, Answers, Session, CallState
  <2>3. QED BY <1>13, <2>1, <2>2, AnswerTypes DEF Deliver
<1>14. CASE Fail
  <2>1. Transient \subseteq Answers
    BY DEF Transient, Failed, Answers, Errors
  <2>2. QED BY <1>14, <2>1, AnswerTypes DEF Fail
<1>15. CASE Unauthorized
  <2>1. Failed("unauthorized") \in Answers
    BY DEF Failed, Answers, Errors
  <2>2. QED BY <1>15, <2>1, AnswerTypes DEF Unauthorized
<1>16. CASE UNCHANGED vars
  <2>1. Types'
    BY <1>16 DEF vars, storeVars, history, TypeOK, Types
  <2>2. SessionShape' /\ CallShape'
    BY <1>16 DEF vars, TypeOK, SessionShape, CallShape, HasSnapshot
  <2>3. QED BY <2>1, <2>2 DEF TypeOK
<1>17. QED
  BY <1>1, <1>2, <1>3, <1>4, <1>5, <1>6, <1>7, <1>8, <1>9, <1>10, <1>11, <1>12, <1>13,
     <1>14, <1>15, <1>16 DEF Next

(* Every value a session, its store and its client hold stays in its set,  *)
(* for every size of the model.                                            *)
THEOREM SessionTypes == Spec => []TypeOK
<1>1. QED BY TypesAtInit, TypesAtStep, PTL DEF Spec

----------------------------------------------------------------------------
(***************************************************************************)
(* The inductive invariant.  Its parts: what is true of the stores         *)
(* whatever the session does, why restarts are final and caused, why the   *)
(* connection is to the pinned file, what snapshots and reports say of the *)
(* file they came from, and what the client's copy says of every file of   *)
(* its generation.                                                         *)
(***************************************************************************)
(* An item of the same generation, later.                                  *)
Follows(later, earlier) ==
    /\ later.revision >= earlier.revision
    /\ later.revision = earlier.revision => later.branch = earlier.branch

StoreInv ==
    /\ \A f \in File : files[f].generation <= drawn
    /\ \A f, g \in File :
            Exists(f) /\ files[f].generation = files[g].generation => f = g
    /\ path # None => Exists(path)

RestartInv ==
    /\ told => /\ session.pc = "open" /\ session.latched # None
               /\ call.pc \in {"idle", "file"} /\ ~IsData(answer)
               /\ moved
    /\ session.latched # None => told
    /\ Differs => moved

PinInv ==
    /\ session.pc # "closed" => Exists(session.file)
    /\ session.pc = "confirm" /\ path = session.file => session.conn = session.file
    /\ session.pc \in {"load", "open"} => session.conn = session.file
    /\ HasSnapshot(call) => StateOf(call.snapshot) = session.pinned
    /\ call.pc = "state again" => seen

\* The snapshot of a call, and the files of its generation.
SnapshotInv ==
    HasSnapshot(call) =>
        /\ call.snapshot.generation \in 1..drawn
        /\ \A f \in File, i \in Items :
                files[f].generation = call.snapshot.generation =>
                    Follows(files[f].items[i], call.snapshot.items[i])
        /\ call.result # None => call.result = Selected(call.snapshot, call.request)

ReportInv ==
    /\ session.pc # "open" => latest = [i \in Items |-> 0]
    /\ session.pc = "open" => session.pinned.generation <= drawn
    /\ session.pc = "open" /\ files[session.conn].generation = session.pinned.generation =>
            \A i \in Items : latest[i] <= files[session.conn].items[i].revision
    /\ HasSnapshot(call) =>
            \A i \in Items : latest[i] <= call.snapshot.items[i].revision

\* What the client keeps, and a store of the generation it is from.
Exact(copy, store) ==
    store.generation = copy.version.generation =>
        Follows(store.items[copy.version.item], copy.payload)

CopyInv ==
    held # None =>
        /\ held.payload.item = held.version.item
        /\ held.payload.projection = held.version.projection
        /\ held.payload.revision = held.version.revision
        /\ held.version.generation \in 1..drawn
        /\ \A f \in File : Exact(held, files[f])
        /\ HasSnapshot(call) => Exact(held, call.snapshot)

OfferInv ==
    call.pc # "idle" =>
        /\ answer = None
        /\ call.request.kind = "get" => call.request.known \in Offered

IInv ==
    /\ TypeOK /\ StoreInv /\ RestartInv /\ PinInv /\ SnapshotInv /\ ReportInv
    /\ CopyInv /\ OfferInv

----------------------------------------------------------------------------
(* Every step is one of six kinds.  A call that ends with data was at its  *)
(* second look at the state, found what the session pinned, and was not    *)
(* told before; one that ends with a restart saw a difference or the latch. *)
Ends(a) ==
    /\ call.pc # "idle" /\ a \in Answers /\ Answer(a) /\ Serving
    /\ told => ~IsData(a)
    /\ a.kind = "restart" => a.reason \in Reasons /\ (told \/ Differs)
    /\ IsData(a) => /\ call.pc = "state again" /\ a = call.result
                    /\ StateOf(files[session.conn]) = session.pinned

Goes ==
    /\ Serving /\ UNCHANGED <<session, answer, held, told, latest>>
    /\ \/ /\ call.pc = "file" /\ session.latched = None
          /\ call' = [call EXCEPT !.pc = "state"]
       \/ /\ call.pc = "state" /\ StateOf(files[session.conn]) = session.pinned
          /\ call' = [call EXCEPT !.pc = "read", !.snapshot = files[session.conn]]
       \/ /\ call.pc = "read"
          /\ call' = [call EXCEPT !.pc = "file again",
                                !.result = Selected(call.snapshot, call.request)]
       \/ /\ call.pc = "file again" /\ path = session.file
          /\ call' = [call EXCEPT !.pc = "state again"]

Opens == Pin \/ Connect \/ Confirm \/ Load \/ Close

LEMMA Kinds ==
    ASSUME TypeOK, RestartInv, [Next]_vars
    PROVE  \/ Surrounding
           \/ Opens
           \/ Call
           \/ Goes
           \/ \E a \in Answers : Ends(a)
           \/ UNCHANGED vars
<1>1. ASSUME NEW f \in File, NEW i \in Items, Mutate(f, i) PROVE Surrounding
  BY <1>1 DEF Mutate
<1>2. ASSUME NEW f \in File, ChangeSchema(f) \/ MoveBack(f) \/ Install(f) PROVE Surrounding
  BY <1>2 DEF ChangeSchema, MoveBack, Install
<1>3. CASE Backup \/ Restore \/ MoveAway
  BY <1>3 DEF Backup, Restore, MoveAway
<1>4. call.pc # "idle" => session.pc = "open"
  BY DEF TypeOK, CallShape
<1>5. ASSUME NEW pc, NEW next, CheckFile(pc, next),
             <<pc, next>> \in {<<"file", "state">>, <<"file again", "state again">>}
      PROVE  Goes \/ \E a \in Answers : Ends(a)
  <2>1. call.pc = pc /\ pc # "idle" /\ Serving
    BY <1>5 DEF CheckFile
  <2>2. CASE session.latched # None
    <3>1. session.latched \in Reasons /\ told
      BY <2>2 DEF TypeOK, Types, Session, RestartInv
    <3>2. Answer(Restart(session.latched))
      BY <1>5, <2>2 DEF CheckFile
    <3>3. Ends(Restart(session.latched))
      BY <2>1, <3>1, <3>2 DEF Ends, Restart, IsData, Answers, Errors
    <3>4. QED BY <3>3 DEF Ends
  <2>3. CASE session.latched = None /\ path # session.file
    <3>1. Answer(Restart("database_file_changed"))
      BY <1>5, <2>3 DEF CheckFile
    <3>2. Differs
      BY <1>4, <2>1, <2>3 DEF Differs
    <3>3. Ends(Restart("database_file_changed"))
      BY <2>1, <3>1, <3>2 DEF Ends, Restart, IsData, Answers, Errors, Reasons
    <3>4. QED BY <3>3 DEF Ends
  <2>4. CASE session.latched = None /\ path = session.file
    <3>1. GoOn(next)
      BY <1>5, <2>4 DEF CheckFile
    <3>2. QED BY <1>5, <2>1, <2>4, <3>1 DEF Goes, GoOn
  <2>5. QED BY <2>2, <2>3, <2>4
<1>6. CASE Bind
  <2>1. CASE StateOf(files[session.conn]) # session.pinned
    <3>1. Answer(Restart("store_or_schema_changed")) /\ call.pc = "state" /\ Serving
      BY <1>6, <2>1 DEF Bind
    <3>2. Differs
      BY <1>4, <2>1, <3>1 DEF Differs
    <3>3. Ends(Restart("store_or_schema_changed"))
      BY <3>1, <3>2 DEF Ends, Restart, IsData, Answers, Errors, Reasons
    <3>4. QED BY <3>3 DEF Ends
  <2>2. CASE StateOf(files[session.conn]) = session.pinned
    BY <1>6, <2>2 DEF Bind, Goes
  <2>3. QED BY <2>1, <2>2
<1>7. CASE Read
  <2> DEFINE a == Selected(call.snapshot, call.request)
  <2>1. call.snapshot \in Store /\ call.request \in Request(Known)
    BY <1>7 DEF Read, TypeOK, Types, CallShape, HasSnapshot, CallState
  <2>2. a \in Answers
    BY <2>1, SelectedTypes
  <2>3. CASE a.kind = "error"
    <3>1. Answer(a) /\ call.pc = "read" /\ Serving
      BY <1>7, <2>3 DEF Read
    <3>2. Ends(a)
      BY <2>2, <2>3, <3>1 DEF Ends, IsData
    <3>3. QED BY <3>2 DEF Ends
  <2>4. CASE a.kind # "error"
    BY <1>7, <2>4 DEF Read, Goes
  <2>5. QED BY <2>3, <2>4
<1>8. CASE Deliver
  <2>1. call.pc = "state again" /\ Serving /\ ~told
    BY <1>8 DEF Deliver, RestartInv
  <2>2. CASE StateOf(files[session.conn]) # session.pinned
    <3>1. Answer(Restart("store_or_schema_changed"))
      BY <1>8, <2>2 DEF Deliver
    <3>2. Differs
      BY <1>4, <2>1, <2>2 DEF Differs
    <3>3. Ends(Restart("store_or_schema_changed"))
      BY <2>1, <3>1, <3>2 DEF Ends, Restart, IsData, Answers, Errors, Reasons
    <3>4. QED BY <3>3 DEF Ends
  <2>3. CASE StateOf(files[session.conn]) = session.pinned
    <3>1. Answer(call.result)
      BY <1>8, <2>3 DEF Deliver
    <3>2. call.result \in Data
      BY <2>1 DEF TypeOK, Types, CallShape, CallState
    <3>3. call.result.kind # "restart" /\ call.result \in Answers
      BY <3>2 DEF Data, Answers
    <3>4. Ends(call.result)
      BY <2>1, <2>3, <3>1, <3>3 DEF Ends
    <3>5. QED BY <3>3, <3>4
  <2>4. QED BY <2>2, <2>3
<1>9. CASE Fail \/ Unauthorized
  <2>1. PICK a \in Transient \cup {Failed("unauthorized")} :
            Answer(a) /\ call.pc # "idle" /\ Serving
    BY <1>9 DEF Fail, Unauthorized
  <2>2. a \in Answers /\ a.kind = "error"
    BY <2>1 DEF Transient, Failed, Answers, Errors
  <2>3. Ends(a)
    BY <2>1, <2>2 DEF Ends, IsData
  <2>4. QED BY <2>2, <2>3
<1>10. QED
  BY <1>1, <1>2, <1>3, <1>5, <1>6, <1>7, <1>8, <1>9 DEF Next, Opens

----------------------------------------------------------------------------
(* What a step does to the stores, and that it keeps their invariant.      *)
Evolves ==
    /\ drawn' \in {drawn, drawn + 1}
    /\ \A f \in File :
        \/ /\ files'[f].generation = files[f].generation
           /\ \A i \in Items : Follows(files'[f].items[i], files[f].items[i])
        \/ drawn' = drawn + 1 /\ files'[f].generation = drawn + 1
    /\ \A f, g \in File :
            files'[f].generation = drawn + 1 /\ files'[g].generation = drawn + 1 => f = g
    /\ path' # path /\ path' # None =>
            \/ ~Exists(path')
            \/ session.pc \in {"closed", "open"} /\ UNCHANGED session

LEMMA StoreFacts ==
    ASSUME TypeOK
    PROVE  /\ drawn \in Nat
           /\ \A f \in File :
                /\ files[f] \in Store /\ files[f].generation \in Nat
                /\ \A i \in Items : files[f].items[i].revision \in Nat
BY ReadSessionAssumption DEF TypeOK, Types, Store, ItemState, Generation

LEMMA Unmoved ==
    ASSUME TypeOK, StoreInv, UNCHANGED storeVars
    PROVE  Evolves /\ StoreInv'
<1>1. Evolves
  BY StoreFacts DEF storeVars, Evolves, Follows, StoreInv
<1>2. StoreInv'
  BY DEF storeVars, StoreInv, Exists
<1>3. QED BY <1>1, <1>2

(* One file gets a new store, under a generation never drawn before.       *)
LEMMA Drawn ==
    ASSUME TypeOK, StoreInv, NEW f \in File, NEW store, store.generation = drawn + 1,
           files' = [files EXCEPT ![f] = store], drawn' = drawn + 1,
           path' = path \/ (path' = f /\ ~Exists(f))
    PROVE  Evolves /\ StoreInv'
<1>1. /\ files'[f] = store
      /\ \A g \in File : g # f => files'[g] = files[g]
  BY DEF TypeOK, Types
<1>2. \A g \in File : g # f => files'[g].generation = files[g].generation /\ files[g].generation <= drawn
  BY <1>1 DEF StoreInv
<1>3. Evolves
  <2>1. \A g \in File :
            g # f => \A i \in Items : Follows(files'[g].items[i], files[g].items[i])
    BY <1>1, StoreFacts DEF Follows
  <2>2. QED BY <1>1, <1>2, <2>1, StoreFacts DEF Evolves
<1>4. \A g \in File : files'[g].generation <= drawn'
  BY <1>1, <1>2, StoreFacts
<1>5. \A g, h \in File : Exists(g)' /\ files'[g].generation = files'[h].generation => g = h
  BY <1>1, <1>2, StoreFacts DEF StoreInv, Exists
<1>6. path' # None => Exists(path)'
  <2>1. path \in File \cup {None}
    BY DEF TypeOK, Types
  <2>2. CASE path' = path
    BY <1>1, <2>1, <2>2, StoreFacts DEF StoreInv, Exists
  <2>3. CASE path' = f
    BY <1>1, <2>3, StoreFacts DEF Exists
  <2>4. QED BY <2>2, <2>3
<1>7. QED BY <1>3, <1>4, <1>5, <1>6 DEF StoreInv

(* One file's store changes under its generation.                          *)
LEMMA Changed ==
    ASSUME TypeOK, StoreInv, NEW f \in File, Exists(f), NEW store,
           store.generation = files[f].generation,
           \A i \in Items : Follows(store.items[i], files[f].items[i]),
           files' = [files EXCEPT ![f] = store], UNCHANGED <<path, drawn>>
    PROVE  Evolves /\ StoreInv'
<1>1. /\ files'[f] = store
      /\ \A g \in File : g # f => files'[g] = files[g]
  BY DEF TypeOK, Types
<1>2. \A g \in File : files'[g].generation = files[g].generation
  BY <1>1
<1>3. Evolves
  <2>1. \A g \in File, i \in Items : Follows(files'[g].items[i], files[g].items[i])
    BY <1>1, StoreFacts DEF Follows
  <2>2. QED BY <1>2, <2>1, StoreFacts DEF Evolves, StoreInv
<1>4. StoreInv'
  BY <1>2, StoreFacts DEF StoreInv, Exists, TypeOK, Types
<1>5. QED BY <1>3, <1>4

LEMMA StoreStep ==
    ASSUME TypeOK, StoreInv, [Next]_vars
    PROVE  Evolves /\ StoreInv'
<1>1. ASSUME NEW f \in File, NEW i \in Items, Mutate(f, i) PROVE Evolves /\ StoreInv'
  <2> DEFINE item == [revision |-> files[f].items[i].revision + 1,
                      branch |-> files[f].generation]
             store == [files[f] EXCEPT !.items = [files[f].items EXCEPT ![i] = item]]
  <2>1. files' = [files EXCEPT ![f] = store]
    BY <1>1 DEF Mutate, TypeOK, Types, Store
  <2>2. store.generation = files[f].generation
    BY StoreFacts DEF Store
  <2>3. ASSUME NEW j \in Items PROVE Follows(store.items[j], files[f].items[j])
    <3>1. CASE j = i
      BY <3>1, StoreFacts DEF Follows, Store
    <3>2. CASE j # i
      BY <3>2, StoreFacts DEF Follows, Store
    <3>3. QED BY <3>1, <3>2
  <2>4. Exists(f) /\ UNCHANGED <<path, drawn>>
    BY <1>1 DEF Mutate
  <2> HIDE DEF store
  <2>5. QED BY <2>1, <2>2, <2>3, <2>4, Changed
<1>2. ASSUME NEW f \in File, ChangeSchema(f) PROVE Evolves /\ StoreInv'
  <2> DEFINE store == [files[f] EXCEPT !.schema = files[f].schema + 1]
  <2>1. files' = [files EXCEPT ![f] = store]
    BY <1>2 DEF ChangeSchema, TypeOK, Types, Store
  <2>2. store.generation = files[f].generation /\ store.items = files[f].items
    BY StoreFacts DEF Store
  <2>3. \A i \in Items : Follows(store.items[i], files[f].items[i])
    BY <2>2, StoreFacts DEF Follows
  <2>4. Exists(f) /\ UNCHANGED <<path, drawn>>
    BY <1>2 DEF ChangeSchema
  <2> HIDE DEF store
  <2>5. QED BY <2>1, <2>2, <2>3, <2>4, Changed
<1>3. ASSUME NEW f \in File, MoveBack(f) PROVE Evolves /\ StoreInv'
  <2>1. /\ UNCHANGED files /\ UNCHANGED drawn /\ UNCHANGED session
        /\ path' = f /\ Exists(f) /\ session.pc \in {"closed", "open"}
    BY <1>3 DEF MoveBack, Surrounding
  <2>2. Evolves
    BY <2>1, StoreFacts DEF Evolves, Follows, StoreInv
  <2>3. StoreInv'
    BY <2>1 DEF StoreInv, Exists
  <2>4. QED BY <2>2, <2>3
<1>4. ASSUME NEW f \in File, Install(f) PROVE Evolves /\ StoreInv'
  <2>1. NewStore(drawn + 1).generation = drawn + 1
    BY DEF NewStore, NoStore
  <2>2. QED BY <1>4, <2>1, Drawn DEF Install
<1>5. CASE Restore
  <2> DEFINE store == [generation |-> drawn + 1, schema |-> files[path].schema + 1,
                       items |-> backup]
  <2>1. path \in File /\ files \in [File -> Store]
    BY <1>5 DEF Restore, TypeOK, Types
  <2>2. files' = [files EXCEPT ![path] = store]
    BY <1>5, <2>1 DEF Restore
  <2>3. drawn' = drawn + 1 /\ path' = path /\ store.generation = drawn + 1
    BY <1>5 DEF Restore
  <2> HIDE DEF store
  <2>4. QED BY <2>1, <2>2, <2>3, Drawn
<1>6. CASE Backup
  <2>1. UNCHANGED files /\ UNCHANGED path /\ UNCHANGED drawn
    BY <1>6 DEF Backup
  <2>2. Evolves
    BY <2>1, StoreFacts DEF Evolves, Follows, StoreInv
  <2>3. QED BY <2>1, <2>2 DEF StoreInv, Exists
<1>7. CASE MoveAway
  <2>1. UNCHANGED files /\ UNCHANGED drawn /\ path' = None
    BY <1>7 DEF MoveAway
  <2>2. Evolves
    BY <2>1, StoreFacts DEF Evolves, Follows, StoreInv
  <2>3. QED BY <2>1, <2>2 DEF StoreInv, Exists
<1>8. CASE UNCHANGED storeVars
  BY <1>8, Unmoved
<1>9. CASE UNCHANGED vars
  BY <1>9, Unmoved DEF vars
<1>10. QED
  BY <1>1, <1>2, <1>3, <1>4, <1>5, <1>6, <1>7, <1>8, <1>9
  DEF Next, Pin, Connect, Confirm, Load, Close, Opening, Call, CheckFile, Bind, Read,
      Deliver, Fail, Unauthorized, Serving

----------------------------------------------------------------------------
(* Restarts are final and have a cause.                                    *)
LEMMA RestartStep ==
    ASSUME TypeOK, RestartInv, [Next]_vars
    PROVE  RestartInv'
<1>1. CASE Surrounding
  <2>1. /\ UNCHANGED session /\ UNCHANGED call /\ UNCHANGED answer /\ UNCHANGED told
        /\ moved' = ((moved /\ session'.pc = "open") \/ Differs')
    BY <1>1 DEF Surrounding, Observe
  <2>2. (Differs => moved)'
    BY <2>1
  <2>3. QED BY <2>1, <2>2 DEF RestartInv
<1>2. CASE Opens
  <2>1. ~told' /\ (Differs' => moved')
    BY <1>2 DEF Opens, Pin, Connect, Confirm, Load, Close, Opening, Observe
  <2>2. session.pc # "open" => session.latched = None
    BY DEF RestartInv
  <2>3. session'.latched = None
    <3>1. session \in Session
      BY DEF TypeOK, Types
    <3>2. CASE Pin
      BY <3>2 DEF Pin, Closed
    <3>3. CASE Connect
      BY <2>2, <3>1, <3>3 DEF Connect, Session
    <3>4. CASE Confirm
      BY <2>2, <3>1, <3>4 DEF Confirm, Closed, Session
    <3>5. CASE Load
      BY <2>2, <3>1, <3>5 DEF Load, Session
    <3>6. CASE Close
      BY <3>6 DEF Close, Closed
    <3>7. QED BY <1>2, <3>2, <3>3, <3>4, <3>5, <3>6 DEF Opens
  <2>4. QED BY <2>1, <2>3 DEF RestartInv
<1>3. CASE Call
  <2>1. /\ call'.pc = "file" /\ answer' = None /\ UNCHANGED session /\ UNCHANGED told
        /\ session.pc = "open"
        /\ moved' = ((moved /\ session'.pc = "open") \/ Differs')
    BY <1>3 DEF Call, Idle, Serving, Observe
  <2>2. QED BY <2>1 DEF RestartInv, IsData
<1>4. CASE Goes
  <2>1. /\ UNCHANGED session /\ UNCHANGED answer /\ UNCHANGED told
        /\ moved' = ((moved /\ session'.pc = "open") \/ Differs')
    BY <1>4 DEF Goes, Serving, Observe
  <2>2. ~told
    BY <1>4 DEF Goes, RestartInv
  <2>3. QED BY <2>1, <2>2 DEF RestartInv
<1>5. ASSUME NEW a \in Answers, Ends(a) PROVE RestartInv'
  <2>1. session.pc = "open"
    BY <1>5 DEF Ends, TypeOK, CallShape
  <2>2. /\ call'.pc = "idle" /\ answer' = a /\ told' = (told \/ a.kind = "restart")
        /\ session' = Invalidated(a)
        /\ moved' = ((moved /\ session'.pc = "open") \/ Differs')
    BY <1>5 DEF Ends, Answer, Idle, Serving, Observe
  <2>3. /\ session'.pc = "open"
        /\ session'.latched # None <=> (session.latched # None \/ a.kind = "restart")
    BY <1>5, <2>1, <2>2, NoneAssumption DEF Ends, Invalidated, TypeOK, Types, Session
  <2>4. told' => ~IsData(a)
    BY <1>5, <2>2 DEF Ends, IsData
  <2>5. told' => moved'
    BY <1>5, <2>2, <2>3 DEF Ends, RestartInv
  <2>6. Differs' => moved'
    BY <2>2
  <2>7. QED BY <2>2, <2>3, <2>4, <2>5, <2>6 DEF RestartInv, IsData
<1>6. CASE UNCHANGED vars
  BY <1>6 DEF vars, storeVars, history, RestartInv, Differs, IsData, StateOf
<1>7. QED BY <1>1, <1>2, <1>3, <1>4, <1>5, <1>6, Kinds

----------------------------------------------------------------------------
(* The connection of an open session is to the file it pinned, and a call  *)
(* at its last step saw the path name that file after its snapshot.        *)
LEMMA OpensFacts ==
    ASSUME TypeOK, Opens
    PROVE  /\ call.pc = "idle" /\ UNCHANGED call /\ UNCHANGED held /\ UNCHANGED storeVars
           /\ latest' = [i \in Items |-> 0]
BY DEF Opens, Pin, Connect, Confirm, Load, Close, Opening, TypeOK, CallShape

LEMMA EndsFacts ==
    ASSUME TypeOK, NEW a \in Answers, Ends(a)
    PROVE  /\ call' = Idle /\ call'.pc = "idle" /\ UNCHANGED storeVars
           /\ session.pc = "open" /\ session'.pc = "open"
           /\ session'.file = session.file /\ session'.conn = session.conn
           /\ session'.pinned = session.pinned
BY DEF Ends, Answer, Invalidated, Idle, Serving, TypeOK, Types, Session, CallShape

LEMMA ExistsStays ==
    ASSUME TypeOK, Evolves, NEW f \in File, Exists(f)
    PROVE  Exists(f)'
BY StoreFacts DEF Evolves, Exists

LEMMA PinStep ==
    ASSUME TypeOK, StoreInv, RestartInv, PinInv, [Next]_vars
    PROVE  PinInv'
<1>1. Evolves
  BY StoreStep
<1>2. CASE Surrounding
  <2>1. /\ UNCHANGED session /\ UNCHANGED call
        /\ seen' = (HasSnapshot(call') /\ ((HasSnapshot(call) /\ seen) \/ path' = session.conn))
    BY <1>2 DEF Surrounding, Observe
  <2>2. session.pc # "closed" => session.file \in File
    BY DEF TypeOK, Types, Session, SessionShape
  <2>3. session.pc # "closed" => Exists(session.file)'
    BY <1>1, <2>1, <2>2, ExistsStays DEF PinInv, Exists
  <2>4. session.pc = "confirm" /\ path' = session.file => session.conn = session.file
    BY <1>1, <2>2, NoneAssumption DEF Evolves, PinInv
  <2>5. call.pc = "state again" => seen'
    BY <2>1 DEF PinInv, HasSnapshot
  <2>6. QED BY <2>1, <2>3, <2>4, <2>5 DEF PinInv, HasSnapshot, StateOf, Exists
<1>3. CASE Opens
  <2>1. call.pc = "idle" /\ UNCHANGED call /\ UNCHANGED files /\ UNCHANGED path
    BY <1>3, OpensFacts DEF storeVars
  <2>2. CASE Pin
    BY <2>1, <2>2 DEF Pin, Closed, PinInv, StoreInv, Exists, HasSnapshot
  <2>3. CASE Connect
    BY <2>1, <2>3 DEF Connect, PinInv, Exists, HasSnapshot, TypeOK, Types, Session
  <2>4. CASE Confirm
    BY <2>1, <2>4 DEF Confirm, Closed, PinInv, Exists, HasSnapshot, TypeOK, Types, Session
  <2>5. CASE Load
    BY <2>1, <2>5 DEF Load, PinInv, Exists, HasSnapshot, TypeOK, Types, Session
  <2>6. CASE Close
    BY <2>1, <2>6 DEF Close, Closed, PinInv, HasSnapshot
  <2>7. QED BY <1>3, <2>2, <2>3, <2>4, <2>5, <2>6 DEF Opens
<1>4. CASE Call
  <2>1. /\ call'.pc = "file" /\ UNCHANGED session /\ UNCHANGED files /\ UNCHANGED path
    BY <1>4 DEF Call, Idle, Serving, storeVars
  <2>2. QED BY <2>1 DEF PinInv, Exists, HasSnapshot
<1>5. CASE Goes
  <2>1. /\ UNCHANGED session /\ UNCHANGED files /\ UNCHANGED path
        /\ seen' = (HasSnapshot(call') /\ ((HasSnapshot(call) /\ seen) \/ path' = session.conn))
    BY <1>5 DEF Goes, Serving, storeVars, Observe
  <2>2. session.pc = "open"
    BY <1>5 DEF Goes, TypeOK, CallShape
  <2>3. HasSnapshot(call') => StateOf(call'.snapshot) = session.pinned
    BY <1>5 DEF Goes, HasSnapshot, PinInv, TypeOK, Types, CallState
  <2>4. call'.pc = "state again" => path = session.file
    BY <1>5 DEF Goes, TypeOK, Types, CallState
  <2>5. call'.pc = "state again" => seen'
    BY <2>1, <2>2, <2>4 DEF PinInv, HasSnapshot
  <2>6. QED BY <2>1, <2>3, <2>5 DEF PinInv, Exists, HasSnapshot, StateOf
<1>6. ASSUME NEW a \in Answers, Ends(a) PROVE PinInv'
  BY <1>6, EndsFacts DEF storeVars, PinInv, Exists, HasSnapshot
<1>7. CASE UNCHANGED vars
  BY <1>7 DEF vars, storeVars, history, PinInv, Exists, HasSnapshot, StateOf
<1>8. QED BY <1>2, <1>3, <1>4, <1>5, <1>6, <1>7, Kinds

----------------------------------------------------------------------------
(* A file that keeps its generation follows what it was.                   *)
LEMMA FollowsOn ==
    ASSUME NEW x, NEW y, NEW z, x.revision \in Nat, y.revision \in Nat, z.revision \in Nat,
           Follows(x, y), Follows(y, z)
    PROVE  Follows(x, z)
BY DEF Follows

(* A file of a generation already drawn had it before the step.            *)
LEMMA SameHistory ==
    ASSUME TypeOK, Evolves, NEW f \in File, files'[f].generation <= drawn
    PROVE  /\ files'[f].generation = files[f].generation
           /\ \A i \in Items : Follows(files'[f].items[i], files[f].items[i])
BY StoreFacts DEF Evolves

LEMMA SnapshotStep ==
    ASSUME TypeOK, TypeOK', StoreInv, RestartInv, PinInv, SnapshotInv, [Next]_vars
    PROVE  SnapshotInv'
<1>1. Evolves
  BY StoreStep
<1>2. CASE Surrounding
  <2>1. UNCHANGED call
    BY <1>2 DEF Surrounding
  <2> SUFFICES ASSUME HasSnapshot(call)
               PROVE  /\ call.snapshot.generation \in 1..drawn'
                      /\ \A f \in File, i \in Items :
                            files'[f].generation = call.snapshot.generation =>
                                Follows(files'[f].items[i], call.snapshot.items[i])
                      /\ call.result # None =>
                            call.result = Selected(call.snapshot, call.request)
    BY <2>1 DEF SnapshotInv, HasSnapshot
  <2>2. call.snapshot \in Store /\ call.snapshot.generation \in 1..drawn
    BY DEF SnapshotInv, TypeOK, Types, CallState, CallShape
  <2>3. call.snapshot.generation \in 1..drawn'
    BY <1>1, <2>2, StoreFacts DEF Evolves
  <2>4. ASSUME NEW f \in File, NEW i \in Items, files'[f].generation = call.snapshot.generation
        PROVE  Follows(files'[f].items[i], call.snapshot.items[i])
    <3>1. /\ files'[f].generation = files[f].generation
          /\ Follows(files'[f].items[i], files[f].items[i])
      BY <1>1, <2>2, <2>4, SameHistory
    <3>2. Follows(files[f].items[i], call.snapshot.items[i])
      BY <2>4, <3>1 DEF SnapshotInv
    <3>3. call.snapshot.items[i].revision \in Nat /\ files'[f].items[i].revision \in Nat
      BY <2>2, ReadSessionAssumption DEF Store, ItemState, TypeOK, Types
    <3>4. QED BY <3>1, <3>2, <3>3, StoreFacts, FollowsOn
  <2>5. QED BY <2>3, <2>4 DEF SnapshotInv
<1>3. CASE Opens \/ Call \/ \E a \in Answers : Ends(a)
  <2>1. ~HasSnapshot(call')
    BY <1>3, OpensFacts, EndsFacts DEF Call, Idle, HasSnapshot
  <2>2. QED BY <2>1 DEF SnapshotInv
<1>4. CASE Goes
  <2>1. UNCHANGED files /\ UNCHANGED drawn /\ session.pc = "open"
    BY <1>4 DEF Goes, Serving, storeVars, TypeOK, CallShape
  <2>2. session.conn \in File /\ Exists(session.conn)
    BY <2>1 DEF TypeOK, Types, Session, SessionShape, PinInv
  <2>3. CASE call.pc = "state"
    <3>1. call'.pc = "read" /\ call'.snapshot = files[session.conn] /\ call'.result = None
      BY <1>4, <2>3 DEF Goes, TypeOK, Types, CallState, CallShape
    <3>2. files[session.conn].generation \in 1..drawn
      BY <2>2, StoreFacts DEF StoreInv, Exists
    <3>3. ASSUME NEW f \in File, NEW i \in Items,
                 files[f].generation = files[session.conn].generation
          PROVE  Follows(files[f].items[i], files[session.conn].items[i])
      BY <2>2, <3>3, StoreFacts DEF StoreInv, Follows
    <3>4. QED BY <2>1, <3>1, <3>2, <3>3 DEF SnapshotInv
  <2>4. CASE call.pc = "read"
    <3>1. /\ call'.snapshot = call.snapshot /\ call'.request = call.request
          /\ call'.result = Selected(call.snapshot, call.request)
      BY <1>4, <2>4 DEF Goes, TypeOK, Types, CallState
    <3>2. QED BY <2>1, <2>4, <3>1 DEF SnapshotInv, HasSnapshot
  <2>5. CASE call.pc = "file again"
    <3>1. /\ call'.snapshot = call.snapshot /\ call'.request = call.request
          /\ call'.result = call.result
      BY <1>4, <2>5 DEF Goes, TypeOK, Types, CallState
    <3>2. QED BY <2>1, <2>5, <3>1 DEF SnapshotInv, HasSnapshot
  <2>6. CASE call.pc = "file"
    <3>1. call'.pc = "state"
      BY <1>4, <2>6 DEF Goes, TypeOK, Types, CallState
    <3>2. QED BY <3>1 DEF SnapshotInv, HasSnapshot
  <2>7. QED BY <1>4, <2>3, <2>4, <2>5, <2>6 DEF Goes
<1>5. CASE UNCHANGED vars
  BY <1>5 DEF vars, storeVars, SnapshotInv, HasSnapshot
<1>6. QED BY <1>2, <1>3, <1>4, <1>5, Kinds

----------------------------------------------------------------------------
(* What an answer says of the snapshot it was selected from.               *)
LEMMA SelectedReports ==
    ASSUME NEW store, NEW r
    PROVE  LET a == Selected(store, r) IN
           /\ a.kind \in {"item", "modified"} =>
                r.kind = "get" /\ a.payload = Payload(store, r.item, r.projection)
           /\ a.kind \in {"not_modified", "modified"} =>
                r.kind = "get" /\ a.version = Version(store, r.item, r.projection)
           /\ a.kind = "not_modified" =>
                r.known = Version(store, r.item, r.projection) /\ r.known # Legacy
<1>1. CASE r.kind = "get"
  <2>1. Selected(store, r) = Found(store, r)
    BY <1>1 DEF Selected
  <2>2. QED BY <1>1, <2>1 DEF Found, Failed, Matches
<1>2. CASE r.kind # "get"
  BY <1>2 DEF Selected
<1>3. QED BY <1>1, <1>2

LEMMA StateGeneration == \A store : StateOf(store).generation = store.generation
BY DEF StateOf

(* A call that ends with data ends with what it selected from its snapshot. *)
LEMMA DataFacts ==
    ASSUME TypeOK, PinInv, SnapshotInv, NEW a \in Answers, Ends(a), IsData(a)
    PROVE  /\ call.pc = "state again" /\ HasSnapshot(call)
           /\ call.snapshot \in Store /\ call.request \in Request(Known)
           /\ a = Selected(call.snapshot, call.request)
           /\ session.conn \in File
           /\ files[session.conn].generation = call.snapshot.generation
           /\ files[session.conn].generation = session.pinned.generation
<1>1. /\ call.pc = "state again" /\ a = call.result
      /\ StateOf(files[session.conn]) = session.pinned
  BY DEF Ends
<1>2. HasSnapshot(call) /\ call.result # None
  BY <1>1 DEF HasSnapshot, TypeOK, CallShape
<1>3. /\ call.snapshot \in Store /\ call.request \in Request(Known)
      /\ session.pc = "open" /\ session.conn \in File
  BY <1>1, <1>2 DEF TypeOK, Types, CallState, Session, CallShape, SessionShape
<1>4. a = Selected(call.snapshot, call.request)
  BY <1>1, <1>2 DEF SnapshotInv
<1>5. StateOf(call.snapshot) = session.pinned
  BY <1>2 DEF PinInv
<1>6. files[session.conn].generation = session.pinned.generation
  BY <1>1, StateGeneration
<1>7. call.snapshot.generation = session.pinned.generation
  BY <1>5, StateGeneration
<1>8. QED BY <1>1, <1>2, <1>3, <1>4, <1>6, <1>7

(* How the reports change when a call ends: they follow its snapshot.      *)
LEMMA EndsReport ==
    ASSUME TypeOK, PinInv, SnapshotInv, NEW a \in Answers, Ends(a)
    PROVE  \/ UNCHANGED latest
           \/ /\ IsData(a)
              /\ \E j \in Items :
                    latest' = [latest EXCEPT ![j] = call.snapshot.items[j].revision]
<1>1. CASE a.kind \in {"item", "modified"}
  <2>1. IsData(a)
    BY <1>1, NoneAssumption DEF IsData, Answers, Errors, Failed
  <2>2. a = Selected(call.snapshot, call.request) /\ call.request \in Request(Known)
    BY <2>1, DataFacts
  <2>3. /\ call.request.kind = "get"
        /\ a.payload = Payload(call.snapshot, call.request.item, call.request.projection)
    BY <1>1, <2>2, SelectedReports
  <2>4. latest' = [latest EXCEPT ![a.payload.item] = a.payload.revision]
    BY <1>1 DEF Ends, Answer
  <2>5. call.request.item \in Items
    BY <2>2, <2>3 DEF Request
  <2>6. /\ a.payload.item = call.request.item
        /\ a.payload.revision = call.snapshot.items[call.request.item].revision
    BY <2>3 DEF Payload
  <2>7. QED BY <2>1, <2>4, <2>5, <2>6
<1>2. CASE a.kind = "not_modified"
  <2>1. IsData(a)
    BY <1>2, NoneAssumption DEF IsData, Answers, Errors, Failed
  <2>2. a = Selected(call.snapshot, call.request) /\ call.request \in Request(Known)
    BY <2>1, DataFacts
  <2>3. /\ call.request.kind = "get"
        /\ a.version = Version(call.snapshot, call.request.item, call.request.projection)
    BY <1>2, <2>2, SelectedReports
  <2>4. latest' = [latest EXCEPT ![a.version.item] = a.version.revision]
    BY <1>2 DEF Ends, Answer
  <2>5. call.request.item \in Items
    BY <2>2, <2>3 DEF Request
  <2>6. /\ a.version.item = call.request.item
        /\ a.version.revision = call.snapshot.items[call.request.item].revision
    BY <2>3 DEF Version
  <2>7. QED BY <2>1, <2>4, <2>5, <2>6
<1>3. CASE a.kind \notin {"item", "modified", "not_modified"}
  BY <1>3 DEF Ends, Answer
<1>4. QED BY <1>1, <1>2, <1>3

LEMMA ReportStep ==
    ASSUME TypeOK, StoreInv, RestartInv, PinInv, SnapshotInv, ReportInv, [Next]_vars
    PROVE  ReportInv'
<1>1. Evolves
  BY StoreStep
<1>2. session.pc = "open" => /\ session.conn \in File /\ session.pinned \in State
                            /\ latest \in [Items -> Nat]
  BY ReadSessionAssumption DEF TypeOK, Types, Session, SessionShape
<1>3. CASE Surrounding
  <2>1. UNCHANGED session /\ UNCHANGED call /\ UNCHANGED latest
    BY <1>3 DEF Surrounding
  <2>2. session.pc = "open" => session.pinned.generation <= drawn'
    BY <1>1, <1>2, StoreFacts DEF Evolves, ReportInv, State, Generation
  <2>3. ASSUME session.pc = "open", NEW i \in Items,
               files'[session.conn].generation = session.pinned.generation
        PROVE  latest[i] <= files'[session.conn].items[i].revision
    <3>1. /\ files'[session.conn].generation = files[session.conn].generation
          /\ Follows(files'[session.conn].items[i], files[session.conn].items[i])
      BY <1>1, <1>2, <2>3, SameHistory DEF ReportInv
    <3>2. latest[i] <= files[session.conn].items[i].revision
      BY <2>3, <3>1 DEF ReportInv
    <3>3. files'[session.conn].items[i].revision \in Nat
      BY <1>2, <2>3, TypesAtStep, ReadSessionAssumption DEF TypeOK, Types, Store, ItemState
    <3>4. QED BY <1>2, <2>3, <3>1, <3>2, <3>3, StoreFacts DEF Follows
  <2>4. QED BY <2>1, <2>2, <2>3 DEF ReportInv, HasSnapshot
<1>4. CASE Opens
  <2>1. /\ call'.pc = "idle" /\ UNCHANGED files /\ UNCHANGED drawn
        /\ latest' = [i \in Items |-> 0]
    BY <1>4, OpensFacts DEF storeVars
  <2>2. CASE session'.pc = "open"
    <3>1. Load
      <4>1. session \in Session
        BY DEF TypeOK, Types
      <4>2. Pin => session'.pc = "connect"
        BY DEF Pin, Closed
      <4>3. Close => session'.pc = "closed"
        BY DEF Close, Closed
      <4>4. Connect => session'.pc = "confirm"
        BY <4>1 DEF Connect, Session
      <4>5. Confirm => session'.pc \in {"load", "closed"}
        BY <4>1 DEF Confirm, Closed, Session
      <4>6. QED BY <1>4, <2>2, <4>2, <4>3, <4>4, <4>5 DEF Opens
    <3>2. /\ session'.conn = session.conn /\ session.conn \in File
          /\ session'.pinned.generation = files[session.conn].generation
      BY <3>1 DEF Load, StateOf, TypeOK, Types, Session, SessionShape
    <3>3. session'.pinned.generation <= drawn
      BY <3>2 DEF StoreInv
    <3>4. \A i \in Items : latest'[i] <= files[session.conn].items[i].revision
      BY <2>1, <3>2, StoreFacts
    <3>5. QED BY <2>1, <2>2, <3>2, <3>3, <3>4 DEF ReportInv, HasSnapshot
  <2>3. CASE session'.pc # "open"
    BY <2>1, <2>3 DEF ReportInv, HasSnapshot
  <2>4. QED BY <2>2, <2>3
<1>5. CASE Call
  <2>1. /\ call'.pc = "file" /\ UNCHANGED session /\ UNCHANGED latest
        /\ UNCHANGED files /\ UNCHANGED drawn
    BY <1>5 DEF Call, Idle, Serving, storeVars
  <2>2. QED BY <2>1 DEF ReportInv, HasSnapshot
<1>6. CASE Goes
  <2>1. /\ UNCHANGED session /\ UNCHANGED latest /\ UNCHANGED files /\ UNCHANGED drawn
        /\ session.pc = "open"
    BY <1>6 DEF Goes, Serving, storeVars, TypeOK, CallShape
  <2>2. HasSnapshot(call') => \A i \in Items : latest[i] <= call'.snapshot.items[i].revision
    <3>1. CASE call.pc = "state"
      <4>1. StateOf(files[session.conn]) = session.pinned /\ call'.snapshot = files[session.conn]
        BY <1>6, <3>1 DEF Goes, TypeOK, Types, CallState
      <4>2. files[session.conn].generation = session.pinned.generation
        BY <4>1 DEF StateOf
      <4>3. QED BY <2>1, <4>1, <4>2 DEF ReportInv
    <3>2. CASE call.pc # "state"
      BY <1>6, <3>2 DEF Goes, ReportInv, HasSnapshot, TypeOK, Types, CallState
    <3>3. QED BY <3>1, <3>2
  <2>3. QED BY <2>1, <2>2 DEF ReportInv, HasSnapshot
<1>7. ASSUME NEW a \in Answers, Ends(a) PROVE ReportInv'
  <2>1. /\ call'.pc = "idle" /\ UNCHANGED files /\ UNCHANGED drawn
        /\ session.pc = "open" /\ session'.pc = "open"
        /\ session'.conn = session.conn /\ session'.pinned = session.pinned
    BY <1>7, EndsFacts DEF storeVars
  <2>2. ASSUME NEW i \in Items, files[session.conn].generation = session.pinned.generation
        PROVE  latest'[i] <= files[session.conn].items[i].revision
    <3>1. latest[i] <= files[session.conn].items[i].revision
      BY <2>1, <2>2 DEF ReportInv
    <3>2. CASE UNCHANGED latest
      BY <3>1, <3>2
    <3>3. ASSUME IsData(a), NEW j \in Items,
                 latest' = [latest EXCEPT ![j] = call.snapshot.items[j].revision]
          PROVE  latest'[i] <= files[session.conn].items[i].revision
      <4>1. HasSnapshot(call) /\ files[session.conn].generation = call.snapshot.generation
        BY <1>7, <3>3, DataFacts
      <4>2. Follows(files[session.conn].items[i], call.snapshot.items[i])
        BY <1>2, <2>1, <4>1 DEF SnapshotInv
      <4>3. call.snapshot.items[i].revision \in Nat
        <5>1. call.snapshot \in Store
          BY <1>7, <3>3, DataFacts
        <5>2. QED BY <5>1, ReadSessionAssumption DEF Store, ItemState
      <4>4. QED BY <1>2, <2>1, <3>1, <3>3, <4>2, <4>3, StoreFacts DEF Follows
    <3>4. QED BY <1>7, <3>2, <3>3, EndsReport
  <2>3. QED BY <2>1, <2>2 DEF ReportInv, HasSnapshot
<1>8. CASE UNCHANGED vars
  BY <1>8 DEF vars, storeVars, history, ReportInv, HasSnapshot
<1>9. QED BY <1>3, <1>4, <1>5, <1>6, <1>7, <1>8, Kinds

----------------------------------------------------------------------------
(* The client's copy and every store of its generation share a history.    *)
LEMMA CopyFacts ==
    ASSUME TypeOK, held # None
    PROVE  /\ held.version.item \in Items /\ held.version.generation \in Nat
           /\ held.payload.revision \in Nat
BY ReadSessionAssumption DEF TypeOK, Types, Copy, VersionToken, Content, Generation

(* The copy taken from a snapshot is exact for it and for the files.       *)
LEMMA CopyTaken ==
    ASSUME TypeOK, StoreInv, PinInv, SnapshotInv, NEW a \in Answers, Ends(a), a.kind = "modified"
    PROVE  CopyInv'
<1> DEFINE i == call.request.item
           s == call.snapshot
<1>1. IsData(a)
  BY NoneAssumption DEF IsData, Answers, Errors, Failed
<1>2. /\ s \in Store /\ call.request \in Request(Known) /\ HasSnapshot(call)
      /\ a = Selected(s, call.request)
  BY <1>1, DataFacts
<1>3. /\ call.request.kind = "get"
      /\ a.payload = Payload(s, i, call.request.projection)
      /\ a.version = Version(s, i, call.request.projection)
  BY <1>2, SelectedReports
<1>4. /\ held' = [version |-> a.version, payload |-> a.payload]
      /\ call'.pc = "idle" /\ UNCHANGED files /\ UNCHANGED drawn
  BY EndsFacts DEF Ends, Answer, storeVars
<1>5. i \in Items
  BY <1>2, <1>3 DEF Request
<1>6. /\ held'.version.item = i /\ held'.version.generation = s.generation
      /\ held'.version.projection = call.request.projection
      /\ held'.version.revision = s.items[i].revision
  BY <1>3, <1>4 DEF Version
<1>7. /\ held'.payload.item = i /\ held'.payload.projection = call.request.projection
      /\ held'.payload.revision = s.items[i].revision
      /\ held'.payload.branch = s.items[i].branch
  BY <1>3, <1>4 DEF Payload
<1>8. s.generation \in 1..drawn
  BY <1>2 DEF SnapshotInv
<1>9. ASSUME NEW f \in File, files[f].generation = s.generation
      PROVE  Follows(files[f].items[i], held'.payload)
  <2>1. Follows(files[f].items[i], s.items[i])
    BY <1>2, <1>5, <1>9 DEF SnapshotInv
  <2>2. QED BY <1>7, <2>1 DEF Follows
<1> HIDE DEF i, s
<1>10. \A f \in File : Exact(held', files[f])
  BY <1>6, <1>9 DEF Exact
<1>11. QED BY <1>4, <1>6, <1>7, <1>8, <1>10 DEF CopyInv, HasSnapshot, Exact

LEMMA CopyStep ==
    ASSUME TypeOK, TypeOK', StoreInv, RestartInv, PinInv, SnapshotInv, CopyInv, [Next]_vars
    PROVE  CopyInv'
<1>1. Evolves
  BY StoreStep
<1>2. CASE Surrounding
  <2>1. UNCHANGED held /\ UNCHANGED call
    BY <1>2 DEF Surrounding
  <2>2. ASSUME held # None PROVE held.version.generation \in 1..drawn'
    BY <1>1, <2>2, StoreFacts DEF Evolves, CopyInv
  <2>3. ASSUME held # None, NEW f \in File PROVE Exact(held, files'[f])
    <3> SUFFICES ASSUME files'[f].generation = held.version.generation
                 PROVE  Follows(files'[f].items[held.version.item], held.payload)
      BY DEF Exact
    <3>1. /\ files'[f].generation = files[f].generation
          /\ Follows(files'[f].items[held.version.item], files[f].items[held.version.item])
      BY <1>1, <2>3, CopyFacts, StoreFacts, SameHistory DEF CopyInv
    <3>2. Follows(files[f].items[held.version.item], held.payload)
      BY <2>3, <3>1 DEF CopyInv, Exact
    <3>3. files'[f].items[held.version.item].revision \in Nat
      BY <2>3, CopyFacts, ReadSessionAssumption DEF TypeOK, Types, Store, ItemState
    <3>4. QED BY <2>3, <3>1, <3>2, <3>3, CopyFacts, StoreFacts, FollowsOn
  <2>4. QED BY <2>1, <2>2, <2>3 DEF CopyInv, HasSnapshot, Exact
<1>3. CASE Opens \/ Call
  <2>1. /\ UNCHANGED held /\ UNCHANGED files /\ UNCHANGED drawn
        /\ call'.pc \in {"idle", "file"}
    BY <1>3, OpensFacts DEF Call, Idle, Serving, storeVars
  <2>2. QED BY <2>1 DEF CopyInv, HasSnapshot, Exact
<1>4. CASE Goes
  <2>1. /\ UNCHANGED held /\ UNCHANGED files /\ UNCHANGED drawn /\ session.pc = "open"
    BY <1>4 DEF Goes, Serving, storeVars, TypeOK, CallShape
  <2>2. session.conn \in File
    BY <2>1 DEF TypeOK, Types, Session, SessionShape
  <2>3. ASSUME held # None, HasSnapshot(call') PROVE Exact(held, call'.snapshot)
    <3>1. CASE call.pc = "state"
      <4>1. call'.snapshot = files[session.conn]
        BY <1>4, <3>1 DEF Goes, TypeOK, Types, CallState
      <4>2. QED BY <2>2, <2>3, <4>1 DEF CopyInv
    <3>2. CASE call.pc # "state"
      <4>1. call'.snapshot = call.snapshot /\ HasSnapshot(call)
        BY <1>4, <2>3, <3>2 DEF Goes, HasSnapshot, TypeOK, Types, CallState
      <4>2. QED BY <2>3, <4>1 DEF CopyInv
    <3>3. QED BY <3>1, <3>2
  <2>4. QED BY <2>1, <2>3 DEF CopyInv, Exact, HasSnapshot
<1>5. ASSUME NEW a \in Answers, Ends(a) PROVE CopyInv'
  <2>1. CASE a.kind = "modified"
    BY <1>5, <2>1, CopyTaken
  <2>2. CASE a.kind # "modified"
    <3>1. UNCHANGED held /\ UNCHANGED files /\ UNCHANGED drawn /\ call'.pc = "idle"
      BY <1>5, <2>2, EndsFacts DEF Ends, Answer, storeVars
    <3>2. QED BY <3>1 DEF CopyInv, HasSnapshot, Exact
  <2>3. QED BY <2>1, <2>2
<1>6. CASE UNCHANGED vars
  BY <1>6 DEF vars, storeVars, CopyInv, HasSnapshot, Exact
<1>7. QED BY <1>2, <1>3, <1>4, <1>5, <1>6, Kinds

(* What a call offers is what the client holds, and nothing is answered    *)
(* before the call ends.                                                   *)
LEMMA OfferStep ==
    ASSUME TypeOK, RestartInv, OfferInv, [Next]_vars
    PROVE  OfferInv'
<1>1. CASE Surrounding
  BY <1>1 DEF Surrounding, OfferInv, Offered
<1>2. CASE Opens
  BY <1>2, OpensFacts DEF OfferInv
<1>3. CASE Call
  <2>1. PICK r \in Request(Offered) : call' = [Idle EXCEPT !.pc = "file", !.request = r]
    BY <1>3 DEF Call
  <2>2. call'.request = r /\ answer' = None /\ UNCHANGED held
    BY <1>3, <2>1 DEF Call, Idle
  <2>3. r.kind = "get" => r.known \in Offered
    BY DEF Request
  <2>4. QED BY <2>2, <2>3 DEF OfferInv, Offered
<1>4. CASE Goes
  <2>1. call'.request = call.request /\ UNCHANGED held /\ UNCHANGED answer /\ call.pc # "idle"
    BY <1>4 DEF Goes, TypeOK, Types, CallState
  <2>2. QED BY <2>1 DEF OfferInv, Offered
<1>5. ASSUME NEW a \in Answers, Ends(a) PROVE OfferInv'
  BY <1>5, EndsFacts DEF OfferInv
<1>6. CASE UNCHANGED vars
  BY <1>6 DEF vars, OfferInv, Offered
<1>7. QED BY <1>1, <1>2, <1>3, <1>4, <1>5, <1>6, Kinds

----------------------------------------------------------------------------
LEMMA InvAtInit == Init => IInv
<1> SUFFICES ASSUME Init PROVE IInv
  OBVIOUS
<1>1. TypeOK
  BY TypesAtInit
<1>2. /\ path = 1 /\ drawn = 1 /\ session = Closed /\ call = Idle /\ held = None
      /\ answer = None /\ told = FALSE /\ latest = [i \in Items |-> 0]
  BY DEF Init
<1>3. \A f \in File : files[f].generation = IF f = 1 THEN 1 ELSE 0
  BY DEF Init, NewStore, NoStore
<1>4. 1 \in File
  BY ReadSessionAssumption DEF File
<1>5. StoreInv
  BY <1>2, <1>3, <1>4 DEF StoreInv, Exists
<1>6. session.pc = "closed" /\ session.latched = None /\ call.pc = "idle"
  BY <1>2 DEF Closed, Idle
<1>7. RestartInv /\ PinInv /\ SnapshotInv /\ ReportInv /\ CopyInv /\ OfferInv
  BY <1>2, <1>6 DEF RestartInv, Differs, PinInv, SnapshotInv, ReportInv, CopyInv, OfferInv,
                    HasSnapshot
<1>8. QED BY <1>1, <1>5, <1>7 DEF IInv

LEMMA InvAtStep == IInv /\ [Next]_vars => IInv'
<1> SUFFICES ASSUME IInv, [Next]_vars PROVE IInv'
  OBVIOUS
<1>1. TypeOK'
  BY TypesAtStep DEF IInv
<1>2. QED
  BY <1>1, StoreStep, RestartStep, PinStep, SnapshotStep, ReportStep, CopyStep, OfferStep
  DEF IInv

(* The inductive invariant of an open session, its store and its client.   *)
THEOREM SessionInvariant == Spec => []IInv
<1>1. QED BY InvAtInit, InvAtStep, PTL DEF Spec

(* Data never follow a restart_required in the same session, whatever is   *)
(* restored, moved away or moved back meanwhile.                           *)
THEOREM RestartIsFinal == Spec => []NoDataAfterRestart
<1>1. IInv => NoDataAfterRestart
  BY DEF IInv, RestartInv, NoDataAfterRestart
<1>2. QED BY <1>1, SessionInvariant, PTL

(* A session asks for a restart only if its file or its store did change.  *)
THEOREM RestartIsCaused == Spec => []RestartHasCause
<1>1. IInv => RestartHasCause
  BY DEF IInv, RestartInv, RestartHasCause
<1>2. QED BY <1>1, SessionInvariant, PTL

(* A step that delivers is the end of a call with data.                    *)
LEMMA DeliveryEnds ==
    ASSUME IInv, [Next]_vars, Delivers
    PROVE  answer' \in Answers /\ Ends(answer') /\ IsData(answer')
<1>1. IsData(answer') /\ call.pc = "state again" /\ ~IsData(answer)
  BY DEF Delivers, IInv, OfferInv, IsData
<1>2. ~Surrounding /\ ~(UNCHANGED vars) /\ ~Goes /\ ~Opens /\ ~Call
  <2>1. UNCHANGED answer => FALSE
    BY <1>1 DEF IsData
  <2>2. Opens => FALSE
    BY <1>1, OpensFacts DEF IInv
  <2>3. QED BY <1>1, <2>1, <2>2 DEF Surrounding, vars, Goes, Call
<1>3. PICK a \in Answers : Ends(a)
  BY <1>2, Kinds DEF IInv
<1>4. answer' = a
  BY <1>3 DEF Ends, Answer
<1>5. QED BY <1>1, <1>3, <1>4

(* What is delivered was still in the file at the path, in the generation  *)
(* it was read in, after it was read.                                      *)
THEOREM DeliveredFromCurrent == Spec => DeliveredIsCurrent
<1>1. ASSUME IInv, [Next]_vars
      PROVE  [Delivers => /\ seen
                          /\ files[session.conn].generation = call.snapshot.generation]_vars
  <2>1. ASSUME Delivers
        PROVE  seen /\ files[session.conn].generation = call.snapshot.generation
    <3>1. seen
      BY <1>1, <2>1 DEF Delivers, IInv, PinInv
    <3>2. QED BY <1>1, <2>1, <3>1, DeliveryEnds, DataFacts DEF IInv
  <2>2. QED BY <2>1
<1>2. QED BY <1>1, SessionInvariant, PTL DEF Spec, DeliveredIsCurrent

(* Reports of one session never take an item back to an older revision.    *)
THEOREM ReportsForward == Spec => ReportsNeverGoBack
<1>1. ASSUME IInv, IInv', [Next]_vars
      PROVE  [session'.pc = "open" => \A i \in Items : latest'[i] >= latest[i]]_vars
  <2> SUFFICES ASSUME session'.pc = "open", NEW i \in Items PROVE latest'[i] >= latest[i]
    OBVIOUS
  <2>1. latest \in [Items -> Nat] /\ latest' \in [Items -> Nat]
    BY <1>1, ReadSessionAssumption DEF IInv, TypeOK, Types
  <2>2. CASE UNCHANGED latest
    BY <2>1, <2>2
  <2>3. CASE Opens
    <3>1. session.pc # "open"
      BY <2>3 DEF Opens, Pin, Connect, Confirm, Load, Close, Closed
    <3>2. latest[i] = 0
      BY <1>1, <3>1 DEF IInv, ReportInv
    <3>3. QED BY <2>1, <3>2
  <2>4. ASSUME NEW a \in Answers, Ends(a) PROVE latest'[i] >= latest[i]
    <3>1. ASSUME IsData(a), NEW j \in Items,
                 latest' = [latest EXCEPT ![j] = call.snapshot.items[j].revision]
          PROVE  latest'[i] >= latest[i]
      <4>1. HasSnapshot(call) /\ call.snapshot \in Store
        BY <1>1, <2>4, <3>1, DataFacts DEF IInv
      <4>2. latest[i] <= call.snapshot.items[i].revision
        BY <1>1, <4>1 DEF IInv, ReportInv
      <4>3. call.snapshot.items[i].revision \in Nat
        BY <4>1, ReadSessionAssumption DEF Store, ItemState
      <4>4. QED BY <2>1, <3>1, <4>2, <4>3
    <3>2. QED BY <1>1, <2>2, <2>4, <3>1, EndsReport DEF IInv
  <2>5. Surrounding \/ Call \/ Goes \/ UNCHANGED vars => UNCHANGED latest
    BY DEF Surrounding, Call, Goes, vars, history
  <2>6. QED BY <1>1, <2>2, <2>3, <2>4, <2>5, Kinds DEF IInv
<1>2. QED BY <1>1, SessionInvariant, PTL DEF Spec, ReportsNeverGoBack

(* A not_modified answer is true: the client's copy is what a full answer  *)
(* from the same snapshot would have held.                                 *)
THEOREM NotModifiedTrue == Spec => NotModifiedIsExact
<1>1. ASSUME IInv, [Next]_vars
      PROVE  [Delivers /\ answer'.kind = "not_modified" =>
                /\ held # None
                /\ held.payload = Payload(call.snapshot, call.request.item,
                                          call.request.projection)]_vars
  <2> SUFFICES ASSUME Delivers, answer'.kind = "not_modified"
               PROVE  /\ held # None
                      /\ held.payload = Payload(call.snapshot, call.request.item,
                                                call.request.projection)
    OBVIOUS
  <2> DEFINE s == call.snapshot
             r == call.request
             version == Version(s, r.item, r.projection)
  <2>1. /\ HasSnapshot(call) /\ s \in Store /\ r \in Request(Known)
        /\ answer' = Selected(s, r) /\ call.pc # "idle"
    BY <1>1, DeliveryEnds, DataFacts DEF IInv
  <2>2. r.kind = "get" /\ r.known = version /\ r.known # Legacy
    BY <2>1, SelectedReports
  <2>3. r.item \in Items /\ r.projection \in Projections
    BY <2>1, <2>2 DEF Request
  <2>4. version \in VersionToken
    BY <2>1, <2>3 DEF Version, VersionToken, Store, ItemState
  <2>5. held # None /\ held.version = version
    BY <1>1, <2>1, <2>2, <2>4, NoneAssumption DEF IInv, OfferInv, Offered
  <2>6. /\ version.item = r.item /\ version.projection = r.projection
        /\ version.revision = s.items[r.item].revision /\ version.generation = s.generation
    BY DEF Version
  <2> HIDE DEF version, s, r
  <2>7. Exact(held, s)
    BY <1>1, <2>1, <2>5 DEF IInv, CopyInv, s
  <2>8. /\ held.payload.item = r.item /\ held.payload.projection = r.projection
        /\ held.payload.revision = s.items[r.item].revision
    BY <1>1, <2>5, <2>6 DEF IInv, CopyInv
  <2>9. held.payload.branch = s.items[r.item].branch
    BY <2>5, <2>6, <2>7, <2>8 DEF Exact, Follows
  <2>10. held.payload \in Content
    BY <1>1, <2>5 DEF IInv, TypeOK, Types, Copy
  <2>11. held.payload = Payload(s, r.item, r.projection)
    BY <2>8, <2>9, <2>10 DEF Payload, Content
  <2>12. QED BY <2>5, <2>11 DEF s, r
<1>2. QED BY <1>1, SessionInvariant, PTL DEF Spec, NotModifiedIsExact
=============================================================================
