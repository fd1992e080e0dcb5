---------------------------- MODULE ReadSession ----------------------------
(***************************************************************************)
(* A read session (read_session.rs): one connection held open over many    *)
(* calls while writers change items, an operator restores the store in     *)
(* place, and the file at the database path is exchanged for another.  The *)
(* session pins the file and the state of the store when it opens, checks  *)
(* both before it reads and again before it answers, and never answers     *)
(* with data again once it has asked for a restart.  Its client keeps the  *)
(* last projection it was sent with its version, and asks whether that is  *)
(* still current (conditional_reads.rs, projection_reads.rs).              *)
(*                                                                         *)
(* A file is what a file handle identifies; the database path names one    *)
(* file or none.  Generations are drawn at random, so each draw is new,    *)
(* and a generation is drawn for one store: equal generations stand for    *)
(* equal store ids too.                                                    *)
(***************************************************************************)
EXTENDS Naturals

CONSTANTS
    Items, Projections,
    None,               \* absent: no file at the path, no version, no answer
    Legacy,             \* a well-formed version from before generations
    MaxFiles,           \* bound: files that are ever at the path
    MaxGenerations,     \* bound: generations drawn, by new stores and restores
    MaxSchema,          \* bound: schema cookies of one file
    MaxRevision         \* bound: mutations of one item

ASSUME ReadSessionAssumption ==
    /\ MaxFiles \in Nat \ {0} /\ MaxGenerations \in Nat \ {0}
    /\ MaxSchema \in Nat /\ MaxRevision \in Nat

VARIABLES
    files,      \* per file, the store in it
    path,       \* the file the database path names, or None
    drawn,      \* how many generations were ever drawn
    backup,     \* the items of the last backup
    session,    \* the ReadSession, and how far ReadSession::open has come
    call,       \* the call the session works on, and where in it
    answer,     \* the answer of the last call, until the next one
    held,       \* the client's copy: a version and what came with it, or None
    told,       \* history: the session answered restart_required
    moved,      \* history: file or state differed from the pin since opening
    seen,       \* history: since the call's snapshot, the path named its file
    latest      \* history: revision of each item as last reported in a session

storeVars == <<files, path, drawn, backup>>
history == <<told, moved, seen, latest>>
vars == <<storeVars, session, call, answer, held, history>>

File == 1..MaxFiles
NoItem == [revision |-> 0, branch |-> 0]
NoStore == [generation |-> 0, schema |-> 0, items |-> [i \in Items |-> NoItem]]
Exists(f) == files[f].generation # 0

\* Mutant: only what a restore keeps, the store id, is pinned and compared.
StateOfIdentity(store) == [generation |-> 0, schema |-> 0]

\* read_store_state: what a session pins and compares.
StateOf(store) == [generation |-> store.generation, schema |-> store.schema]

----------------------------------------------------------------------------
(* What a call may ask and be answered.  A known version is the one the    *)
(* client holds, or a token from before versions carried a generation.     *)
Request(known) ==
    [kind : {"get"}, item : Items, projection : Projections,
     conditional : BOOLEAN, known : known]
        \cup [kind : {"resolve"}]

Failed(error) == [kind |-> "error", error |-> error]
Restart(reason) == [kind |-> "restart", reason |-> reason]
IsData(a) == a # None /\ a.kind \notin {"error", "restart"}

\* ProjectionValidator::new
Version(store, item, projection) ==
    [item |-> item, projection |-> projection, generation |-> store.generation,
     schema |-> store.schema, revision |-> store.items[item].revision]

Payload(store, item, projection) ==
    [item |-> item, projection |-> projection,
     revision |-> store.items[item].revision, branch |-> store.items[item].branch]

\* Mutant: a version from another generation of the store still matches.
MatchesAnyGeneration(known, version) ==
    known # None /\
    [known EXCEPT !.generation = 0, !.schema = 0] =
    [version EXCEPT !.generation = 0, !.schema = 0]

\* ProjectionValidator::matches
Matches(known, version) == known = version

\* read_conditional_projection and the unconditional get, in one snapshot.
Conditional(r) == r.conditional \/ r.known # None
Found(store, r) ==
    LET version == Version(store, r.item, r.projection)
        payload == Payload(store, r.item, r.projection)
    IN  IF store.items[r.item].revision = 0 THEN Failed("not_found")
        ELSE IF ~Conditional(r) THEN [kind |-> "item", payload |-> payload]
        ELSE IF r.known = Legacy THEN Failed("generation_missing")
        ELSE IF Matches(r.known, version) THEN
            [kind |-> "not_modified", version |-> version]
        ELSE [kind |-> "modified", version |-> version, payload |-> payload]

Selected(store, r) ==
    IF r.kind = "get" THEN Found(store, r)
    ELSE [kind |-> "project", generation |-> store.generation]

----------------------------------------------------------------------------
Closed == [pc |-> "closed", file |-> None, conn |-> None, pinned |-> None,
           latched |-> None]
Idle == [pc |-> "idle", request |-> None, snapshot |-> None, result |-> None]

NewStore(generation) == [NoStore EXCEPT !.generation = generation]

Init ==
    /\ files = [f \in File |-> IF f = 1 THEN NewStore(1) ELSE NoStore]
    /\ path = 1
    /\ drawn = 1
    /\ backup = NoStore.items
    /\ session = Closed
    /\ call = Idle
    /\ answer = None
    /\ held = None
    /\ told = FALSE
    /\ moved = FALSE
    /\ seen = FALSE
    /\ latest = [i \in Items |-> 0]

Differs ==
    session.pc = "open" /\
    (path # session.file \/ StateOf(files[session.conn]) # session.pinned)

HasSnapshot(c) == c.pc \in {"read", "file again", "state again"}

(* The history variables watch every step.                                 *)
Observe ==
    /\ moved' = ((moved /\ session'.pc = "open") \/ Differs')
    /\ seen' = (HasSnapshot(call') /\ ((HasSnapshot(call) /\ seen) \/ path' = session.conn))

----------------------------------------------------------------------------
(* The surroundings: other processes and the operator.                     *)
Surrounding == UNCHANGED <<session, call, answer, held, told, latest>> /\ Observe

Mutate(f, i) ==
    /\ Exists(f)
    /\ files[f].items[i].revision < MaxRevision
    /\ files' = [files EXCEPT ![f].items[i] =
                    [revision |-> @.revision + 1, branch |-> files[f].generation]]
    /\ UNCHANGED <<path, drawn, backup>>
    /\ Surrounding

ChangeSchema(f) ==
    /\ Exists(f)
    /\ files[f].schema < MaxSchema
    /\ files' = [files EXCEPT ![f].schema = @ + 1]
    /\ UNCHANGED <<path, drawn, backup>>
    /\ Surrounding

Backup ==
    /\ path # None
    /\ backup' = files[path].items
    /\ UNCHANGED <<files, path, drawn>>
    /\ Surrounding

\* maintenance::restore publishes into the file at the path, which stays; it
\* draws a generation, and SQLite advances the schema cookie.
Restore ==
    /\ path # None
    /\ drawn < MaxGenerations
    /\ files[path].schema < MaxSchema
    /\ files' = [files EXCEPT ![path] =
                    [generation |-> drawn + 1, schema |-> @.schema + 1,
                     items |-> backup]]
    /\ drawn' = drawn + 1
    /\ UNCHANGED <<path, backup>>
    /\ Surrounding

MoveAway ==
    /\ path # None
    /\ path' = None
    /\ UNCHANGED <<files, drawn, backup>>
    /\ Surrounding

\* Assumed: no file comes back while a session opens.  The handle is compared
\* before and after the connection is made, which cannot tell "away and back".
MoveBack(f) ==
    /\ path = None
    /\ Exists(f)
    /\ session.pc \in {"closed", "open"}
    /\ path' = f
    /\ UNCHANGED <<files, drawn, backup>>
    /\ Surrounding

Install(f) ==
    /\ path = None
    /\ ~Exists(f)
    /\ drawn < MaxGenerations
    /\ files' = [files EXCEPT ![f] = NewStore(drawn + 1)]
    /\ path' = f
    /\ drawn' = drawn + 1
    /\ UNCHANGED backup
    /\ Surrounding

----------------------------------------------------------------------------
(* ReadSession::open: the file, the connection, the file again, the state. *)
Opening ==
    /\ answer' = None
    /\ told' = FALSE
    /\ latest' = [i \in Items |-> 0]
    /\ UNCHANGED <<storeVars, call, held>>
    /\ Observe

Pin ==
    /\ session.pc = "closed"
    /\ path # None
    /\ session' = [Closed EXCEPT !.pc = "connect", !.file = path]
    /\ Opening

Connect ==
    /\ session.pc = "connect"
    /\ path # None
    /\ session' = [session EXCEPT !.pc = "confirm", !.conn = path]
    /\ Opening

Confirm ==
    /\ session.pc = "confirm"
    /\ session' = IF path = session.file THEN [session EXCEPT !.pc = "load"]
                  ELSE Closed
    /\ Opening

Load ==
    /\ session.pc = "load"
    /\ session' = [session EXCEPT !.pc = "open", !.pinned = StateOf(files[session.conn])]
    /\ Opening

\* Opening fails, or the process of an idle session ends.
Close ==
    /\ session.pc # "closed"
    /\ call.pc = "idle"
    /\ session' = Closed
    /\ Opening

----------------------------------------------------------------------------
(* A call: execute_checked and resolve_project_checked.                    *)
Serving == UNCHANGED storeVars /\ Observe

\* The versions a client can name: none, an old token, or that of its copy.
Offered == {None, Legacy} \cup {h.version : h \in {held} \ {None}}

Call ==
    /\ session.pc = "open"
    /\ call.pc = "idle"
    /\ \E r \in Request(Offered) : call' = [Idle EXCEPT !.pc = "file", !.request = r]
    /\ answer' = None
    /\ UNCHANGED <<session, held, told, latest>>
    /\ Serving

\* invalidate_on_restart
Invalidated(a) ==
    IF a.kind = "restart" THEN [session EXCEPT !.latched = a.reason] ELSE session

\* The call ends with a; the client keeps what a modified answer brought.
Answer(a) ==
    /\ call' = Idle
    /\ answer' = a
    /\ session' = Invalidated(a)
    /\ told' = (told \/ a.kind = "restart")
    /\ held' = IF a.kind = "modified" THEN [version |-> a.version, payload |-> a.payload]
               ELSE held
    /\ latest' =
        IF a.kind \in {"item", "modified"} THEN
            [latest EXCEPT ![a.payload.item] = a.payload.revision]
        ELSE IF a.kind = "not_modified" THEN
            [latest EXCEPT ![a.version.item] = a.version.revision]
        ELSE latest

GoOn(pc) ==
    /\ call' = [call EXCEPT !.pc = pc]
    /\ UNCHANGED <<session, answer, held, told, latest>>

\* check_boundary, first half: the latch, then the file at the path.
CheckFile(pc, next) ==
    /\ call.pc = pc
    /\ IF session.latched # None THEN Answer(Restart(session.latched))
       ELSE IF path # session.file THEN Answer(Restart("database_file_changed"))
       ELSE GoOn(next)
    /\ Serving

\* Second half, first time: it opens the snapshot the call reads from.
Bind ==
    /\ call.pc = "state"
    /\ IF StateOf(files[session.conn]) # session.pinned
       THEN Answer(Restart("store_or_schema_changed"))
       ELSE /\ call' = [call EXCEPT !.pc = "read", !.snapshot = files[session.conn]]
            /\ UNCHANGED <<session, answer, held, told, latest>>
    /\ Serving

\* Select and encode; an error of the selection ends the call.
Read ==
    /\ call.pc = "read"
    /\ LET a == Selected(call.snapshot, call.request) IN
       IF a.kind = "error" THEN Answer(a)
       ELSE /\ call' = [call EXCEPT !.pc = "file again", !.result = a]
            /\ UNCHANGED <<session, answer, held, told, latest>>
    /\ Serving

\* Mutant: the encoded bytes are returned without a look at the store.
DeliverUnchecked ==
    /\ call.pc = "state again"
    /\ Answer(call.result)
    /\ Serving

\* check_fresh_boundary, second half, and the return of the encoded bytes.
Deliver ==
    /\ call.pc = "state again"
    /\ Answer(IF StateOf(files[session.conn]) # session.pinned
              THEN Restart("store_or_schema_changed") ELSE call.result)
    /\ Serving

\* Mutant: an interrupt within a boundary check counts as a changed store.
Latching == {Failed("storage_busy"), Restart("store_or_schema_changed")}
\* A busy lock or an interrupt, in the boundary checks as elsewhere.
Transient == {Failed("storage_busy"), Failed("internal")}

Fail ==
    /\ call.pc # "idle"
    /\ \E a \in Transient : Answer(a)
    /\ Serving

Unauthorized ==
    /\ call.pc = "file"
    /\ call.request.kind = "get"
    /\ Answer(Failed("unauthorized"))
    /\ Serving

----------------------------------------------------------------------------
Next ==
    \/ \E f \in File, i \in Items : Mutate(f, i)
    \/ \E f \in File : ChangeSchema(f)
    \/ \E f \in File : MoveBack(f)
    \/ \E f \in File : Install(f)
    \/ Backup
    \/ Restore
    \/ MoveAway
    \/ Pin
    \/ Connect
    \/ Confirm
    \/ Load
    \/ Close
    \/ Call
    \/ CheckFile("file", "state")
    \/ Bind
    \/ Read
    \/ CheckFile("file again", "state again")
    \/ Deliver
    \/ Fail
    \/ Unauthorized

Spec == Init /\ [][Next]_vars

----------------------------------------------------------------------------
Generation == 0..MaxGenerations
ItemState == [revision : 0..MaxRevision, branch : Generation]
Store == [generation : Generation, schema : 0..MaxSchema, items : [Items -> ItemState]]
State == [generation : Generation, schema : 0..MaxSchema]
VersionToken ==
    [item : Items, projection : Projections, generation : Generation,
     schema : 0..MaxSchema, revision : 0..MaxRevision]
Known == {None, Legacy} \cup VersionToken
Content ==
    [item : Items, projection : Projections, revision : 0..MaxRevision,
     branch : Generation]
Reasons == {"database_file_changed", "store_or_schema_changed"}
Data ==
    [kind : {"item"}, payload : Content]
        \cup [kind : {"modified"}, version : VersionToken, payload : Content]
        \cup [kind : {"not_modified"}, version : VersionToken]
        \cup [kind : {"project"}, generation : Generation]
Errors ==
    [kind : {"error"}, error : {"not_found", "generation_missing", "unauthorized",
                                "storage_busy", "internal"}]
        \cup [kind : {"restart"}, reason : Reasons]

Copy == [version : VersionToken, payload : Content]
Session ==
    [pc : {"closed", "connect", "confirm", "load", "open"},
     file : File \cup {None}, conn : File \cup {None},
     pinned : State \cup {None}, latched : Reasons \cup {None}]
CallState ==
    [pc : {"idle", "file", "state", "read", "file again", "state again"},
     request : Request(Known) \cup {None},
     snapshot : Store \cup {None}, result : Data \cup {None}]

ASSUME NoneAssumption ==
    /\ None \notin File /\ None # Legacy /\ None \notin Reasons
    /\ \A set \in {State, Store, VersionToken, Data, Request(Known)} : None \notin set
    /\ None \notin Copy

Types ==
    /\ files \in [File -> Store]
    /\ path \in File \cup {None}
    /\ drawn \in 1..MaxGenerations
    /\ backup \in [Items -> ItemState]
    /\ session \in Session
    /\ call \in CallState
    /\ answer \in Data \cup Errors \cup {None}
    /\ held \in Copy \cup {None}
    /\ told \in BOOLEAN /\ moved \in BOOLEAN /\ seen \in BOOLEAN
    /\ latest \in [Items -> 0..MaxRevision]

SessionShape ==
    /\ session.pc # "closed" => session.file # None
    /\ session.pc \in {"confirm", "load", "open"} => session.conn # None
    /\ session.pc = "open" <=> session.pinned # None

CallShape ==
    /\ call.pc # "idle" => session.pc = "open"
    /\ call.pc = "idle" <=> call.request = None
    /\ HasSnapshot(call) <=> call.snapshot # None
    /\ call.pc \in {"file again", "state again"} <=> call.result # None

(* Values stay in their sets; a session past its connection has one, an    *)
(* open one has a pinned state, and a call runs only in an open session    *)
(* and holds a snapshot and a result exactly when its place implies them.  *)
TypeOK == Types /\ SessionShape /\ CallShape

Delivers == call.pc = "state again" /\ IsData(answer')

(* A not_modified answer is true of the client's copy: what it keeps under *)
(* the version it named is, to the projection and the branch of history,   *)
(* what a full answer would have sent - after restores that took items     *)
(* back to revisions they already had, reopened sessions and new stores.   *)
NotModifiedIsExact ==
    [][Delivers /\ answer'.kind = "not_modified" =>
            /\ held # None
            /\ held.payload = Payload(call.snapshot, call.request.item,
                                      call.request.projection)]_vars

(* Data leave the session only if, after they were read, the database path *)
(* still named the file they came from, and the store in it is of the      *)
(* generation they were read in: the second boundary check.                *)
DeliveredIsCurrent ==
    [][Delivers => /\ seen
                   /\ files[session.conn].generation = call.snapshot.generation]_vars

(* Once a session answered restart_required no later call of it returns    *)
(* data, although file and state may match their pins again.               *)
NoDataAfterRestart == told => ~IsData(answer)

(* restart_required has a cause: the path or the pinned state did change.  *)
(* A busy lock or the interrupt of a cancelled call does not end a session *)
(* that could go on.                                                       *)
RestartHasCause == told => moved

(* Within a session the revisions a client is told of an item never go     *)
(* back: a restore to an older backup ends the session first.              *)
ReportsNeverGoBack ==
    [][session'.pc = "open" => \A i \in Items : latest'[i] >= latest[i]]_vars
=============================================================================
