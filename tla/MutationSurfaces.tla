---------------------------- MODULE MutationSurfaces ----------------------------
(***************************************************************************)
(* Whole calls that change items, over three surfaces: a command-line      *)
(* process (cli_mutation.rs), a `bif rpc` process (expose.rs, rpc.rs and   *)
(* rpc_mutation.rs), and a host that embeds the RPC dispatcher and vouches *)
(* for who speaks.  Each reads its request, opens the store, is authorized *)
(* and runs one immediate transaction; other processes run between these   *)
(* steps, and the operator may restore the store as it was when new.       *)
(***************************************************************************)
EXTENDS MutationRequests

CONSTANTS
    Calls,      \* the processes, one call each
    Requests,   \* the inputs callers send, a subset of Input
    Hosts       \* what embedding hosts vouch for, a subset of Facts

VARIABLES
    store,      \* the store: whether it exists, its generation, items and receipts
    call        \* per process, the call it makes

vars == <<store, call>>

RpcIds == 8     \* event identities the generator of `bif rpc` supplies

Callers(hosts) ==
    {[surface |-> "cli", facts |-> Local],
     [surface |-> "rpc", facts |-> [Local EXCEPT !.ids = RpcIds]]}
    \cup {[surface |-> "host", facts |-> f] : f \in hosts}

NoMutation == MutationOf(None, [reason |-> None, priority |-> Omitted,
                                assignee |-> Omitted, note |-> None], Omitted, Omitted)

Idle ==
    [phase |-> "idle", caller |-> None, input |-> None, mutation |-> NoMutation,
     changes |-> {}, ids |-> 0, overtaken |-> FALSE, read |-> 0, pin |-> 0,
     answer |-> None, events |-> << >>, at |-> 0]

SurfacesAssumption ==
    /\ RequestsAssumption
    /\ Requests \subseteq Input /\ Hosts \subseteq Facts
    /\ None \notin Requests
    /\ None \notin {"not_found", "version_conflict", "idempotency_conflict", "internal"}

Goto(c, phase) == call' = [call EXCEPT ![c].phase = phase]

\* A process that has ended leaves its answer; what it decoded is gone.
Answer(c, code) ==
    call' = [call EXCEPT ![c] = [Idle EXCEPT !.phase = "answered", !.answer = code,
                                             !.caller = call[c].caller,
                                             !.overtaken = call[c].overtaken]]

-----------------------------------------------------------------------------
(* Reading the request and opening the store. *)

Start(c, who, i) ==
    /\ call[c].phase = "idle"
    /\ i.command = "capture" => who.surface # "cli"
    /\ who.surface = "host" => store.ready     \* a host keeps its store open
    /\ i.envelope # "v1" => who.surface = "rpc"
    /\ call' = [call EXCEPT ![c].caller = who, ![c].input = i,
                            ![c].phase = CASE who.surface = "cli" -> "parsing"
                                           [] who.surface = "rpc" -> "receiving"
                                           [] OTHER -> "decoding"]
    /\ UNCHANGED store

\* cli_mutation::parse: usage errors come before the configuration is read.
CliParse(c) ==
    LET i == call[c].input
    IN  /\ call[c].phase = "parsing"
        /\ IF CliUsageError(i) THEN Answer(c, "usage")
           ELSE call' = [call EXCEPT ![c].phase = "opening", ![c].mutation = CliMutation(i),
                                     ![c].changes = CliChanges(i)]
        /\ UNCHANGED store

\* rpc::parse_request: only the envelope; the parameters are decoded later.
RpcReceive(c) ==
    LET i == call[c].input
    IN  /\ call[c].phase = "receiving"
        /\ CASE i.envelope = "malformed" -> Answer(c, "invalid_input")
             [] i.envelope = "v2" -> Answer(c, "unsupported_version")
             [] OTHER -> Goto(c, "opening")
        /\ UNCHANGED store

Open(c) ==
    /\ call[c].phase = "opening"
    /\ IF ~store.ready THEN Answer(c, "not_initialized")
       ELSE Goto(c, IF call[c].caller.surface = "cli" THEN "prereading" ELSE "decoding")
    /\ UNCHANGED store

Decode(c) ==
    LET i == call[c].input
    IN  /\ call[c].phase = "decoding"
        /\ IF i.command = "capture"
           THEN IF CaptureInvalid(i) THEN Answer(c, "invalid_input") ELSE Goto(c, "admitting")
           ELSE IF RpcInvalid(i) THEN Answer(c, "invalid_input")
           ELSE call' = [call EXCEPT ![c].phase = "admitting", ![c].mutation = RpcMutation(i),
                                     ![c].changes = RpcChanges(i)]
        /\ UNCHANGED store

-----------------------------------------------------------------------------
(* The store's answers, at the moment they are asked for. *)

Exists(id) == id \in DOMAIN store.items
AtExpected(i) == Exists(i.item) /\ store.items[i.item].revision = i.expected

\* Not yet what the caller expects: the item is missing, or an older revision.
Behind(i) == ~Exists(i.item) \/ store.items[i.item].revision < i.expected

(* The command line reads the item first, outside any transaction, to know  *)
(* how many event identities to draw.                                       *)
\* Mutant: the pre-read applies the mutation to whatever revision it finds.
PrereadAnyRevision(c) ==
    LET k == call[c]  i == k.input  it == store.items[i.item]
    IN  /\ k.phase = "prereading"
        /\ IF Exists(i.item) /\ MutationError(it, k.mutation) # None
           THEN Answer(c, MutationError(it, k.mutation))
           ELSE call' = [call EXCEPT
                   ![c].phase = "admitting", ![c].overtaken = Behind(i), ![c].read = store.generation,
                   ![c].ids = IF Exists(i.item) THEN Len(EventsOf(it, k.mutation)) ELSE 0]
        /\ UNCHANGED store

\* Mutant: the identities are counted for the lifecycle half only.
PrereadOfStatus(c) ==
    LET k == call[c]  i == k.input  it == store.items[i.item]
    IN  /\ k.phase = "prereading"
        /\ IF AtExpected(i) /\ MutationError(it, k.mutation) # None
           THEN Answer(c, MutationError(it, k.mutation))
           ELSE call' = [call EXCEPT
                   ![c].phase = "admitting", ![c].overtaken = Behind(i), ![c].read = store.generation,
                   ![c].ids = IF AtExpected(i) THEN Len(StatusChange(it, k.mutation)) ELSE 0]
        /\ UNCHANGED store

Preread(c) ==
    LET k == call[c]  i == k.input  it == store.items[i.item]
    IN  /\ k.phase = "prereading"
        /\ IF AtExpected(i) /\ MutationError(it, k.mutation) # None
           THEN Answer(c, MutationError(it, k.mutation))
           ELSE call' = [call EXCEPT
                   ![c].phase = "admitting", ![c].overtaken = Behind(i), ![c].read = store.generation,
                   ![c].ids = IF AtExpected(i) THEN Len(EventsOf(it, k.mutation)) ELSE 0]
        /\ UNCHANGED store

\* Authorization, then a repository that pins the store's identity.
Admit(c) ==
    LET k == call[c]
    IN  /\ k.phase = "admitting"
        /\ IF ~Authorized(k.caller.facts, k.input.command, k.changes)
           THEN Answer(c, "unauthorized")
           ELSE call' = [call EXCEPT
                   ![c].phase = "transacting", ![c].pin = store.generation,
                   ![c].overtaken = @ \/ (k.caller.surface = "cli" /\ k.read # store.generation),
                   ![c].ids = IF k.caller.surface = "cli" THEN @ ELSE k.caller.facts.ids]
        /\ UNCHANGED store

-----------------------------------------------------------------------------
(* The transaction. *)

By(k) == <<k.caller.surface, k.caller.facts.id, k.caller.facts.agent>>

\* Canonical bytes: a person called "clear" and an unassignment are the same.
HashOf(k) ==
    LET i == k.input  m == k.mutation
    IN  IF i.command = "capture" THEN <<"capture", i.content>>
        ELSE <<"mutation", i.item, i.expected, m.lifecycle, m.reason,
               IF m.triage THEN TriageNames(m.priority, m.assignee, m.note) ELSE None,
               m.note, By(k)>>

\* Mutant: a receipt of another payload is overlooked.
ReceiptsOfPayload(k) ==
    {r \in store.receipts : r.key = k.input.key /\ r.hash = HashOf(k)}

Receipts(k) == {r \in store.receipts : r.key = k.input.key}

\* What stands in the way of a mutation, in the order of the code.
MutationRefusal(k) ==
    LET i == k.input  it == store.items[i.item]
    IN  IF ~Exists(i.item) THEN "not_found"
        ELSE IF it.revision # i.expected THEN "version_conflict"
        ELSE MutationError(it, k.mutation)

Refusal(k) ==
    IF Receipts(k) # {}
    THEN IF \E r \in Receipts(k) : r.hash # HashOf(k) THEN "idempotency_conflict" ELSE None
    ELSE IF k.input.command = "capture" THEN None ELSE MutationRefusal(k)

Captured == <<[type |-> "captured", before |-> None, after |-> None]>>

EffectOf(k) ==
    IF k.input.command = "capture" THEN Captured
    ELSE EventsOf(store.items[k.input.item], k.mutation)

ItemsAfter(k) ==
    IF k.input.command = "capture" THEN Append(store.items, NewItem(k.input.content))
    ELSE [store.items EXCEPT ![k.input.item] = Mutated(@, k.mutation)]

Commit(c) ==
    LET k == call[c]
    IN  /\ store' = [store EXCEPT !.items = ItemsAfter(k),
                                  !.receipts = @ \cup {[key |-> k.input.key, hash |-> HashOf(k)]}]
        /\ call' = [call EXCEPT ![c].phase = "replying", ![c].answer = "ok",
                                ![c].events = EffectOf(k), ![c].at = store.generation]

\* Two failures are `internal` to the caller and told apart here: identities
\* that do not fit the events, and a revision the items table cannot hold.
Transact(c) ==
    LET k == call[c]
        mutates == k.input.command # "capture"
    IN  /\ k.phase = "transacting"
        /\ IF k.pin # store.generation THEN Answer(c, "restart_required") /\ UNCHANGED store
           ELSE IF Refusal(k) # None THEN Answer(c, Refusal(k)) /\ UNCHANGED store
           ELSE IF Receipts(k) # {} \/ EffectOf(k) = << >> THEN Answer(c, "ok") /\ UNCHANGED store
           ELSE IF mutates /\ k.ids # Len(EffectOf(k))
           THEN Answer(c, "internal") /\ UNCHANGED store
           ELSE IF mutates /\ store.items[k.input.item].revision = MaxI64
           THEN Answer(c, "revision_limit") /\ UNCHANGED store
           ELSE Commit(c)

Reply(c) == call[c].phase = "replying" /\ Goto(c, "answered") /\ UNCHANGED store

(* The lock is not to be had within the busy timeout. *)
Busy(c) ==
    /\ call[c].phase \in {"opening", "prereading", "admitting", "transacting"}
    /\ Answer(c, "storage_busy")
    /\ UNCHANGED store

Crash(c) ==
    /\ call[c].phase \notin {"idle", "answered", "dead"}
    /\ call' = [call EXCEPT ![c] = IF call[c].events = << >> THEN [Idle EXCEPT !.phase = "dead"]
                                   ELSE [@ EXCEPT !.phase = "dead"]]
    /\ UNCHANGED store

(* The operator creates the store, and may put a backup, taken after the    *)
(* first capture, in its place; MaxGeneration bounds how often.             *)
MaxGeneration == 2
StoreWith(items, generation) ==
    [ready |-> TRUE, generation |-> generation, items |-> items, receipts |-> {}]

Initialize ==
    /\ ~store.ready
    /\ store' = StoreWith(<< >>, 1)
    /\ UNCHANGED call

Restore ==
    /\ store.ready /\ store.generation < MaxGeneration
    /\ \E t \in Contents : store' = StoreWith(<<NewItem(t)>>, store.generation + 1)
    /\ UNCHANGED call

Init ==
    /\ \/ store = [StoreWith(<< >>, 1) EXCEPT !.ready = FALSE]
       \/ \E t \in Contents : store = StoreWith(<<NewItem(t)>>, 1)
    /\ call = [c \in Calls |-> Idle]

Begin(c, hosts, requests) == \E who \in Callers(hosts), i \in requests : Start(c, who, i)

Step(c) ==
    \/ CliParse(c) \/ RpcReceive(c) \/ Open(c) \/ Preread(c) \/ Decode(c)
    \/ Admit(c) \/ Transact(c) \/ Reply(c) \/ Busy(c) \/ Crash(c)

Next ==
    \/ Initialize \/ Restore
    \/ \E c \in Calls : Begin(c, Hosts, Requests) \/ Step(c)

Spec == Init /\ [][Next]_vars

-----------------------------------------------------------------------------
(* Properties. *)

(* What an agent changes, its human's trusted instruction names, in the     *)
(* spelling of the request where that is a person's name, whatever surface  *)
(* the request came through (application.rs authorize_mutation).            *)
AgentStaysInScope ==
    \A c \in Calls : LET k == call[c] IN
        k.events # << >> /\ k.caller.facts.agent # None /\ k.input.command # "capture" =>
            /\ k.caller.facts.kind = "human"
            /\ Instructed(k.caller.facts)
            /\ \A n \in DOMAIN k.events :
                  ChangeOf(k.events[n]) \in AllowedBy(k.caller.facts.human.changes)

(* Within one store identity a key has one effect, over all surfaces: a     *)
(* caller that retries through another surface cannot act twice.            *)
OneEffectPerKey ==
    \A c, d \in Calls :
        /\ c # d /\ call[c].events # << >> /\ call[d].events # << >>
        /\ call[c].at = call[d].at
        => call[c].input.key # call[d].input.key

(* The same words mean the same mutation on every surface that takes them,  *)
(* and a convenience command means the triage it abbreviates.  Words that   *)
(* only the command line reads as "clear" are left aside.                   *)
Said(i) ==
    [item |-> i.item, lifecycle |-> CliLifecycle(i), reason |-> i.reason,
     priority |-> i.priority, assignee |-> i.assignee, note |-> i.note]

Decoded(c) == call[c].phase \in {"prereading", "admitting", "transacting", "replying"}

SurfacesAgree ==
    \A c, d \in Calls :
        /\ Decoded(c) /\ Decoded(d)
        /\ call[c].input.command # "capture" /\ call[d].input.command # "capture"
        /\ Said(call[c].input) = Said(call[d].input)
        /\ ~\E f \in {call[c].input.priority, call[c].input.assignee} :
              f # Clear /\ SaysClear(f)
        => call[c].mutation = call[d].mutation

(* The pre-read of the command line refuses only what the transaction would *)
(* refuse at that moment: in particular never the retry of a call that was  *)
(* already done (cli_mutation.rs execute).                                  *)
RefusedRightly(c) ==
    /\ call[c].phase = "prereading" /\ call'[c].phase = "answered"
    /\ call'[c].answer # "storage_busy"
    => Refusal(call[c]) # None

PrereadRefusesRightly == [][\A c \in Calls : RefusedRightly(c)]_vars

(* The identities the pre-read counted fail to fit the transaction only     *)
(* when the item was behind the expected revision, or the store was another *)
(* one, when it was read: an interleaving, never a wrong count.             *)
CountFitsUnlessOvertaken ==
    \A c \in Calls : LET k == call[c] IN
        k.answer = "internal" /\ k.caller.surface = "cli" => k.overtaken

(* "Use the existing CLI/RPC for mutations." (README.md:315): no mutation   *)
(* through `bif rpc` ends as an internal error.                             *)
RpcMutationsTakeEffect ==
    \A c \in Calls : ~(call[c].answer = "internal" /\ call[c].caller.surface = "rpc")
=============================================================================
