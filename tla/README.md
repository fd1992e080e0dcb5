# BIF in TLA+

Specifications, model-checking instances and machine-checked proofs for BIF, a
work-item ledger kept in one SQLite file and reached through a command line, a
line-delimited RPC process and an MCP stdio adapter. Paths below are relative to
the repository's parent, as in `src/src/storage.rs`.

## 1. The system

| Component | State it keeps | Operations | Interacts with |
|---|---|---|---|
| Item rules, `domain.rs` | an `Item`: content, status, priority, assignee, reason, revision | `capture`, six lifecycle transitions, `triage`, compound `apply_mutation` | called inside storage transactions |
| Use cases, `application.rs` | none | authorize, hash the payload, call the store, map errors | domain, storage, adapters |
| Ledger storage, `storage.rs` | tables of items, operations, events, receipts, counters, projects; a pinned `ReadStoreState` per repository | `capture`, `mutate`, reads | journal, domain |
| Change journal, `storage/journal.rs`, migration 0004 | rows, floor F, high water H, allocator, generation, flags | append, inspect, select a range | written by every effective transaction |
| Maintenance, `storage/maintenance.rs` | backup files | activate, prune, backup, restore | replaces or edits the store offline |
| Read sessions, `read_session.rs` | a pinned connection, the file identity, a latched restart reason | resolve a project, execute a read | checks its boundary before and after each read |
| Queries, pages and cursors, `read_semantics.rs`, `application/cursors.rs`, `storage/projection_reads.rs`, `history_pages.rs` | none between calls; the cursor carries it | normalize a query, select a page beyond a boundary, bind and refuse cursors | journal generation, read session |
| Response budget, `v2_response.rs` | none | longest prefix of a page that fits | cursors |
| MCP adapter, `mcp.rs` | `Control`: outstanding calls, active call, stopped flag; bounded channels | reader, worker, writer, interrupt helper threads | read session, client |
| RPC and CLI, `rpc*.rs`, `expose.rs`, `cli*.rs` | none | decode, authorize, call, answer | use cases, other processes |
| Configuration, `config.rs`, `cli.rs` | the configuration file | `init` writes it, every command loads it | other processes |
| Projects, `config.rs`, `ProjectRepository` | registered paths and remotes | register, resolve a directory's project | capture, list, read session |
| Migrations, `storage.rs` | applied history | `open`, `migrate_all` | every opener |

What is hard, and what makes each part correct:

* **Item rules.** A compound mutation validates on a copy and reports ordered
  events; the audit trail must reconstruct the item whatever was combined, and a
  finished item must stay as it is.
* **Transactions.** Several processes write one file. An effect is an item row, an
  operation, its events, a receipt and a journal row at once; a caller who lost the
  answer retries; two callers start from one revision.
* **Journal and maintenance.** A client may trust "everything up to position n of
  generation g" only if positions have no gaps, a generation never forks, and
  restores neither lose acknowledged effects nor reuse a generation. Processes
  that survived a restore must be fenced.
* **Read sessions.** What was read is encoded and returned after its transaction
  ended, and a session lives for days: meanwhile the store is restored in place or
  the file at the path is another one. Answers must come from the store that is
  there, a session that lost its store must not return to life, and "not modified"
  must be true of the copy the client has.
* **Requests.** The same words reach the store through a command line, an RPC process
  and embedding hosts. All must mean one mutation, an agent must stay within what a
  human's trusted instruction names, and the command line reads the item before the
  transaction that it then asks for.
* **Pages.** A continuation is a new query over a table that changed meanwhile, and a
  cursor outlives the store, the history or the query it was made for. Cutting a page
  to a budget is not monotonic: the last record can free the bytes of the cursor.
* **Following the feed.** Coverage expires by pruning, a generation ends by a restore,
  and a follower dies between applying a page and asking for the next.
* **Restore, step by step.** The store is preserved, the replacement published and
  verified; a failure or a death between any two steps is followed by a retry of an
  operator who sees only files.
* **Opening.** Two openers migrate at once, one of them older; a half-applied or
  foreign history must be refused and nothing half-applied may stay.
* **Configuration and projects.** `init` rewrites a file in place under the eyes of
  other processes; registrations and resolutions read several tables in several
  statements.
* **Adapter.** Four threads, one lock, bounded queues, an interrupt call that does
  nothing between two statements, ids that clients reuse, and a shutdown that must
  not wait for a client or for a statement.

`PROJECT.json` lists every hazard at its line, with the properties that cover it.

## 2. The modules

| Module | What it is |
|---|---|
| `Domain` | the item rules as operators: errors in the code's order, planned copy, events |
| `ItemLifecycle` | abstract machine: one item and its audit trail |
| `Ledger` | the store, its writers and maintenance; implements `ItemLifecycle` for each item |
| `ReadSession` | one session, its client's copy, the file at the path and what changes both |
| `McpAdapter` | the adapter's threads, channels and lock |
| `MutationRequests` | operators: how words become mutations and requested changes, and who may ask for them |
| `MutationSurfaces` | whole mutating calls over three surfaces, and what runs between their steps |
| `ReadQueries` | operators: effective filters, orders, keyset predicate and page, the v1 selection, fingerprints |
| `Cursors` | operators: what a token carries and why one is refused |
| `ItemPages` | a client that pages through a list or queue, others that change items, an operator who restores |
| `HistoryPages` | a client that pages through an item's events |
| `ResponseBudget` | `write_page` and the single-record deliveries, and a client that retries |
| `Migration` | processes of several versions that open one file |
| `Configuration` | inits and loads of configuration files |
| `ProjectResolution` | registrations, and the commands that infer a project |
| `OfflineMaintenance` | `bif maintenance` over files, with its steps apart |
| `JournalFeed` | the journal's reading side and an external follower |
| `Mutations` | `ItemLifecycle` and `MutationSurfaces` side by side |
| `Reads` | `ResponseBudget`, `ItemPages` and `HistoryPages` side by side |
| `Setup` | `Migration`, `Configuration` and `ProjectResolution` side by side |
| `StoreFiles` | `OfflineMaintenance` and `JournalFeed` side by side |
| `DomainProofs`, `MutationsProofs` | lemmas about the item rules; theorems of the item machine and of the calls |
| `LedgerProofs` | what one transaction does to a store; theorems of the ledger |
| `ReadSessionProofs` | theorems of the read session |
| `ReadsProofs` | theorems of the delivery of pages, of lists and queues, and of the pages of a history |
| `McpAdapterProofs` | theorems of the adapter |
| `SetupProofs` | theorems of opening, configuration and registration |
| `FilesProofs` | theorems of maintenance step by step and of the feed |
| `MCLedger`, `MCReadSession`, `MCMcpAdapter`, `MCMutations`, `MCReads`, `MCSetup`, `MCFiles` | instances of one module for TLC |

`Mutations`, `Reads`, `Setup` and `StoreFiles` put machines that share no state (in
`StoreFiles`, none but the count of generations drawn) into one specification. A variable
`part` is chosen at the start and says which of them moves; the others keep their initial state. The reachable states are the
disjoint union of the parts', never a product, and each property speaks of its own
part, as a theorem about the whole does: a lemma (`PartsMove` in `ReadsProofs` and
`SetupProofs`, `CallsMove` in `MutationsProofs`) says that every machine takes its own
steps or none.

In `Mutations`, `Reads` and `Setup` some values of `part` are *scenes* of one machine
(`MutationSurfaces`, `ItemPages`, `ProjectResolution`). A scene restricts what is asked for,
who asks, and which rows come to exist, so that two questions which need different inputs
are each checked with few of the other's; it is a constant of the instance, adds no behaviour, and
the theorems hold for every set of scenes.

How the modules build on each other: `Domain` is extended by `ItemLifecycle`, `Ledger`
and `MutationRequests`, so the same `apply_mutation` answers in all of them.
`Ledger` implements `ItemLifecycle`. `ReadQueries` and `Cursors` are extended by the two
paging machines. `Ledger` and `OfflineMaintenance` model maintenance at two
granularities: in one step, beside pinned writers, and step by step over files,
while writers stand still. `ReadSession` models the boundary checks around one read,
`ItemPages` and `HistoryPages` what is read, `ResponseBudget` how much of it is sent.

### How Ledger corresponds to the code

`db` is the content of the store file: a record with the journal metadata
(`generation`, `sync`, `bootstrap`, `floor`, `high`), the AUTOINCREMENT memory
(`allocated`), the journal `rows`, and the tables `projects`, `next` (counters),
`items`, `operations` (each with its events), `receipts`. `backups` is the set of
contents of backup files, `drawn` the number of generations drawn so far, `handle[w]`
the generation writer `w` pinned, and `acked` a history of the effects that were
reported.

| Action | Code |
|---|---|
| `Open(w)` | `CaptureRepository::new`, `MutationRepository::new` |
| `Capture(w, r)` | `capture_inner` without a receipt, with `insert_project_at`, the counter, `insert_capture`, the receipt and `append_change` |
| `Mutate(w, r)` | `MutationRepository::mutate` without a receipt |
| `Replay(w, key, hash)` | the receipt branch of both |
| `Activate`, `Prune`, `Backup`, `Restore` | `maintenance.rs`, each after `validate_journal` |

Abstractions, all visible in the module:

* `BEGIN IMMEDIATE` admits one writer, so a transaction is one step. A busy store, a
  rejected request, a no-op mutation and a crash before the commit leave the store
  as it was: stuttering.
* SHA-256 tells different canonical bytes apart, so a hash is the tuple of the fields
  written into those bytes, each in the form the code gives it. The encodings of
  captures and mutations cannot coincide (the byte after the first length-prefixed
  field is a presence tag in one and the top byte of a revision in the other), hence
  the tag in the tuple.
* A pinned `ReadStoreState` is reduced to the generation. A restore also advances the
  schema cookie; no other modelled operation changes the state that is compared.
* A generation is 128 random bits: each draw is new.
* `Restore` is one step, which is what the module documentation demands (readers and
  writers stopped). A handle may nevertheless survive it and be used afterwards;
  that is the case fencing exists for, and it is modelled.
* Timestamps, event and operation identifiers, titles and provenance are not told
  apart beyond `Contents` and `Attributions`.

### How ReadSession corresponds to the code

`files` holds what is in each file that is ever at the database path (a file is what
`same_file::Handle` identifies), `path` the file the path names now. `session` is the
`ReadSession`: its pinned file, the file its connection is on, the pinned
`ReadStoreState`, the latched restart reason, and its place in `ReadSession::open`.
`call` is the call it works on, `answer` the last result, `held` the version and
projection a client keeps.

| Action | Code |
|---|---|
| `Pin`, `Connect`, `Confirm`, `Load`, `Close` | `ReadSession::open` in its four looks at the world, its error paths, the end of a session |
| `Call`, `Unauthorized` | `execute`, `resolve_project`, authorization before anything is read |
| `CheckFile`, `Bind` | `check_boundary` before the read: latch and handle, then the state, whose first query opens the snapshot |
| `Read` | selection from the snapshot, commit, encoding |
| `CheckFile`, `Deliver` | `check_fresh_boundary` and the return |
| `Fail` | a busy lock or an interrupt at any place of a call |
| `Mutate`, `ChangeSchema`, `Backup`, `Restore` | what other processes do to the file: a committed mutation, a schema change, `maintenance.rs` |
| `MoveAway`, `MoveBack`, `Install` | what is done to the path |

* Each boundary check is two steps, because between looking at the path and the
  first query the world may change.
* A generation is drawn for one store, so equal generations stand for equal store ids,
  and `StateOf` needs generation and schema cookie only. Applied migrations are part of
  what `ChangeSchema` changes.
* An item is its revision and the `branch` of history its content was written in: after
  a restore the same revision may come again with other content, and this is
  what tells them apart.
* `storage::open` creates a missing file; that is `Install` followed by `Connect`.
* Requests are plain and conditional gets and project resolution. Pages, histories
  and selected work take the same path through the session; their content is in
  `ItemPages` and `HistoryPages`.
* Left out: sizes and encoding errors, malformed versions, and I/O errors other than a
  busy lock or an interrupt. The code turns such an error within a boundary check
  into a restart; `RestartHasCause` makes no claim about it.
* Assumed: no file comes back to the path while a session opens. Comparing handles
  before and after connecting cannot notice a file that was away and came back.
* `told`, `moved`, `seen` and `latest` are history variables for the properties.

### How McpAdapter corresponds to the code

`calls`, `active`, `stopped` are the fields of `Control`; `wake`, `jobs` and `output`
the three channels; `reader`, `worker`, `writer`, `helper` the places of the threads.
A step is one critical section or one channel operation. `stop` after a failed
`try_send` is one step with it, and so is the mark `Queued` with the `try_send` that
follows: only the reader thread itself could see the moment between. SQLite is
external: an execution is a few statements, each of which may run for ever, and
`sqlite3_interrupt` affects only a statement that runs now. What a request asks
for is reduced to its id and to whether it is `initialize`, a valid tool call or
something that is answered at once. `answers` and `withdrawn` are history.

### How MutationSurfaces corresponds to the code

`call[c]` is one process: who calls (`Direct` for the command line, `Local` for
`bif rpc`, or what an embedding host vouches for), what it asks, how far it is, what it
has read and what it answers. `store` is the store: whether it exists, its
generation, items and receipts.

| Action | Code |
|---|---|
| `CliParse`, `RpcReceive`, `Decode` | `cli_mutation.rs`, `rpc.rs`, `rpc_mutation.rs`: words to a mutation, or the error they make |
| `Open` | configuration and store, `expose.rs`, `cli_mutation.rs` |
| `Preread` | the command line's look at the item, from which it counts the event identities it needs |
| `Admit` | `application.rs`: `authorize`, `validate_attribution`, `authorize_mutation` |
| `Transact`, `Reply` | `capture_inner` and `mutate` in one immediate transaction; the answer |
| `Busy`, `Crash`, `Initialize`, `Restore` | a lock held too long, the death of a process before or after its commit, `bif init`, an operator's restore |

* `Begin` starts a process, within what its scene allows; `Step` is every other step of one.
* Receipts are records of key and hash. That no key has two of them is a consequence
  of `Transact`, not of their shape.
* `Transact` answers `revision_limit` where the new revision would be no SQLite integer:
  the table's `CHECK (revision > 0)` refuses the row and the transaction rolls back. The
  caller sees `internal`, which the model keeps for the identities that do not fit.
* The inputs are spelled requests: 33 of them in the scene `words`, each different in one
  respect from an ordinary one. What a surface rejects is rejected in the code's order.
* Whether configuration and database can be opened is one fact, `store.ready`.
* A person is named by a text, and `AssigneeId` is `AssigneeId::new`: the identifier to
  which `normalize_identifier` brings that text (`Ana` to `ana`). A text without a letter or
  digit is `Blank` and refused. Mutations, rows and events have identifiers (`Normalized`).
* A requested change is named as the code names it: by RPC in the spelling of the
  request (`RpcChanges`, `rpc_mutation.rs:273`), on the command line as it is recorded
  (`CliChanges`, `cli_mutation.rs:162`). `<<"assign", "clear">>` means clearing as well as
  an assignee of that name. Scopes are compared with those names as text, as in the code
  (`application.rs:1235`).
* `AgentStaysInScope` therefore speaks of what an instruction allows to be recorded
  (`AllowedBy`): a change it names, or the assignment of the person whose name it gives in
  some spelling. That the list of a request has the very names it records would be false
  (section 3, findings).
* `bif rpc` processes supply eight event identities and the command line as many as its
  pre-read counted; `mutate` refuses any other number than it needs.

### How ItemPages and HistoryPages correspond to the code

`ReadQueries` has the normalized query (`EffectiveItemFilters`), the two sort
specifications, the comparator, the keyset predicate term by term with what SQLite
cannot bind (`page_query`), and beside them v1's raw predicates, comparator and offset
pages. `Cursors` has an envelope, what `decode` refuses in which order, and what `bind`
compares. `db` is the table with store and generation, `scan` what a client holds
while it pages, `last` the last answer.

| Action | Code |
|---|---|
| `FirstPage`, `NextPage` | a list, queue or history read in one snapshot, its cursor decoded and bound, cut after any non-empty prefix that might fit |
| `StrangePage`, `ListPage` | tokens that do not decode, or were made for another kind of read |
| `Capture`, `Transition`, `Triage`, `AppendEvents` | what writers do to coordinates, filters and histories; the clock may go back |
| `Backup`, `Restore` | another store, or an earlier history under a new generation |

A page is one step since it is read from one snapshot; what happens between that
snapshot and the delivery is `ReadSession`. A cursor's hexadecimal JSON is a token
that decodes to an envelope or does not. Text search is a set of folded needles an
item contains.

### How ResponseBudget corresponds to the code

`pc`, `index` and `candidates` are the place and the locals of `write_page`: `BeginPage`
checks the page, `Count` adds records while the least response with them can fit,
`Try` goes down from the longest counted prefix with the cursor that would follow it.
A page is the sizes its code computes: the bytes of the envelope with the first k
records, and the bytes of the cursor after the k-th or that there is none. `Retry` is a
client that asks again with the `minimum_required_bytes` it was told.

### How Migration, Configuration and ProjectResolution correspond to the code

*Migration.* `store` is the committed file, `work` the transaction of the process that
holds `lock`, `step[p]` the place of each process in `open_with_flags` and `migrate_all`:
`Begin`, `Preflight` over the whole recorded history, then `Create`, `Initialize` and
`Record` for each pending version, and `Commit` after the metadata check. `Fail` and
`Crash` may come at every place, `Busy` while another holds the lock. Programs
of different versions embed different prefixes of the migrations. What the SQL of a
migration creates is its version.

*Configuration.* `file[f]` is what reading a configuration file gives: no file, an empty
one, or the text of one init followed, where that text is shorter than what was there, by
the end of a longer one, which `parse_file` refuses unless it is an empty line. An init
leaves a file with its text alone (`Keep`), or empties it (`Truncate`) and writes from its
beginning (`Write`), then makes the store; it may die or fail (`InitFails`: a directory that cannot be made, a
file that cannot be written) after any of these, and what was written stays. `LoadConfig`
takes option, environment and file in the code's precedence.

*ProjectResolution.* `registry` holds registered paths, remotes and known projects.
Commands that infer a project read paths and remotes in two statements (`ReadPaths`,
`ReadRemotes`), a read session in one snapshot (`ReadSnapshot`), and captures write in a
transaction of their own. `Resolve` has the four tiers: nearest registered path,
hosted remotes, local remotes, the directory's name. Directories, links and
checkouts are constants: they stand still during a run.

### How OfflineMaintenance and JournalFeed correspond to the code

*OfflineMaintenance.* `files` says what each path names: no file, an older file, an
output that was claimed and not completed, or a store, with its trail of effects and its
generation. `op` is the command that runs, with what it staged. `Check`, `Stage`, `Draw`,
`Claim`, `Copy`, `Publish`, `Verify`, `Reply` are the steps of backup and restore in
`maintenance.rs`, `Transact` the one transaction of activate and prune. `Fail` is an
error at any of them, also of the checks and the `sync_all` that follow a whole copy, and
`Die` the end of the process; neither takes back a step that was done. The operator may name paths that collide, also a sidecar of the store,
and then tries again with what the files show. Writers commit only outside of a
maintenance window, which is the documented prerequisite.

*JournalFeed.* `Begin` opens a read snapshot, `Fetch` is `require_sync` and `select_range`
(limit plus one row, ordered, between two positions), `FetchRefused` its errors.
`src/` contains no follower. The one here is external: it does what the comments of
`journal.rs` and `docs/bif-v2-migration-plan.md` tell one to do, namely to bootstrap when
coverage expired or the generation changed, to keep one high water mark per scan,
and to make a position durable after its rows are applied.

## 3. The runs

| Run | Shows | Bounds |
|---|---|---|
| `mutations` | one item's history and state agree and finished items are frozen; over all surfaces words mean one mutation, agents keep to their scope, a key has one effect, and the command line's pre-read is never wrong by itself | item: every lifecycle step alone and with triage, every triage field, blank and empty requests, revisions up to 7, so that `block`/`resume` repeat and notes follow a terminal state. Surfaces: two processes with 33 spelled requests, names in several spellings among them; two with 7 requests and 8 hosts; three whose requests meet in keys and revisions, with one restore; 565,786 states |
| `ledger` | audit, journal, receipts, counters, replay identity; the watched item implements `ItemLifecycle` | two requesters, five keys, five mutations, one writer (transactions are serialized, more handles of one generation add nothing), `MaxI64` = 4 so that counters, revisions and the journal reach their limit; prune and activate; 5,364 states |
| `restore` | fencing, one history per generation, acknowledged effects survive | two writers with independent pins, three generations (two restores), three backups, journal limit 2; 333,844 states |
| `session` | an answer is from the file and generation that were still there after the read; `not_modified` is exact; reports do not go back; restarts have a cause | one file with three generations, two schemas, two projections and items of two revisions, or two files with three generations and one of each; 1,264,268 states |
| `adapter` | registry bookkeeping, interrupts, answers | three ids over a registry of two, channels of capacity one, two statements per call, five frames; 329,910 states |
| `adapter_live` | stops take effect, calls settle | two ids, one statement, four frames; 175,784 states |
| `reads` | scans keep their promise, cursors are honoured in scope only, keyset pages are v1's, histories are gapless and end at the end; pages are cut at the longest prefix that fits and minimums are kept | pages of up to four records with sizes and cursors larger and smaller than each other, all budgets around them; 14 spellings of queries, two stores, two generations; scans over up to four items with two changes between pages, of which one that is added is old and one new; two items of two revisions with two events each; 135,611 states |
| `setup` | what is committed is whole, what was opened is current; commands load one init's configuration; registrations collide loudly, captures heed them, sessions infer from one moment | three processes of two program versions, three migrations, twelve starting stores, two faults; three inits or loads of two files with texts of three lengths; three registrations or inferences over four directories, two remotes and seven targets; 658,571 states |
| `files` | nothing acknowledged is lost and a verified restore is exact, whatever fails between two steps; a follower of the feed is exact and catches up | four paths of which two collide, three generations, two effects; two items, two journal positions, one restore, one death of the follower, pages of one row; 452,788 states |
| `rpc_mutations` | violation, see below | the instance of `mutations` |
| `clear_hash` | violation, see below | an assignee named `clear` |
| `capture_replay` | violation, see below | one item, one mutation |

**Why the bounds are enough.** They are chosen so that each case of the code occurs,
which was confirmed by TLC's coverage: every action fires, and every property is
violated when the definition it is about is changed as a plausible mistake would
(the mutants in `PROJECT.json`, one per property). The capacities of the adapter (8 and
32) are constants of the module; at 1 and 2 every full-queue branch is reached within
the frame bound (two frames complete the initialization, three calls fill the queues).
`MaxI64` stands for the largest SQLite integer, so exhaustion happens within the bound
instead of never. Two restores are needed for a generation to be compared with one
that is neither the current nor the last. Three processes are needed where a
third overtakes two that met. Keys, writers, processes and ids are symmetric; the
runs with liveness use no symmetry. Runs without a deadlock check are of systems that
stop: an item at the last revision, processes that each made their one call, an
adapter whose process ended.

**Fairness.** `McpAdapter`: each thread is scheduled when it can run (weak fairness per
thread). Nothing is assumed of the client, of the end of a statement or of stdout: those
steps are outside the fair groups. `StopsTakeEffect` holds under that alone.
`EveryCallSettles` states as its hypothesis what it needs besides: statements end and
stdout accepts. The feed in `StoreFiles`: a follower that lives goes on (weak fairness of its
own steps); its deaths are finitely many, as are the changes it follows, and nothing is
asked of writers or the operator.

**Findings.**

* `rpc_mutations`: the identities of `bif rpc` always come with eight event identities
  (`expose.rs:295`), and the store refuses a mutation whose identities are not as many
  as its events, of which there are at most four (`storage.rs:1080`). Each
  effective mutation through `bif rpc` ends as `internal` and changes nothing,
  against `README.md:315`. A host that supplies the right number is not concerned:
  `mutations` has such hosts.
* `clear_hash`: `assignee_field` (`application.rs:937`) writes `clear` both for an
  explicit clear and for an assignee called `clear`, so under one key a changed
  payload is answered as a replay, against `docs/bif-v1-plan.md:275`. The run `ledger`
  shows that no other pair of requests collides when no assignee has that name.
* `capture_replay`: a capture replay rebuilds the item as captured
  (`storage.rs:601-626`), whereas `docs/bif-v1-plan.md:275` promises the current
  item. `docs/bif-v2-migration-plan.md:226` describes the behaviour as it is.

Met on the way, and modelled as the code has it, without a run of their own: a
`prioritize` or `assign` through RPC accepts an `action` it does not execute and yet
lists it among the changes an instruction must name (`rpc_mutation.rs:264`,
`application.rs:75`); an RPC request lists an assignee as it is spelled
(`rpc_mutation.rs:274`) and records it normalized (`:356`, `domain.rs:25-52`), although the
list is to hold "Every atomic change the operation will perform" (`application.rs:75`), so an
instruction for `assign:ana` refuses a request for `Ana`, which would do exactly that, and one
for `assign:Ana` lets an event assign `ana`, while the command line lists the normalized name
(`cli_mutation.rs:162`); of two `.git` suffixes a remote loses one when it is registered
and another when it is read back, so the two differ (`config.rs:432`); a `BIF_CONFIG`
that is not UTF-8 names the file `bif init` writes (`cli.rs:646`), while commands that load
a configuration take it for unset (`config.rs:606`).

## 4. The proofs

Everything in the `*Proofs` modules is checked by TLAPS for all values of the
constants that satisfy the named assumptions (`DomainAssumption`,
`MutationsAssumption`, `LedgerAssumption`, `ReadSessionAssumption`, `NoneAssumption`,
`BudgetAssumption`, `AdapterAssumption`, `CallsAssumption`, `FilesAssumption`,
`SetupAssumption`, `ReadsAssumption`, the last four with the assumptions of their
machines); TLC evaluates those assumptions in every run. The assumptions say that `None` is
none of the values it stands in for, that there is a largest integer above one, that
inputs have their type, and that bounds are natural numbers. Key sets and backup sets are
finite only where a cardinality needs it, and that is derived.

Some of them say more of the inputs, and the code or the instance justifies it:

* no lowercase spelling of a priority is another priority (`P0` and `p0`), and an
  assignee's identifier is its own normal form; `clear` and `none` are such identifiers
  (`RequestsAssumption`);
* the items of a requester and project have the sequences 1, 2, ... without a gap in the
  database and its backups (`IsTable` of `ItemPages`): counters draw them in order and
  nothing deletes an item;
* an owner, a project or `unassigned` in a filter leaves something out
  (`LeavesOut`). With one project only, a query that names it and one that does not ask for
  the same rows under two fingerprints, and that a cursor of the one is refused for the other
  is not what the property means to exclude;
* no table has more rows than SQLite has row numbers.

Some theorems need more, and say so in their statement. Each of these hypotheses is a
definition that TLC evaluates on the instance of the run that checks the same property, as
an `ASSUME` of the MC module.

* `NamesApart` (`NothingIsLost`): no two files but the store and its sidecars collide.
  The tool compares the paths it is given, not the files beside them.
* `HashedApart` (`AnsweredForThemselves`): the values the code hashes for fields are
  apart, in particular nobody is called `clear`. The run `clear_hash` is the instance without.
* `HistoriesAreTrue` (`WhatIsCommittedIsWhole`): a recorded history that is accepted
  tells which tables are there. The preflight compares records, not tables.
* `NamesAreRead` (`LoadsAreOneInits`): a variable that names a configuration file is
  UTF-8; otherwise `init` and a load go by different files, as noted above.
* `ItemsLiveTheirLifecycle` is about behaviours without a restore: a restore takes
  an item back, which no step of `ItemLifecycle` does.

*Item machine.* The inductive invariant adds to the types that the reason agrees with
the status and that every trail entry records a revision in range; `Domain` lemmas
give type, status, reason and revision of a mutated item once and for all, and
`TerminalAcceptsNotesOnly` shows that an accepted mutation of a finished item can only
add a note. That the trail alone tells the item (`TrailTells`) is inductive because each
operation's events either touch a field and leave its new value, or do not touch it and
the field stays (`Leaves`, shown for every compound mutation by `EventsTell`); which entry
is the last to touch a field is found without recursion, as the one after which none does.

*Ledger.* The argument has three layers.

1. The first part of `LedgerProofs` says in one predicate, `Commit`, what any effective
   transaction does to a store: one new operation with the next revision of its item, one new
   receipt under a free key, one journal row at the next position, counters that stay
   ahead. `CapturedCommits` and `MutatedCommits` show that both transactions are
   commits.
2. `StoreInv` collects what holds of each store by itself (complete audit, journal
   coverage, counts, counters). `CommitInvariant`, `FlagsInvariant`,
   `PrunedInvariant` and `EmptyStoreInvariant` show that commits, activations, restores,
   prunes and the empty store keep it. It needs its parts together: the journal is
   free of duplicates only because operations are unique per revision, and counts
   agree only because positions and keys are used once.
3. The second part adds what relates stores: two stores of one generation continue one
   another, the current store is the later one of its generation, no backup has a
   generation that was not drawn, and each acknowledged effect is in a store of the
   pinned generation. Without the clause about the current store, histories could fork
   at the next commit and `GenerationNamesOneHistory` would not be inductive.

Two results come on top. `AllAnswer` says of every store and backup that a receipt
answers only the request it was made for, which needs that hashes tell requests apart.
`ItemsLiveTheirLifecycle` is the refinement step by step: under the mapping from a
store's row and operations to item and trail, a capture and a mutation are those of
`ItemLifecycle`, and opening, activation, pruning, backup and replay are stutters.

*Read session.* The inductive invariant `IInv` joins seven facts to the types. A
generation is in at most one file and was drawn (`StoreInv`). A reason is latched
exactly when a restart was told, and then file or state did differ (`RestartInv`). An
open session is connected to the file it pinned (`PinInv`), which is where the
assumption about `MoveBack` is used. A file of the generation of a call's snapshot only
continues that snapshot (`SnapshotInv`). What was reported is not ahead of the snapshot,
nor of the store while it has the pinned generation (`ReportInv`). What the client
holds is what any store of its generation had at that revision (`CopyInv`), and the
version a call offers is still that of the copy (`OfferInv`). `CopyInv` is the heart of
`NotModifiedIsExact`: a version names one content for ever only because a restore draws
a new generation before it takes revisions back.

*Response budget.* The loops of `write_page` count up and try down, and neither
direction is monotonic. The invariant says for each place what was ruled out when it is
reached: no prefix longer than `index` can be sent while trying (`Trying`), the
counted prefixes are consecutive (`Counting`), and a minimum that was told is more
than the budget and enough for a record (`Told`, `Kept`). That counting may stop at the
first record whose least response is too large is the lemma `NoLongerFits`: from there on
no longer prefix fits, with or without a cursor.

*Pages of a history.* What was sent so far is an initial part of the item's history
(`Joined`), and the cursor names the last event of it. This is inductive because
appended events follow all there were, which needs that the revisions of a history are
consecutive (`IsHistory`); because a page is an initial part of what is left
(`FirstOnes`: the events with fewer than n before them), also when the budget cuts it; and
because a cursor that is honoured has the generation and the item of its scan
(`HonouredContinues`), so that a restore only leads to refusals. That a set of events has
a first one, which a page that is not empty needs, is `FirstEvent`, from the least of a
set of numbers.

*Pages of lists and queues.* Items move between pages, so the argument is about the rows
that did not (`steady`): each was sent, or lies beyond the cursor (`Ahead`); and in the
newest-first order, whose keys never change, nothing that was sent is beyond the cursor
(`Behind`), so nothing is sent twice. A page keeps both because what it sends is an initial
part of what lies beyond the cursor (`PageEnds`), which needs that the comparator is a strict
total order on keys (`StrictOrder`). `Bound` says that a cursor carries store, generation and
query of its scan; so a cursor that is honoured has a request that asks for the same rows,
as equal fingerprints do (`FingerprintsTell`, from `AsStrict`: where two effective filters
differ, some row tells them apart), and `AnswerInv` keeps it for the last answer. That
keyset pages are those of v1 is a fact about every table: the keyset predicate, term by term
as SQL has it, is the lexicographic order (`CoordinateByCoordinate`,
`PrecedesIsLexicographic`), and v1's offset is a row's rank in it, the number of rows
before, which by `EveryPlaceIsTaken` names one row for each offset.

*Mutating calls.* `SurfacesInv` says of each call what it knows at each place: the
mutation and the changes it holds are those its surface makes of its words
(`Understood`), it was authorized for these changes before it touches the store, and the
events it caused are among those they allow (`Allowed`, by `EventsAreNamed` and
`ChangesAreListed`; a listed name is recorded as its identifier, `NamesAreRecorded`). The
key of an effect is in the receipts of its generation (`Receipted`), so a second effect
under it is refused and `KeysApart` is inductive. A command line's count is that of the item
at the revision that was asked for, as long as the store is of the generation it read
(`Counted`): an item of one generation and revision has one content (`Grows`). That its
pre-read refuses rightly needs that it cannot refuse what would be a replay: a receipt
of a mutation is younger than the revision it was asked for (`StoreInv`).

*Adapter.* A registered request has one place (`HeldApart`, `Kept`), which tells its stage
(`Staged`); the registry's active call is the one the worker executes, and SQLite aborts only
for one that was cancelled or a stop (`Activity`); and an id that was answered is in the
writer's hand until it leaves the registry (`Told`). Each step of a thread moves at
most one request, so each is shown to keep these facts by what happens to that one id. The
count of places in `CallsAreHeldOnce` follows in `PlacesCounted`.

*Maintenance.* `PhaseInv` says for each phase of a restore what is known of the files then:
that the source is still what was staged, that the output is claimed or preserves the store,
that the generation drawn is newer than any file's. With `Generations` it gives
`VerifiedRestoreIsExact`. `NothingLost` is inductive by itself given these facts: every step
leaves the effects it found in a file, and a published store is overwritten only after its
preservation.

*Feed.* `Journaled` says that a store's rows explain its revisions, `Earlier` that a
snapshot is a state the store was in. `FollowerInv` relates the follower to the store
whose generation it has: it knows what is journaled up to `covered`, and where it is
behind there is a row past `covered`; `PageInv` says that a page in hand is the lower part
of what its scan has left. Prunes keep this since they raise the floor above what they
remove, and coverage below the floor is refused; a restore has another generation.

*Opening.* Who holds the lock works on what was committed, and accepted what its program
embeds (`Held`); the working copy at each step of a migration is a whole store with the
tables of the version in work or not, its row not yet recorded (`Built`).

*Configuration.* A file is empty or begins with the whole text of one init (`TextInv`); a
command that wrote or was answered knew where and what (`GoalInv`); an init that met no
other finds its text as it left it (`AloneInv`), since texts are followed by the end of a
longer one only if another init wrote that.

*Registration.* A registry only grows: what is registered stays as it is (`Grew`). `CallInv`
says of every call that what it saw at its beginning, what it read and what there is now
are related by growth, in this order, and that an answer is what was inferred from what was
read; a session's answer is one of those some registry of its time gave (`seen`).

| Theorem | Property |
|---|---|
| `ItemTypes`, `ReasonOnRecord`, `TerminalItemsFrozen` | `TypeOK`, `ReasonWhileStopped`, `TerminalFrozen` of the item machine |
| `StoreTypes`, `AuditKept`, `JournalCovered`, `EffectsOnce`, `SequencesFree`, `MaintenanceAccepted` | `TypeOK`, `AuditIsComplete`, `JournalHasNoGaps`, `EffectsCountedOnce`, `SequencesNeverCollide`, `MaintenanceNeverRefused` of every store and backup of the ledger |
| `OneHistory`, `AcknowledgedKept`, `Growing` | `GenerationNamesOneHistory`, `AcknowledgedSurvives`, `GrowsWithinGeneration` |
| `SessionTypes`, `RestartIsFinal`, `RestartIsCaused` | `TypeOK`, `NoDataAfterRestart`, `RestartHasCause` of the session |
| `DeliveredFromCurrent`, `ReportsForward`, `NotModifiedTrue` | `DeliveredIsCurrent`, `ReportsNeverGoBack`, `NotModifiedIsExact` |
| `DeliveryTypes`, `LongestPrefix`, `WithinBudget`, `MinimumKept` | `TypeOK`, `LongestPrefixSent`, `SentWithinBudget`, `MinimumIsEnough` |
| `HistoryPagesJoin`, `HistoryScansEndAtTheEnd` | `HistoryIsGapless`, `EndsAtTheEnd` |
| `ScansKeepTheirPromise`, `CursorsAreHonouredInScope`, `KeysetPagesAreV1s` | `ScanKeepsItsPromise`, `CursorIsHonouredInScope`, `PagesAreAsInV1` |
| `TrailTellsTheItem` | `TrailReconstructsItem` |
| `AgentsStayInScope`, `KeysActOnce`, `SurfacesUnderstandAlike` | `AgentStaysInScope`, `OneEffectPerKey`, `SurfacesAgree` |
| `CountsFit`, `PrereadsRefuseRightly` | `CountFitsUnlessOvertaken`, `PrereadRefusesRightly` |
| `AnsweredForThemselves`, `ItemsLiveTheirLifecycle` | `ReplayIsSameRequest`, `ItemLivesItsLifecycle` |
| `RequestsAreHeldOnce`, `InterruptsHitTheirTarget`, `AnswersAreSingle` | `CallsAreHeldOnce`, `InterruptHitsItsTarget`, `AnsweredOnceUnlessWithdrawn` |
| `FollowerStaysExact`, `VerifiedRestoresAreExact`, `NothingIsLost` | `FollowerIsExact`, `VerifiedRestoreIsExact`, `NothingLost` |
| `WhatIsCommittedIsWhole`, `OpenedStoresAreCurrent` | `CommittedIsWhole`, `OpenedIsCurrent` |
| `LoadsAreOneInits` | `CommandsLoadOneInit` |
| `OneRegistrantWins`, `RegistrationsDecideCaptures`, `SessionsReadOneMoment` | `OneRegistrantIsAccepted`, `CapturesHeedRegistrations`, `SessionsInferOneMoment` |

Proved and not repeated in a run: the type invariants, `ReasonWhileStopped`,
`SequencesNeverCollide`, `MaintenanceNeverRefused`, `GrowsWithinGeneration`,
`NoDataAfterRestart` and `SentWithinBudget`. For these a theorem says more than a
small instance would.

Only model-checked is liveness (`StopsTakeEffect`, `EveryCallSettles`, `CatchesUp`), which,
like `ENABLED`, is beyond the prover. Every invariant and action property of a passing run
is a theorem.

Induction over data is out of reach as well, since none of the provers can instantiate a
library theorem about an arbitrary predicate. Where a proof needs a little of it, a
least number does: the theorem that a non-empty set of numbers has a least element takes
a set, not a predicate.

## 5. Limits, and the plan

Not modelled, and why:

* *MCP tool decoding and strict JSON*: pure parsing; a tool call is valid or not.
* *The v1 and v2 read commands of command line and RPC*: one read per process, without
  state; what they read is in `ItemPages`, `HistoryPages` and `ReadSession`.
* *The library's `list_items`* (`storage.rs:437`), which reads matching items one by
  one and serves library callers only.
* *The benchmark programs*: measurement, outside the product.

Known limits of what is modelled:

* `MutationSurfaces` has one fact for a configuration and a database that can be opened.
* `ProjectResolution` keeps directories and checkouts still; a command that infers a
  project may combine two moments of the registry, which is why
  `CapturesHeedRegistrations` speaks of what was there when the capture began, and
  only sessions infer from one moment.
* `Migration` opens the file anew for each program; an older writer that has the store
  open while a newer one migrates it (`storage.rs:1842`) is not followed further.
* `OfflineMaintenance` assumes the documented prerequisite, `Ledger` shows what
  fencing does for a writer that survives a restore all the same.
* In the run `files` the journal has two positions, so no writer appends between
  two pages of one scan. With three positions the state space is about four times as large
  and takes longer than a run should; `FollowerStaysExact` covers it for any number, the
  liveness `CatchesUp` is checked at two only.
* `Configuration` writes a text in one piece after the file was emptied; a write that stops
  after some of its bytes is not told apart from one that wrote none.
* The follower of `JournalFeed` is external: what is shown is about the reading
  interface, under a client that keeps the rules written for it.

Theorems left: none about the safety of what the runs check. The `item` part of
`Mutations` is proved for `Spec` of `ItemLifecycle`, which is the more general machine: in
`Mutations` it moves as `Spec` says or stands still.
