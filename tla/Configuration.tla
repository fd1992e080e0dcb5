----------------------------- MODULE Configuration -----------------------------
(***************************************************************************)
(* The configuration file (config.rs) and `bif init`, which writes it in   *)
(* place (cli.rs, initialize): other processes load it, other inits write  *)
(* it and processes die between any two of the steps.                      *)
(***************************************************************************)
EXTENDS Naturals, FiniteSets

CONSTANTS
    None, Missing,
    Roots,          \* canonical store roots
    Places,         \* typed roots: a function to Roots or Missing
    Requesters,     \* canonical requester identifiers
    Files, OsFile,  \* configuration files; the one of the system, or None
    Length,         \* bytes of the text an init writes, per root and requester
    Environments,   \* what processes find in their environment, a subset of Environment
    Calls,
    Jobs            \* the commands users give, a subset of Job

VARIABLES
    file,       \* per configuration file: what reading it gives
    stores,     \* roots that hold a store
    call        \* per process, the command it runs

vars == <<file, stores, call>>

Pair == [root : Roots, requester : Requesters]

\* A file is missing, empty, or has the text of one init and, up to its size,
\* the end of a longer one: an empty line, or a tail with that init's requester.
Text == [pair : Pair, size : Nat, tail : {None} \cup Requesters]
\* Variables of the environment: a file name may not be UTF-8.
Environment ==
    [config : {None} \cup [file : Files, utf8 : BOOLEAN],
     root : DOMAIN Places \cup {None}, requester : Requesters \cup {None}]

Job ==
    [op : {"init"}, config : Files \cup {None}, root : DOMAIN Places,
     requester : Requesters \cup {None}, env : Environments]
    \cup [op : {"load"}, config : Files \cup {None}, root : DOMAIN Places \cup {None},
          requester : Requesters \cup {None}, env : Environments]

ConfigurationAssumption ==
    /\ None \notin Roots \cup Requesters \cup Files \cup DOMAIN Places
    /\ None \notin {Missing, "ok"} \cup Text \cup Jobs
    /\ Missing \notin Roots \cup Pair \cup Text
    /\ \A p \in DOMAIN Places : Places[p] \in Roots \cup {Missing}
    /\ \A r \in Roots \cap DOMAIN Places : Places[r] = r
    /\ OsFile \in Files \cup {None}
    /\ Length \in [Pair -> Nat]
    /\ Environments \subseteq Environment
    /\ Jobs \subseteq Job

FirstOf(a, b) == IF a # None THEN a ELSE b

-----------------------------------------------------------------------------
(* Loading. *)

\* parse_file: a second line of a key, or half a line, is refused.
Parse(content) ==
    IF content = None THEN [root |-> None, requester |-> None]
    ELSE IF content.tail # None THEN Missing
    ELSE content.pair

\* env::var gives nothing for a value that is not UTF-8.
Variable(env) == IF env.config # None /\ env.config.utf8 THEN env.config.file ELSE None

Selected(option, env) == FirstOf(FirstOf(option, Variable(env)), OsFile)

Ok(pair) == [code |-> "ok", pair |-> pair]
Failed(code) == [code |-> code, pair |-> None]

\* What load_with_environment and store_paths make of the files `f`: a
\* configuration, or why not.
Load(j, f) ==
    LET path == Selected(j.config, j.env)
        explicit == FirstOf(j.config, Variable(j.env)) # None
        absent == path = None \/ f[path] = Missing
        values == Parse(IF absent THEN None ELSE f[path])
        root == FirstOf(FirstOf(j.root, j.env.root), values.root)
        requester == FirstOf(FirstOf(j.requester, j.env.requester), values.requester)
    IN  IF explicit /\ absent THEN Failed("unreadable")
        ELSE IF values = Missing THEN Failed("invalid_file")
        ELSE IF root = None \/ requester = None THEN Failed("not_initialized")
        ELSE IF root \notin DOMAIN Places THEN Ok([root |-> root, requester |-> requester])
        ELSE IF Places[root] = Missing THEN Failed("invalid_root")
        ELSE Ok([root |-> Places[root], requester |-> requester])

-----------------------------------------------------------------------------
(* The processes. *)

Idle == [phase |-> "idle", job |-> None, answer |-> Failed(None), alone |-> FALSE]

Writing(c) == call[c].phase \in {"begun", "truncated", "written"} /\ call[c].job.op = "init"

\* `alone` says that no other init ran since this one began.
Begin(c, j) ==
    /\ call[c].phase = "idle"
    /\ call' = [d \in Calls |->
          IF d = c THEN [phase |-> "begun", job |-> j, answer |-> Failed(None),
                         alone |-> \A e \in Calls : ~Writing(e)]
          ELSE IF j.op = "init" THEN [call[d] EXCEPT !.alone = FALSE]
          ELSE call[d]]
    /\ UNCHANGED <<file, stores>>

Enter(c, phase) == call' = [call EXCEPT ![c].phase = phase]

Reply(c, answer) ==
    call' = [call EXCEPT ![c].phase = "replying", ![c].answer = answer]

\* selected_config_path: env::var_os takes any value.
Target(j) == FirstOf(FirstOf(j.config, IF j.env.config = None THEN None ELSE j.env.config.file),
                     OsFile)

TextOf(pair) == [pair |-> pair, size |-> Length[pair], tail |-> None]

Intended(j) == [root |-> Places[j.root], requester |-> j.requester]

Intends(c) == call[c].phase = "begun" /\ call[c].job.op = "init"

InitRefused(c) ==
    /\ Intends(c)
    /\ \/ Places[call[c].job.root] = Missing
       \/ call[c].job.requester = None
       \/ Target(call[c].job) = None
    /\ Reply(c, Failed("refused"))
    /\ UNCHANGED <<file, stores>>

Writable(c) ==
    /\ Intends(c)
    /\ Places[call[c].job.root] # Missing /\ call[c].job.requester # None
    /\ Target(call[c].job) # None

\* Mutant: a file that is there is kept.
KeepExisting(c) ==
    /\ Writable(c)
    /\ file[Target(call[c].job)] # Missing
    /\ Enter(c, "written")
    /\ UNCHANGED <<file, stores>>

\* A file that already holds the text is left alone.
Keep(c) ==
    /\ Writable(c)
    /\ file[Target(call[c].job)] = TextOf(Intended(call[c].job))
    /\ Enter(c, "written")
    /\ UNCHANGED <<file, stores>>

\* fs::write: the file is emptied, then written from its beginning.
Truncate(c) ==
    /\ Writable(c)
    /\ file[Target(call[c].job)] # TextOf(Intended(call[c].job))
    /\ file' = [file EXCEPT ![Target(call[c].job)] = None]
    /\ Enter(c, "truncated")
    /\ UNCHANGED stores

\* A text over an old one; one that is longer by a byte leaves an empty line.
Over(old, pair) ==
    IF old \in {None, Missing} \/ (old # None /\ old.size <= Length[pair]) THEN TextOf(pair)
    ELSE [pair |-> pair, size |-> old.size,
          tail |-> IF old.size = Length[pair] + 1 THEN None
                   ELSE FirstOf(old.tail, old.pair.requester)]

Write(c) ==
    /\ call[c].phase = "truncated"
    /\ file' = [file EXCEPT ![Target(call[c].job)] = Over(@, Intended(call[c].job))]
    /\ Enter(c, "written")
    /\ UNCHANGED stores

\* The store's directory and the store.
MakeStore(c) ==
    /\ call[c].phase = "written"
    /\ stores' = stores \cup {Places[call[c].job.root]}
    /\ Reply(c, Ok(Intended(call[c].job)))
    /\ UNCHANGED file

\* No directory can be made, a file cannot be written or the store not opened:
\* what was done by then stays.
InitFails(c) ==
    /\ Writable(c) \/ call[c].phase \in {"truncated", "written"}
    /\ Reply(c, Failed("io"))
    /\ UNCHANGED <<file, stores>>

\* load, store_paths, and opening: there must be a directory for the store.
LoadConfig(c) ==
    /\ call[c].phase = "begun" /\ call[c].job.op = "load"
    /\ LET config == Load(call[c].job, file)
       IN  Reply(c, IF config.code = "ok" /\ config.pair.root \notin stores
                    THEN Failed("no_store") ELSE config)
    /\ UNCHANGED <<file, stores>>

Report(c) == call[c].phase = "replying" /\ Enter(c, "answered") /\ UNCHANGED <<file, stores>>

Die(c) ==
    /\ call[c].phase \notin {"idle", "answered", "dead"}
    /\ Enter(c, "dead")
    /\ UNCHANGED <<file, stores>>

Init ==
    /\ file = [f \in Files |-> Missing]
    /\ stores = {}
    /\ call = [c \in Calls |-> Idle]

Next ==
    \E c \in Calls :
      \/ \E j \in Jobs : Begin(c, j)
      \/ InitRefused(c) \/ Keep(c) \/ Truncate(c) \/ Write(c) \/ MakeStore(c)
      \/ InitFails(c) \/ LoadConfig(c) \/ Report(c) \/ Die(c)

Spec == Init /\ [][Next]_vars

-----------------------------------------------------------------------------
(* Properties. *)

(* What was given to some init. *)
Given == {Intended(call[c].job) : c \in {d \in Calls : call[d].job # None /\ call[d].job.op = "init"
                                                      /\ Places[call[d].job.root] # Missing}}

(* A command that has nothing but a file to go by uses the root and the      *)
(* requester of one init, never the root of one and the requester of        *)
(* another, however the writes of inits fall and whoever dies.  And when an *)
(* init answers that no other one met, it has taken effect, whatever dead   *)
(* or colliding inits left in the file: such a command gets what it gave.   *)
CommandsLoadOneInit ==
    \A c \in Calls :
        LET j == call[c].job
            Bare == j.root = None /\ j.requester = None /\ j.env.root = None /\ j.env.requester = None
            Loading == [op |-> "load", config |-> j.config, root |-> None, requester |-> None,
                        env |-> [j.env EXCEPT !.root = None, !.requester = None]]
        IN  call[c].answer.code = "ok" =>
            /\ j.op = "load" /\ Bare => call[c].answer.pair \in Given
            /\ j.op = "init" /\ call[c].alone =>
                  Load(Loading, file) = call[c].answer /\ call[c].answer.pair.root \in stores
=============================================================================
