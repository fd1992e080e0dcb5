--------------------------- MODULE ProjectResolution ---------------------------
(***************************************************************************)
(* Which project a directory belongs to (config.rs), from the paths and    *)
(* remotes registered in the store (storage.rs, ProjectRepository), and    *)
(* the processes that register, capture, list and read by it (cli.rs,      *)
(* cli_read.rs, read_session.rs).  Directories, links and checkouts stand  *)
(* still; registrations come at any time between the steps of a process.   *)
(***************************************************************************)
EXTENDS Naturals, FiniteSets

CONSTANTS
    None, Missing, Unresolved,
    Projects,       \* canonical project identifiers
    Dirs, Parent,   \* canonical directories; the parent of each, or None
    Names,          \* the project a directory's own name gives, or None
    Canonical,      \* typed paths to directories, or Missing
    Repo,           \* the root of the checkout around a directory, or None
    Remotes,        \* remotes of the checkout at a root
    Targets,        \* remote targets, registered or found in a checkout
    Keys,           \* idempotency keys of captures
    Calls,          \* processes, one command each
    Jobs            \* the commands users give, a subset of Job

VARIABLES
    registry,       \* registered paths and remotes, known projects
    filed,          \* items by key and project
    call            \* per process, the command it runs

vars == <<registry, filed, call>>

-----------------------------------------------------------------------------
(* Remotes. *)

\* `gits` counts the `.git` suffixes a target ends with.
Target == [form : {"url", "scp", "file", "path", "drive", "bare"}, host : STRING,
           path : STRING, gits : Nat, dir : Dirs \cup {Missing}]

\* normalize_remote_identity takes one suffix away.
Identity(t) ==
    IF t.form \in {"url", "scp"} /\ t.host # "" /\ t.path # ""
    THEN [host |-> t.host, path |-> t.path, gits |-> IF t.gits > 1 THEN t.gits - 1 ELSE 0]
    ELSE None

Identities == {Identity(t) : t \in Targets} \ {None}

\* A stored identity is read back as the url it would be.
Readable(id) ==
    Identity([form |-> "url", host |-> id.host, path |-> id.path, gits |-> id.gits,
              dir |-> Missing]) = id

\* local_remote_path: None unless the target is a file url or an absolute or
\* dotted path; such a path may lead nowhere.
LocalDir(t) == IF t.form \in {"file", "path"} THEN t.dir ELSE None

-----------------------------------------------------------------------------
(* Resolution. *)

\* A set of directories that has the parent of each.
Upward(S) == \A d \in S : Parent[d] # None => Parent[d] \in S

\* A directory and its ancestors, which are as many as its path has components.
Above == [d \in Dirs |-> {a \in Dirs : \A S \in SUBSET Dirs : d \in S /\ Upward(S) => a \in S}]

Components == [d \in Dirs |-> Cardinality(Above[d])]

\* ProjectPathMappings::resolve: the longest registered ancestor.
ByPath(paths, d) ==
    LET found == {a \in Above[d] : paths[a] # None}
    IN  IF found = {} THEN None
        ELSE paths[CHOOSE a \in found : \A b \in found : Components[b] <= Components[a]]

TheOne(found) ==
    IF found = {} THEN None
    ELSE IF Cardinality(found) > 1 THEN Unresolved ELSE CHOOSE p \in found : TRUE

ByRemote(remotes, root) ==
    TheOne({remotes[Identity(r.target)] :
              r \in {q \in Remotes[root] : Identity(q.target) \in DOMAIN remotes}} \ {None})

ByLocalRemote(paths, root) ==
    LET dirs == {LocalDir(r.target) : r \in {q \in Remotes[root] : q.name = "local"}} \ {None}
    IN  IF Missing \in dirs THEN Unresolved
        ELSE TheOne({ByPath(paths, d) : d \in dirs} \ {None})

\* Remotes, then the remote named local.
ByGit(paths, remotes, root) ==
    IF ByRemote(remotes, root) # None THEN ByRemote(remotes, root)
    ELSE ByLocalRemote(paths, root)

ByName(d) == IF Names[d] = None THEN Unresolved ELSE Names[d]

\* Mutant: the checkout is asked before the paths.
ResolveGitFirst(explicit, d, paths, remotes) ==
    IF explicit # None THEN explicit
    ELSE IF Repo[d] # None /\ ByGit(paths, remotes, Repo[d]) # None
         THEN ByGit(paths, remotes, Repo[d])
    ELSE IF ByPath(paths, d) # None THEN ByPath(paths, d)
    ELSE ByName(IF Repo[d] = None THEN d ELSE Repo[d])

\* resolve_project.
Resolve(explicit, d, paths, remotes) ==
    IF explicit # None THEN explicit
    ELSE IF ByPath(paths, d) # None THEN ByPath(paths, d)
    ELSE IF Repo[d] = None THEN ByName(d)
    ELSE IF ByGit(paths, remotes, Repo[d]) # None THEN ByGit(paths, remotes, Repo[d])
    ELSE ByName(Repo[d])

-----------------------------------------------------------------------------
(* The store and the processes. *)

Job ==
    [op : {"path"}, project : Projects, place : DOMAIN Canonical]
    \cup [op : {"remote"}, project : Projects, target : Targets]
    \cup [op : {"capture"}, project : Projects \cup {None}, key : Keys, dir : Dirs]
    \cup [op : {"list", "session"}, project : {None}, dir : Dirs]

ResolutionAssumption ==
    /\ IsFiniteSet(Dirs) /\ None \notin Dirs
    /\ {None, Unresolved, "ok", "conflict", "invalid", "corrupt"} \cap Projects = {}
    /\ {None, Unresolved} \cap {"ok", "conflict", "invalid", "corrupt"} = {}
    /\ None # Unresolved
    /\ Parent \in [Dirs -> Dirs \cup {None}]
    /\ Names \in [Dirs -> Projects \cup {None}]
    /\ Repo \in [Dirs -> Dirs \cup {None}]
    /\ \A place \in DOMAIN Canonical : Canonical[place] \in Dirs \cup {Missing}
    /\ Missing \notin Dirs \cup {None}
    /\ Targets \subseteq Target
    /\ None \notin [host : STRING, path : STRING, gits : Nat]
    /\ \A d \in Dirs : Repo[d] # None =>
          IsFiniteSet(Remotes[Repo[d]]) /\ \A r \in Remotes[Repo[d]] : r.target \in Targets
    /\ Jobs \subseteq Job
    /\ None \notin Jobs

NoPaths == [d \in Dirs |-> None]
NoRemotes == [id \in Identities |-> None]

Idle == [phase |-> "idle", job |-> None, paths |-> NoPaths, remotes |-> NoRemotes,
         project |-> None, answer |-> None, before |-> NoPaths, beforeRemotes |-> NoRemotes,
         seen |-> {}]

\* What a command that infers would be told by registry r.
Told(j, r) == IF j.op \in {"path", "remote"} THEN {}
              ELSE {Resolve(j.project, j.dir, r.paths, r.remotes)}

\* Every call under way has now also seen the next registry.
Seeing == [c \in Calls |->
    IF call[c].job = None THEN call[c]
    ELSE [call[c] EXCEPT !.seen = @ \cup Told(call[c].job, registry')]]

Begin(c, j) ==
    /\ call[c].phase = "idle"
    /\ call' = [call EXCEPT ![c] = [Idle EXCEPT !.phase = "begun", !.job = j,
                    !.before = registry.paths, !.beforeRemotes = registry.remotes,
                    !.seen = Told(j, registry)]]
    /\ UNCHANGED <<registry, filed>>

Reply(c, code) ==
    call' = [call EXCEPT ![c] = [@ EXCEPT !.phase = "replying", !.answer = code]]

Accept(c) ==
    call' = [Seeing EXCEPT ![c] = [@ EXCEPT !.phase = "replying", !.answer = "ok"]]

\* `project register`: the path is made canonical before the store is opened.
RegisterMissing(c) ==
    /\ call[c].phase = "begun" /\ call[c].job.op = "path"
    /\ Canonical[call[c].job.place] = Missing
    /\ Reply(c, "invalid")
    /\ UNCHANGED <<registry, filed>>

\* Mutant: a path that is taken is answered like one that is registered.
RegisterPathSilent(c) ==
    /\ call[c].phase = "begun" /\ call[c].job.op = "path"
    /\ LET p == call[c].job.project
           d == Canonical[call[c].job.place]
       IN  /\ d # Missing
           /\ registry' = IF registry.paths[d] = None
                          THEN [registry EXCEPT !.paths[d] = p, !.projects = @ \cup {p}]
                          ELSE registry
           /\ Accept(c)
    /\ UNCHANGED filed

\* register_path, one immediate transaction.
RegisterPath(c) ==
    /\ call[c].phase = "begun" /\ call[c].job.op = "path"
    /\ LET p == call[c].job.project
           d == Canonical[call[c].job.place]
       IN  /\ d # Missing
           /\ \/ /\ registry.paths[d] = None
                 /\ registry' = [registry EXCEPT !.paths[d] = p, !.projects = @ \cup {p}]
                 /\ Accept(c)
              \/ /\ registry.paths[d] # None
                 /\ Reply(c, IF registry.paths[d] = p THEN "ok" ELSE "conflict")
                 /\ UNCHANGED registry
    /\ UNCHANGED filed

\* ProjectRemoteMapping::new, then register_remote.
RegisterRemote(c) ==
    /\ call[c].phase = "begun" /\ call[c].job.op = "remote"
    /\ LET p == call[c].job.project
           id == Identity(call[c].job.target)
       IN  \/ id = None /\ Reply(c, "invalid") /\ UNCHANGED registry
           \/ /\ id # None /\ registry.remotes[id] = None
              /\ registry' = [registry EXCEPT !.remotes[id] = p, !.projects = @ \cup {p}]
              /\ Accept(c)
           \/ /\ id # None /\ registry.remotes[id] # None
              /\ Reply(c, IF registry.remotes[id] = p THEN "ok" ELSE "conflict")
              /\ UNCHANGED registry
    /\ UNCHANGED filed

\* list_remotes fails on an identity that does not read back as itself.
Legible == \A id \in Identities : registry.remotes[id] # None => Readable(id)

\* `capture` and `list` read the two tables in statements of their own.
ReadPaths(c) ==
    /\ call[c].phase = "begun" /\ call[c].job.op \in {"capture", "list"}
    /\ call' = [call EXCEPT ![c] = [@ EXCEPT !.phase = "halfread", !.paths = registry.paths]]
    /\ UNCHANGED <<registry, filed>>

ReadRemotes(c) ==
    /\ call[c].phase = "halfread"
    /\ IF Legible
       THEN call' = [call EXCEPT ![c] = [@ EXCEPT !.phase = "read", !.remotes = registry.remotes]]
       ELSE Reply(c, "corrupt")
    /\ UNCHANGED <<registry, filed>>

\* Mutant: the session reads the tables apart, too.
ReadSnapshotApart(c) ==
    /\ call[c].phase = "begun" /\ call[c].job.op = "session"
    /\ call' = [call EXCEPT ![c] = [@ EXCEPT !.phase = "halfread", !.paths = registry.paths]]
    /\ UNCHANGED <<registry, filed>>

\* A read session reads both in one transaction.
ReadSnapshot(c) ==
    /\ call[c].phase = "begun" /\ call[c].job.op = "session"
    /\ IF Legible
       THEN call' = [call EXCEPT ![c] = [@ EXCEPT !.phase = "read", !.paths = registry.paths,
                                                  !.remotes = registry.remotes]]
       ELSE Reply(c, "corrupt")
    /\ UNCHANGED <<registry, filed>>

Infer(c) ==
    /\ call[c].phase = "read"
    /\ LET j == call[c].job
           p == Resolve(j.project, j.dir, call[c].paths, call[c].remotes)
       IN  IF j.op = "capture" /\ p # Unresolved
           THEN call' = [call EXCEPT ![c] = [@ EXCEPT !.phase = "resolved", !.project = p]]
           ELSE Reply(c, p)
    /\ UNCHANGED <<registry, filed>>

\* The capture transaction: the receipt's payload includes the project.
File(c) ==
    /\ call[c].phase = "resolved"
    /\ LET mine == [key |-> call[c].job.key, project |-> call[c].project]
       IN  \/ /\ \A f \in filed : f.key # mine.key
              /\ filed' = filed \cup {mine}
              /\ registry' = [registry EXCEPT !.projects = @ \cup {mine.project}]
              /\ Reply(c, mine.project)
           \/ /\ \E f \in filed : f.key = mine.key
              /\ Reply(c, IF mine \in filed THEN mine.project ELSE "conflict")
              /\ UNCHANGED <<registry, filed>>

Report(c) ==
    /\ call[c].phase = "replying"
    /\ call' = [call EXCEPT ![c].phase = "answered"]
    /\ UNCHANGED <<registry, filed>>

Die(c) ==
    /\ call[c].phase \notin {"idle", "answered", "dead"}
    /\ call' = [call EXCEPT ![c].phase = "dead"]
    /\ UNCHANGED <<registry, filed>>

Init ==
    /\ registry = [paths |-> NoPaths, remotes |-> NoRemotes, projects |-> {}]
    /\ filed = {}
    /\ call = [c \in Calls |-> Idle]

Next ==
    \E c \in Calls :
      \/ \E j \in Jobs : Begin(c, j)
      \/ RegisterMissing(c) \/ RegisterPath(c) \/ RegisterRemote(c)
      \/ ReadPaths(c) \/ ReadRemotes(c) \/ ReadSnapshot(c) \/ Infer(c) \/ File(c)
      \/ Report(c) \/ Die(c)

Spec == Init /\ [][Next]_vars

-----------------------------------------------------------------------------
(* Properties. *)

(* Of two processes that register one directory, through any of its names,  *)
(* for different projects, one is told of the conflict.                     *)
OneRegistrantIsAccepted ==
    \A c \in Calls : call[c].answer = "ok" =>
        IF call[c].job.op = "path"
        THEN registry.paths[Canonical[call[c].job.place]] = call[c].job.project
        ELSE registry.remotes[Identity(call[c].job.target)] = call[c].job.project

Captured(c) == call[c].job # None /\ call[c].job.op = "capture" /\ call[c].answer \in Projects

(* A capture that began under a registered directory is filed by that       *)
(* registration or by a nearer one made since, never by a remote or a name; *)
(* and one that began where no path is registered, in a checkout whose      *)
(* remotes belong to different projects, is not filed by guessing.          *)
CapturesHeedRegistrations ==
    \A c \in Calls :
        LET j == call[c].job
            paths == {a \in Above[j.dir] : call[c].before[a] # None}
            nearer(a) == {b \in Above[j.dir] : Components[b] >= Components[a]}
            remotes == {call[c].beforeRemotes[Identity(r.target)] :
                          r \in {q \in Remotes[Repo[j.dir]] : Identity(q.target) # None}} \ {None}
        IN  Captured(c) /\ j.project = None =>
            /\ \A a \in paths : \E b \in nearer(a) : registry.paths[b] = call[c].answer
            /\ ByPath(registry.paths, j.dir) = None /\ Repo[j.dir] # None =>
                  remotes \subseteq {call[c].answer}

(* What a read session infers was right at one moment of its call.          *)
SessionsInferOneMoment ==
    \A c \in Calls :
        call[c].job # None /\ call[c].job.op = "session"
        /\ call[c].answer \in Projects \cup {Unresolved} => call[c].answer \in call[c].seen
=============================================================================
