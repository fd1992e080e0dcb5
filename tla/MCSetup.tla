------------------------------ MODULE MCSetup ------------------------------
(* Small instances of what processes collide on when they start.            *)
EXTENDS Setup, TLC

Symmetry == Permutations(Calls)

ASSUME Expectations == HistoriesAreTrue /\ NamesAreRead

-----------------------------------------------------------------------------
(* Two programs with all of three migrations and an older one with two; the *)
(* journal comes with the last.                                             *)

MCProcesses == {"new1", "new2", "old"}
MCSupports == "new1" :> 3 @@ "new2" :> 3 @@ "old" :> 2

Row(v) == [version |-> v, name |-> v, checksum |-> v]
Rows(n) == [i \in 1..n |-> Row(i)]
Holding(history, tables, generation) ==
    [history |-> history, tables |-> tables, foreign |-> FALSE, generation |-> generation,
     sound |-> TRUE]

(* New, old, current and newer stores, and stores that must be refused. *)
MCStarts ==
    {Holding(<<>>, {}, 0), Holding(Rows(1), {1}, 0), Holding(Rows(3), {1, 2, 3}, 1),
     Holding(Rows(4), 1..4, 1),
     [Holding(<<>>, {}, 0) EXCEPT !.foreign = TRUE],
     Holding(<<>>, {1}, 0),
     Holding(<<Row(2)>>, {2}, 0),
     Holding(<<Row(1), Row(3)>>, {1, 3}, 1),
     Holding(<<[Row(1) EXCEPT !.checksum = 0], Row(2)>>, {1, 2}, 0),
     Holding(<<[Row(1) EXCEPT !.name = 2]>>, {1}, 0),
     Holding(Rows(2), {1, 2, 3}, 0),
     [Holding(Rows(3), {1, 2, 3}, 1) EXCEPT !.sound = FALSE]}

-----------------------------------------------------------------------------
(* Two users' inits of one file, and commands that load it.                 *)

MCRoots == {"here", "elsewhere"}
MCPlaces == [p \in {".", "here/link", "../elsewhere", "gone"} |->
                CASE p = "gone" -> Missing [] p = "../elsewhere" -> "elsewhere" [] OTHER -> "here"]
MCRequesters == {"ANN", "BO"}
MCFiles == {"os", "mine"}
MCLength == [p \in [root : MCRoots, requester : MCRequesters] |->
                (IF p.root = "here" THEN 4 ELSE 9) + (IF p.requester = "ANN" THEN 3 ELSE 2)]

NoVariables == [config |-> None, root |-> None, requester |-> None]
Mine == [NoVariables EXCEPT !.config = [file |-> "mine", utf8 |-> TRUE]]
Ann == [NoVariables EXCEPT !.root = ".", !.requester = "ANN"]
MCEnvironments == {NoVariables, Mine, Ann}

ToInit(config, root, requester, env) ==
    [op |-> "init", config |-> config, root |-> root, requester |-> requester, env |-> env]
ToLoad(config, env) ==
    [op |-> "load", config |-> config, root |-> None, requester |-> None, env |-> env]

(* `os` is written by inits with texts of three lengths, `mine` by one. *)
MCOrders ==
    {ToInit(None, ".", "BO", NoVariables), ToInit(None, "../elsewhere", "ANN", NoVariables),
     ToInit(None, "here/link", "ANN", NoVariables),
     ToInit(None, "../elsewhere", "BO", Mine), ToInit(None, "gone", "BO", NoVariables),
     ToLoad(None, NoVariables), ToLoad("mine", Ann), ToLoad(None, Mine)}

-----------------------------------------------------------------------------
(* Two checkouts in a directory of the user's, a directory in each, and a   *)
(* scratch directory whose name gives no project.                           *)

MCProjects == {"alpha", "beta", "repo"}
MCDirs == {"home", "repo", "app", "fork", "lib", "scratch"}
MCParent == "home" :> None @@ "repo" :> "home" @@ "app" :> "repo" @@ "fork" :> "home"
            @@ "lib" :> "fork" @@ "scratch" :> None
MCNames == [d \in MCDirs |-> CASE d \in {"repo", "fork"} -> "repo"
                                [] d = "scratch" -> None [] OTHER -> "beta"]
MCRepo == [d \in MCDirs |-> CASE d \in {"repo", "app"} -> "repo"
                               [] d \in {"fork", "lib"} -> "fork" [] OTHER -> None]
MCCanonical == [place \in {"home", "repo", "link", "app", "fork", "gone"} |->
                    CASE place = "link" -> "repo" [] place = "gone" -> Missing [] OTHER -> place]
MCKeys == {"k"}

Hosted(form, path, gits) ==
    [form |-> form, host |-> "host", path |-> path, gits |-> gits, dir |-> Missing]
At(dir) == [form |-> "path", host |-> "", path |-> "", gits |-> 0, dir |-> dir]

Origin == Hosted("url", "one", 1)
OriginAgain == Hosted("scp", "one", 0)
Upstream == Hosted("url", "two", 0)
Twice == Hosted("url", "one", 2)
Somewhere == [At(Missing) EXCEPT !.form = "bare"]
MCTargets == {Origin, OriginAgain, Upstream, Twice, Somewhere, At("home"), At(Missing)}

(* `repo` has only its local remote, `fork` has two hosted remotes and one  *)
(* that leads nowhere.                                                      *)
Remote(name, target) == [name |-> name, target |-> target]
MCRemotes == "repo" :> {Remote("local", At("home")), Remote("origin", Somewhere)}
             @@ "fork" :> {Remote("origin", Origin), Remote("upstream", Upstream),
                           Remote("local", At(Missing))}

ToPath(p, place) == [op |-> "path", project |-> p, place |-> place]
ToRemote(p, t) == [op |-> "remote", project |-> p, target |-> t]
ToCapture(p, d) == [op |-> "capture", project |-> p, key |-> "k", dir |-> d]
ToRead(op, d) == [op |-> op, project |-> None, dir |-> d]

(* Registrations by two names of one directory, and nested ones; remotes,   *)
(* of which two are the same and one is not read back as itself.            *)
MCScenes ==
    "paths" :>
        {ToPath("alpha", "repo"), ToPath("beta", "link"), ToPath("beta", "home"),
         ToPath("alpha", "app"), ToPath("alpha", "gone"), ToCapture(None, "app"),
         ToCapture("beta", "app"), ToCapture(None, "scratch"), ToRead("list", "home")}
    @@ "remotes" :>
        {ToRemote("alpha", OriginAgain), ToRemote("beta", Origin), ToRemote("beta", Upstream),
         ToRemote("beta", Twice), ToRemote("alpha", Somewhere), ToPath("alpha", "fork"),
         ToCapture(None, "lib"), ToRead("session", "lib")}
MCJobs == UNION {MCScenes[s] : s \in DOMAIN MCScenes}
=============================================================================
