-------------------------------- MODULE Setup --------------------------------
(* What processes that start next to each other may collide on: opening and *)
(* migrating a store, the configuration file, and the registrations that    *)
(* decide a directory's project.  The three share no state, so a behaviour  *)
(* is one of a single `part`: the opening of a store, the configuration, or *)
(* a scene, which is what people do to one registry of projects.            *)
EXTENDS ProjectResolution, Sequences

CONSTANTS
    Scenes,                                         \* per scene, the jobs in it
    Processes, Supports, JournalVersion, Starts,    \* of the opening
    MaxFaults, MaxOpens,                            \* bounds of the opening
    Roots, Places, Requesters, Files, OsFile,       \* of the configuration
    Length, Environments, Orders

VARIABLES
    part,                                   \* which of them moves
    store, work, step, result, lock, drawn, start, faults, opens,
    file, stores, command                   \* of the configuration

storeVars == <<store, work, step, result, lock, drawn, start, faults, opens>>
fileVars == <<file, stores, command>>
setupVars == <<part, storeVars, fileVars, vars>>

Opening == INSTANCE Migration
Configured == INSTANCE Configuration WITH call <- command, Jobs <- Orders

ASSUME SetupAssumption ==
    /\ ResolutionAssumption
    /\ Opening!MigrationAssumption
    /\ Configured!ConfigurationAssumption

SetupInit ==
    /\ Init /\ Opening!Init /\ Configured!Init
    /\ \/ part = "opening"
       \/ /\ part \in {"configuration"} \cup DOMAIN Scenes
          /\ start = CHOOSE s \in Starts : TRUE

PlayScene ==
    /\ part \in DOMAIN Scenes
    /\ Next
    /\ \A c \in Calls : call'[c].job \in Scenes[part] \cup {None}

SetupNext ==
    \/ part = "opening" /\ Opening!Next /\ UNCHANGED <<part, fileVars, vars>>
    \/ part = "configuration" /\ Configured!Next /\ UNCHANGED <<part, storeVars, vars>>
    \/ PlayScene /\ UNCHANGED <<part, storeVars, fileVars>>

SetupSpec == SetupInit /\ [][SetupNext]_setupVars

(* What is expected of a store whose recorded history is accepted: that the *)
(* tables of its versions and no others are there, unless tables of the     *)
(* next version stand in its way, and that only a journal has metadata.     *)
HistoriesAreTrue ==
    \A s \in Starts :
        LET n == Len(s.history)
        IN  Opening!HistoryProblem(s, n) = None =>
            \/ n + 1 \in s.tables
            \/ /\ s.tables = DOMAIN s.history /\ ~s.foreign
               /\ s.generation # 0 \/ ~s.sound => JournalVersion \in s.tables

(* What is expected of an environment that names a configuration file.      *)
NamesAreRead == \A env \in Environments : env.config # None => env.config.utf8

(* Whatever fails or dies while stores are opened, what is committed is the *)
(* store that was found or a whole one (storage.rs, migrate_all).           *)
CommittedIsWhole == Opening!CommittedIsWhole

(* A store that was opened has what the opening program needs.              *)
OpenedIsCurrent == Opening!OpenedIsCurrent

(* Commands that load a configuration get one init's, and an init nobody    *)
(* met has taken effect when it answers (config.rs, cli.rs).                *)
CommandsLoadOneInit == Configured!CommandsLoadOneInit
=============================================================================
