------------------------------ MODULE Mutations ------------------------------
(* One item's life under whole mutations, and the calls that ask for them.  *)
(* The item and the calls share no state, so a behaviour is one of a single *)
(* `part`: the item, or a scene, which is how many processes there are,     *)
(* what they ask for and what their hosts vouch for.                        *)
EXTENDS ItemLifecycle, FiniteSets

CONSTANTS
    Keys, Lower, AssigneeId,    \* of the requests
    Calls, Requests, Hosts,     \* of the surfaces
    Scenes                      \* per scene, its requests, hosts and number of calls

VARIABLES
    part,           \* which of them moves
    store, call     \* of the surfaces

callVars == <<store, call>>
mutationsVars == <<part, vars, callVars>>

Surfaces == INSTANCE MutationSurfaces

ASSUME CallsAssumption ==
    /\ Surfaces!SurfacesAssumption
    /\ \A scene \in DOMAIN Scenes :
          Scenes[scene].requests \subseteq Requests /\ Scenes[scene].hosts \subseteq Hosts

MutationsInit ==
    /\ Init /\ Surfaces!Init
    /\ \/ part = "item" /\ store.ready
       \/ part \in DOMAIN Scenes

Begun == {c \in Calls : call[c].phase # "idle"}

PlayScene ==
    LET scene == Scenes[part]
    IN  /\ part \in DOMAIN Scenes
        /\ \/ Surfaces!Initialize \/ Surfaces!Restore
           \/ \E c \in Calls : Surfaces!Step(c)
           \/ /\ Cardinality(Begun) < scene.calls
              /\ \E c \in Calls : Surfaces!Begin(c, scene.hosts, scene.requests)

MutationsNext ==
    \/ part = "item" /\ Next /\ UNCHANGED <<part, callVars>>
    \/ PlayScene /\ UNCHANGED <<part, vars>>

MutationsSpec == MutationsInit /\ [][MutationsNext]_mutationsVars

-----------------------------------------------------------------------------
(* What an agent changes, its human's trusted instruction names, in the     *)
(* spelling of the request where that is a person's name, whatever surface  *)
(* the request came through (application.rs authorize_mutation).            *)
AgentStaysInScope == Surfaces!AgentStaysInScope

(* Within one store identity a key has one effect, over all surfaces.       *)
OneEffectPerKey == Surfaces!OneEffectPerKey

(* The same words mean the same mutation on every surface that takes them.  *)
SurfacesAgree == Surfaces!SurfacesAgree

(* The identities the pre-read counted fail to fit only when the item or    *)
(* the store was overtaken (cli_mutation.rs execute).                       *)
CountFitsUnlessOvertaken == Surfaces!CountFitsUnlessOvertaken

(* The command line's pre-read refuses only what the transaction would.     *)
PrereadRefusesRightly == Surfaces!PrereadRefusesRightly

(* No mutation through `bif rpc` ends as an internal error (README.md:315). *)
RpcMutationsTakeEffect == Surfaces!RpcMutationsTakeEffect
=============================================================================
