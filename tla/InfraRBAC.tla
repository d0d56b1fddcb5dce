----------------------------- MODULE InfraRBAC ------------------------------
(***************************************************************************)
(* The objects the operator writes by hand instead of through deploy: the  *)
(* namespace of the AI Grid, the infrastructure namespace, and the Role    *)
(* and RoleBinding maas-controller copies its secret with.  Each is read   *)
(* from the informer cache and then created, updated or deleted, while     *)
(* other writers change, create and delete the same objects.               *)
(*                                                                         *)
(* A resourceVersion matters only in whether it is still that of the live  *)
(* object, so versions are not counted: `stale` says of which objects the  *)
(* cached copy has been overtaken, rr.fresh the same of the copy in hand.  *)
(***************************************************************************)
EXTENDS Naturals

CONSTANTS
  Absent,        \* "no such object"
  MaaSStates,    \* values spec.modelsAsAService.managementState may take
  GridStates,    \* may aiGrid be Managed (TRUE), or not (FALSE)?
  InfraSeparate, \* is the infrastructure namespace apart from the applications one?
  Beginnings,    \* what the objects may be when the operator is installed
  MaxEvents,     \* bound: edits by users and other writers, and unrelated events
  MaxFaults      \* bound: transient errors and crashes

Namespaces == {"grid", "infra"}
RBAC       == {"Role", "RoleBinding"}
Objects    == Namespaces \cup RBAC

\* labelled: carries the three required labels; others: carries one of someone else's.
NamespaceStates == [labelled: BOOLEAN, others: BOOLEAN]
\* right: the rules, subjects and labels wanted; owned: refers to the AIGateway.
RBACStates == [right: BOOLEAN, owned: BOOLEAN]

StatesOf(o) == IF o \in Namespaces THEN NamespaceStates ELSE RBACStates

ASSUME LimitsOK == MaxEvents \in Nat /\ MaxFaults \in Nat
ASSUME SettingsOK == /\ MaaSStates \subseteq {"Managed", "Removed", ""}
                     /\ GridStates \subseteq BOOLEAN /\ InfraSeparate \in BOOLEAN
\* RBAC objects live in the infrastructure namespace, and none is the operator's yet.
ASSUME BeginningsOK ==
  \A b \in Beginnings :
    /\ b \in [Objects -> NamespaceStates \cup RBACStates \cup {Absent}]
    /\ \A o \in Objects : b[o] \in StatesOf(o) \cup {Absent}
    /\ \A o \in RBAC : b[o] # Absent => b["infra"] # Absent /\ ~b[o].owned
ASSUME AbsentOK == Absent \notin NamespaceStates \cup RBACStates

VARIABLES
  maas, grid,  \* managementState of modelsAsAService; is aiGrid Managed?
  completed,   \* what maasTeardownCompleted answers
  live,        \* the objects in the API server
  cached,      \* the operator's informer copies of them
  stale,       \* the objects whose cached copy has been overtaken
  drifted,     \* auxiliary: changed by others since the operator wrote or checked them
  pending,     \* is the AIGateway key in the work queue?
  pc,          \* the object the pass is at, or where it is otherwise
  rr,          \* what the pass has read
  events, faults

specVars  == <<maas, grid, completed>>
objVars   == <<live, cached, stale, drifted>>
passVars  == <<pending, pc, rr>>
vars == <<maas, grid, completed, live, cached, stale, drifted, pending, pc, rr,
          events, faults>>

Labels == {"idle", "dispatch", "dropRole", "dropRoleBinding", "rest"} \cup Objects

Copies == NamespaceStates \cup RBACStates \cup {Absent}

\* got: has Get been called for the object at hand; copy and fresh are its result.
NoPass == [maas |-> "", grid |-> FALSE, got |-> FALSE, copy |-> Absent, fresh |-> FALSE]

Init ==
  /\ maas \in MaaSStates /\ grid \in GridStates /\ completed \in BOOLEAN
  /\ live \in Beginnings
  /\ cached = live /\ stale = {} /\ drifted = {}
  /\ pending = TRUE /\ pc = "idle" /\ rr = NoPass
  /\ events = 0 /\ faults = 0

---------------------------------------------------------------------------
(* The user, maas-controller, other writers and the informer.              *)

Event == events < MaxEvents /\ events' = events + 1

\* Every edit of the spec, every change of maas-controller's Deployment and many
\* other events enqueue the AIGateway.
Enqueued ==
  /\ Event /\ pending' = TRUE
  /\ UNCHANGED <<objVars, pc, rr, faults>>

\* Set to what they were, these are the events that change nothing here.
UserSets(m, g) == Enqueued /\ maas' = m /\ grid' = g /\ UNCHANGED completed

DeploymentChanges == Enqueued /\ completed' = ~completed /\ UNCHANGED <<maas, grid>>

\* Another writer changes an object, or creates it: it adds labels of its own to a
\* namespace, may spoil the operator's, and never takes its own away.
OthersSet(o, v) ==
  /\ Event
  /\ v # live[o]
  /\ o \in Namespaces /\ live[o] # Absent => (live[o].others => v.others)
  /\ o \in RBAC => /\ live["infra"] # Absent
                   /\ v.owned => (live[o] # Absent /\ live[o].owned)
  /\ live' = [live EXCEPT ![o] = v]
  /\ stale' = stale \cup {o} /\ drifted' = drifted \cup {o}
  /\ rr' = [rr EXCEPT !.fresh = @ /\ pc # o]
  /\ UNCHANGED <<specVars, cached, pending, pc, faults>>

\* A namespace takes what is in it along.
Contents(o) == IF o = "infra" THEN RBAC \cup {o} ELSE {o}

OthersDelete(o) ==
  /\ Event
  /\ live[o] # Absent
  /\ live' = [p \in Objects |-> IF p \in Contents(o) THEN Absent ELSE live[p]]
  /\ stale' = stale \cup {p \in Contents(o) : live[p] # Absent}
  /\ drifted' = drifted \cup Contents(o)
  /\ rr' = [rr EXCEPT !.fresh = @ /\ pc \notin Contents(o)]
  /\ UNCHANGED <<specVars, cached, pending, pc, faults>>

Owned(o, v) == o \in RBAC /\ v # Absent /\ v.owned

(* The informer catches up with an object.  Namespaces are not watched; an *)
(* RBAC object enqueues its owner, if the framework's Owns counts owner    *)
(* references that are not the controller's - both are allowed.            *)
Deliver(o) ==
  /\ o \in stale
  /\ cached' = [cached EXCEPT ![o] = live[o]] /\ stale' = stale \ {o}
  /\ \/ UNCHANGED pending
     \/ (Owned(o, cached[o]) \/ Owned(o, live[o])) /\ pending' = TRUE
  /\ UNCHANGED <<specVars, live, drifted, pc, rr, events, faults>>

---------------------------------------------------------------------------
(* The reconcile pass.                                                     *)

Begin ==
  /\ pc = "idle" /\ pending /\ pending' = FALSE
  /\ rr' = [NoPass EXCEPT !.maas = maas, !.grid = grid]
  /\ pc' = IF grid THEN "grid" ELSE "dispatch"
  /\ UNCHANGED <<specVars, objVars, events, faults>>

Dispatch_MissingReturn ==
  /\ pc = "dispatch"
  /\ pc' = CASE InfraSeparate /\ rr.maas = "Managed" -> "infra"
             [] InfraSeparate /\ rr.maas = "Removed" -> IF completed THEN "dropRole" ELSE "Role"
             [] OTHER -> "rest"
  /\ UNCHANGED <<specVars, objVars, pending, rr, events, faults>>

\* ensureInfraSecretMigrationRBAC, up to its first call.
Dispatch ==
  /\ pc = "dispatch"
  /\ pc' = CASE InfraSeparate /\ rr.maas = "Managed" -> "infra"
             [] InfraSeparate /\ rr.maas = "Removed" /\ completed -> "dropRole"
             [] OTHER -> "rest"
  /\ UNCHANGED <<specVars, objVars, pending, rr, events, faults>>

After(o) == CASE o = "grid"  -> "dispatch"
              [] o = "infra" -> "Role"
              [] o = "Role"  -> "RoleBinding"
              [] o = "RoleBinding" -> "rest"

\* Every ensure function begins with a Get, which reads the cache.
Get ==
  /\ pc \in Objects /\ ~rr.got
  /\ rr' = [rr EXCEPT !.got = TRUE, !.copy = cached[pc], !.fresh = pc \notin stale]
  /\ UNCHANGED <<specVars, objVars, pending, pc, events, faults>>

Write_AlwaysNewVersion(o, v) ==
  /\ live' = [live EXCEPT ![o] = v]
  /\ stale' = stale \cup {o}
  /\ drifted' = drifted \ {o}
  /\ UNCHANGED cached

\* The API server leaves the version of an object alone that a write does not change.
Write(o, v) ==
  /\ live' = [live EXCEPT ![o] = v]
  /\ stale' = IF v = live[o] THEN stale ELSE stale \cup {o}
  /\ drifted' = drifted \ {o}
  /\ UNCHANGED cached

Proceed(label) ==
  /\ pc' = label
  /\ rr' = [rr EXCEPT !.got = FALSE, !.copy = Absent, !.fresh = FALSE]

Created(o) == IF o \in Namespaces THEN [labelled |-> TRUE, others |-> FALSE]
                                  ELSE [right |-> TRUE, owned |-> TRUE]

Room(o) == o \in RBAC => live["infra"] # Absent

\* What the two outcomes of Create are decided by.
CreateAccepted(o) == live[o] = Absent /\ Room(o)

Create ==
  /\ pc \in Objects /\ rr.got /\ rr.copy = Absent
  /\ CreateAccepted(pc)
  /\ Write(pc, Created(pc))
  /\ Proceed(After(pc))
  /\ UNCHANGED <<specVars, pending, events, faults>>

Updated_LabelsOnCreateOnly(o, v) ==
  IF o \in Namespaces THEN v ELSE [right |-> TRUE, owned |-> TRUE]

\* The object as the ensure functions send it back: the required labels merged into a
\* namespace's; rules or subjects, labels and owner of an RBAC object overwritten.
Updated(o, v) ==
  IF o \in Namespaces THEN [v EXCEPT !.labelled = TRUE] ELSE [right |-> TRUE, owned |-> TRUE]

NeedsUpdate(o, v) == IF o \in Namespaces THEN ~v.labelled ELSE TRUE

UpdateAccepted_LastWriteWins(o) == live[o] # Absent

\* Update sends the resourceVersion it read.
UpdateAccepted(o) == rr.fresh

Update ==
  /\ pc \in Objects /\ rr.got /\ rr.copy # Absent
  /\ NeedsUpdate(pc, rr.copy)
  /\ UpdateAccepted(pc)
  /\ Write(pc, Updated(pc, rr.copy))
  /\ Proceed(After(pc))
  /\ UNCHANGED <<specVars, pending, events, faults>>

\* A namespace that has its labels is left alone, whatever became of it since.
LeaveAlone ==
  /\ pc \in Objects /\ rr.got /\ rr.copy # Absent
  /\ ~NeedsUpdate(pc, rr.copy)
  /\ drifted' = IF rr.fresh THEN drifted \ {pc} ELSE drifted
  /\ Proceed(After(pc))
  /\ UNCHANGED <<specVars, live, cached, stale, pending, events, faults>>

\* ensureInfraRBACDeleted: the Role, then the RoleBinding, without preconditions.
Drop(label, o, next) ==
  /\ pc = label
  /\ Write(o, Absent)
  /\ Proceed(next)
  /\ UNCHANGED <<specVars, pending, events, faults>>

DropRole        == Drop("dropRole", "Role", "dropRoleBinding")
DropRoleBinding == Drop("dropRoleBinding", "RoleBinding", "rest")

EndPass ==
  /\ pc = "rest" /\ pc' = "idle" /\ rr' = NoPass
  /\ UNCHANGED <<specVars, objVars, pending, events, faults>>

---------------------------------------------------------------------------
(* Failures.                                                               *)

\* The pass ends with an error and the key is queued again.
Fail == pending' = TRUE /\ pc' = "idle" /\ rr' = NoPass

\* AlreadyExists, or no namespace to create it in.
CreateRefused ==
  /\ pc \in Objects /\ rr.got /\ rr.copy = Absent
  /\ ~CreateAccepted(pc)
  /\ Fail
  /\ UNCHANGED <<specVars, objVars, events, faults>>

UpdateRefused_Swallowed ==
  /\ pc \in Objects /\ rr.got /\ rr.copy # Absent
  /\ NeedsUpdate(pc, rr.copy) /\ ~UpdateAccepted(pc)
  /\ Proceed(After(pc))
  /\ UNCHANGED <<specVars, objVars, pending, events, faults>>

\* Conflict, or NotFound.
UpdateRefused ==
  /\ pc \in Objects /\ rr.got /\ rr.copy # Absent
  /\ NeedsUpdate(pc, rr.copy) /\ ~UpdateAccepted(pc)
  /\ Fail
  /\ UNCHANGED <<specVars, objVars, events, faults>>

Fault == faults < MaxFaults /\ faults' = faults + 1

\* Any call, or any later action of the pass, returns another error.  A crash is a
\* failed pass whose restart has the informer list, and so deliver, everything.
PassFails ==
  /\ Fault /\ pc # "idle" /\ Fail
  /\ UNCHANGED <<specVars, objVars, events>>

---------------------------------------------------------------------------
PassStep ==
  \/ Begin \/ Dispatch \/ Get \/ Create \/ Update \/ LeaveAlone \/ DropRole
  \/ DropRoleBinding \/ EndPass \/ CreateRefused \/ UpdateRefused

OthersStep ==
  \E o \in Objects : OthersDelete(o) \/ \E v \in StatesOf(o) : OthersSet(o, v)

Next ==
  \/ \E m \in MaaSStates, g \in GridStates : UserSets(m, g)
  \/ DeploymentChanges \/ OthersStep
  \/ \E o \in Objects : Deliver(o)
  \/ PassStep \/ PassFails

Spec == Init /\ [][Next]_vars

\* The worker takes what is queued and the informer delivers what it owes.
FairSpec == Spec /\ WF_vars(PassStep) /\ \A o \in Objects : WF_vars(Deliver(o))

---------------------------------------------------------------------------
(* Properties.                                                             *)

\* Every variable stays in its range, and a pass is where the state it saw sends it
\* (ensureInfraSecretMigrationRBAC).
TypeOK ==
  /\ maas \in MaaSStates /\ grid \in GridStates /\ completed \in BOOLEAN
  /\ live \in [Objects -> Copies] /\ cached \in [Objects -> Copies]
  /\ \A o \in Objects : live[o] \in StatesOf(o) \cup {Absent}
  /\ \A o \in Objects : cached[o] \in StatesOf(o) \cup {Absent}
  /\ stale \subseteq Objects /\ drifted \subseteq Objects
  /\ pending \in BOOLEAN /\ pc \in Labels
  /\ rr \in [maas: MaaSStates \cup {""}, grid: BOOLEAN, got: BOOLEAN, copy: Copies, fresh: BOOLEAN]
  /\ events \in 0..MaxEvents /\ faults \in 0..MaxFaults
  /\ pc \in RBAC \cup {"infra"} => InfraSeparate /\ rr.maas = "Managed"
  /\ pc \in {"dropRole", "dropRoleBinding"} => InfraSeparate /\ rr.maas = "Removed"
  /\ pc = "grid" => rr.grid

Quiet == pc = "idle" /\ ~pending

\* What the ensure functions are after.
Ensured(o) ==
  /\ live[o] # Absent
  /\ IF o \in Namespaces THEN live[o].labelled ELSE live[o].right /\ live[o].owned

(* An operator with nothing queued has given maas-controller its rights, or *)
(* taken them back, whatever was refused, overtaken or lost on the way:     *)
(* "While Managed, it ensures the namespace and RBAC exist" and, after the  *)
(* teardown, "deletes the Role and RoleBinding"                             *)
(* (ensureInfraSecretMigrationRBAC).  What others undid since is apart.     *)
SettledRights ==
  Quiet /\ InfraSeparate =>
    /\ maas = "Managed" => \A o \in RBAC \ drifted : Ensured(o)
    /\ maas = "Removed" /\ completed => \A o \in RBAC \ drifted : live[o] = Absent

(* The two namespaces are there with "required labels [...] on pre-existing *)
(* namespace (upgrade path)" too (ensureNamespace), the cache having shown  *)
(* whatever it had.                                                         *)
SettledNamespaces ==
  Quiet => /\ grid => "grid" \in drifted \/ Ensured("grid")
           /\ maas = "Managed" /\ InfraSeparate => "infra" \in drifted \/ Ensured("infra")

(* Labels that others put on a namespace survive the operator's updates,    *)
(* which send the whole object back: a copy that has been overtaken is      *)
(* refused (ensureNamespace).                                               *)
OthersLabelsKept ==
  [][\A n \in Namespaces :
       live[n] # Absent /\ live[n].others /\ live'[n] # Absent => live'[n].others]_vars

(* When nobody else acts any more, passes come to an end, although the Role *)
(* and the RoleBinding are updated in every pass and a change of them asks  *)
(* for another (ensureSecretMigrateRole, ensureSecretMigrateRoleBinding).   *)
PassesStop == <>[]Quiet
=============================================================================
