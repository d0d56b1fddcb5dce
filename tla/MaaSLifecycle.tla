--------------------------- MODULE MaaSLifecycle ---------------------------
(***************************************************************************)
(* The MaaS half of the AIGateway reconciler: how the maas-controller      *)
(* bundle is installed, asked to tear itself down, waited for and garbage  *)
(* collected, while the user edits the AIGateway object, the informer      *)
(* cache lags behind the API server, passes fail and the operator crashes. *)
(*                                                                         *)
(* One reconcile pass is a walk of pc through the pipeline that            *)
(* NewReconciler assembles; each label is one action of the pipeline that  *)
(* touches this state.  The actions that do not touch it (upgradeIfNeeded, *)
(* releases, reportSubModuleStatus, reportStatus) only matter here because *)
(* they may fail, which PassFails allows at every label.                   *)
(***************************************************************************)
EXTENDS Naturals, Sequences, FiniteSets

CONSTANTS
  Companions,       \* bundle objects other than the maas-controller Deployment
  Absent,           \* "no such object" (a value outside every object set)
  ManagementStates, \* values spec.modelsAsAService.managementState may take
  InfraSeparate,    \* is the infrastructure namespace apart from the applications one?
  LegacyUpgrade,    \* may the cluster start with the modelsasservice Deployment?
  RecreationMayFail,\* may a pass fail between deleting a legacy Deployment and applying it anew?
  EarlyReenable,    \* may the user set Managed while a removal is unfinished?
  MaxEdits,         \* bound: generations the AIGateway object goes through
  MaxFaults,        \* bound: failed passes, swallowed conflicts and operator crashes
  MaxLag            \* bound: Deployment versions the informer may still owe

Generations == 1..MaxEdits
Stamps      == 0..MaxEdits    \* 0: never applied by this operator

DeploymentStates ==
  [requested: BOOLEAN, completed: BOOLEAN, legacy: BOOLEAN, stamp: Stamps]

InfraObjects == {"Role", "RoleBinding"}

ASSUME BoundsOK == MaxEdits \in Nat \ {0} /\ MaxFaults \in Nat /\ MaxLag \in Nat

ASSUME SettingsOK ==
  /\ ManagementStates \subseteq {"Managed", "Removed", ""}
  /\ InfraSeparate \in BOOLEAN
  /\ LegacyUpgrade \in BOOLEAN
  /\ RecreationMayFail \in BOOLEAN
  /\ EarlyReenable \in BOOLEAN

ASSUME AbsentOK == Absent \notin DeploymentStates \cup Stamps

VARIABLES
  managementState, \* spec.modelsAsAService.managementState in the API server
  generation,      \* metadata.generation of the AIGateway object
  dep,             \* the live maas-controller Deployment, or Absent
  cached,          \* the operator's informer copy of dep
  inFlight,        \* versions of dep the informer has still to deliver
  companions,      \* live stamp of each companion object, or Absent
  infra,           \* the secret-migrate objects in the infrastructure namespace
  runtime,         \* does what maas-controller created (Config/default, ...) exist?
  pending,         \* is the AIGateway key in the work queue?
  reason,          \* reason of DeploymentsAvailable as last patched
  faults,          \* failed passes, lost races and crashes so far
  pc,              \* the pipeline action the worker is about to run
  rr               \* the ReconciliationRequest of the pass in progress

specVars  == <<managementState, generation>>
depVars   == <<dep, cached, inFlight>>
passVars  == <<pc, rr>>
vars == <<managementState, generation, dep, cached, inFlight, companions,
          infra, runtime, pending, reason, faults, pc, rr>>

Controller == "maas-controller"
Bundle     == Companions \cup {Controller}

Labels  == {"idle", "initialize", "infra", "migrate", "bundle", "controller",
            "status", "gc"}
Reasons == {"none", "Generic", "MaaSRemovalInProgress", "NoSubModuleManaged"}

NoPass == [state |-> "", gen |-> 0, keep |-> FALSE, verdict |-> "none",
           sweep |-> {}]

---------------------------------------------------------------------------
(* What the reconciler reads.                                              *)

\* (Operators named X_Y are X with the mistake Y: see the README, "Mutants".)
TeardownCompleted_MissingIsPending(d) == IF d = Absent THEN FALSE ELSE d.completed

\* A missing Deployment counts as completed.
TeardownCompleted(d) == IF d = Absent THEN TRUE ELSE d.completed

KeepInstalled_OnlyWhileManaged(state, d) == state = "Managed"

\* keepMaaSInstalled: what initialize decides to render.
KeepInstalled(state, d) ==
  \/ state = "Managed"
  \/ state = "Removed" /\ ~TeardownCompleted(d)

Applied_LiveStamp(d, pass) ==
  [requested |-> pass.state = "Removed",
   completed |-> IF d = Absent THEN FALSE ELSE d.completed,
   legacy    |-> FALSE,
   stamp     |-> IF d = Absent THEN Absent ELSE d.stamp]

Applied_StampOnlyOnCreate(d, pass) ==
  [requested |-> pass.state = "Removed",
   completed |-> IF d = Absent THEN FALSE ELSE d.completed,
   legacy    |-> FALSE,
   stamp     |-> IF d = Absent THEN pass.gen ELSE d.stamp]

Applied_NeverRequests(d, pass) ==
  [requested |-> FALSE,
   completed |-> IF d = Absent THEN FALSE ELSE d.completed,
   legacy    |-> FALSE,
   stamp     |-> pass.gen]

\* The Deployment as rendered and annotated by a pass over an existing one.
\* The teardown request is operator-owned and follows the pass; the
\* completion annotation belongs to maas-controller and survives an apply.
Applied(d, pass) ==
  [requested |-> pass.state = "Removed",
   completed |-> IF d = Absent THEN FALSE ELSE d.completed,
   legacy    |-> FALSE,
   stamp     |-> pass.gen]

StampOf(o) == IF o = Controller
              THEN IF dep = Absent THEN Absent ELSE dep.stamp
              ELSE companions[o]

\* Objects of the bundle garbage collection lists: those this operator applied.
Collectable == {o \in Bundle : StampOf(o) \notin {Absent, 0}}

Deletable_GenerationOnly(o) == StampOf(o) # rr.gen

Deletable_DeploymentUnlabelled(o) ==
  StampOf(o) # rr.gen \/ (o # Controller /\ TeardownCompleted(cached))

\* maasAwareGCPredicate for an object of the bundle.
Deletable(o) == StampOf(o) # rr.gen \/ TeardownCompleted(cached)

(* overWriteCondition, with MaaS the only sub-module that may be Managed.  *)
(* Its two cached reads (completed?, still there?) agree with one read     *)
(* made at one of the two moments.                                         *)
Verdict(state, d) == CASE state = "Managed" -> "Generic"
                       [] state # "Managed" /\ d # Absent -> "MaaSRemovalInProgress"
                       [] OTHER -> "NoSubModuleManaged"

---------------------------------------------------------------------------
(* The API server and the informer.                                        *)

(* A write to the Deployment: the live object changes at once, the cache   *)
(* later; the informer never owes more than MaxLag versions.               *)
WriteDep(d) ==
  LET owed == Append(inFlight, d) IN
  /\ dep' = d
  /\ IF d = dep
     THEN UNCHANGED <<cached, inFlight, pending>>
     ELSE IF Len(owed) > MaxLag
     THEN /\ cached' = Head(owed)
          /\ inFlight' = Tail(owed)
          /\ pending' = TRUE
     ELSE /\ inFlight' = owed
          /\ UNCHANGED <<cached, pending>>

\* The informer delivers the next version; the watch enqueues the AIGateway.
Deliver ==
  /\ inFlight # <<>>
  /\ cached' = Head(inFlight)
  /\ inFlight' = Tail(inFlight)
  /\ pending' = TRUE
  /\ UNCHANGED <<specVars, dep, companions, infra, runtime, reason, faults, passVars>>

\* Writing companions enqueues the AIGateway when one of them changes.
WriteCompanions(c) ==
  /\ companions' = c
  /\ pending' = (pending \/ c # companions)

Init ==
  /\ managementState \in ManagementStates
  /\ generation = 1
  /\ \E legacy \in IF LegacyUpgrade THEN BOOLEAN ELSE {FALSE} :
       /\ dep = IF legacy THEN [requested |-> FALSE, completed |-> FALSE,
                                legacy |-> TRUE, stamp |-> 0]
                ELSE Absent
       /\ companions = [c \in Companions |-> IF legacy THEN 0 ELSE Absent]
       /\ runtime = legacy
  /\ cached = dep
  /\ inFlight = <<>>
  /\ infra = {}
  /\ pending = TRUE
  /\ reason = "none"
  /\ faults = 0
  /\ pc = "idle"
  /\ rr = NoPass

---------------------------------------------------------------------------
(* The user and maas-controller.                                           *)

RemovalFinished == dep = Absent /\ cached = Absent /\ pc = "idle"

(* Any edit of spec bumps the generation; the value may also stay as it is *)
(* (an edit of another field).                                             *)
UserEdits(s) ==
  /\ generation < MaxEdits
  /\ (s = "Managed" /\ managementState # "Managed") => EarlyReenable \/ RemovalFinished
  /\ managementState' = s
  /\ generation' = generation + 1
  /\ pending' = TRUE
  /\ UNCHANGED <<depVars, companions, infra, runtime, reason, faults, passVars>>

\* maas-controller runs only with its Deployment and the rest of its bundle.
ControllerRuns == dep # Absent /\ \A c \in Companions : companions[c] # Absent

ControllerBootstraps ==
  /\ ControllerRuns /\ ~dep.requested /\ ~runtime
  /\ runtime' = TRUE
  /\ UNCHANGED <<specVars, depVars, companions, infra, pending, reason, faults, passVars>>

ControllerCleansUp ==
  /\ ControllerRuns /\ dep.requested /\ runtime
  /\ runtime' = FALSE
  /\ UNCHANGED <<specVars, depVars, companions, infra, pending, reason, faults, passVars>>

ControllerReports ==
  /\ ControllerRuns /\ dep.requested /\ ~runtime /\ ~dep.completed
  /\ WriteDep([dep EXCEPT !.completed = TRUE])
  /\ UNCHANGED <<specVars, companions, infra, runtime, reason, faults, passVars>>

---------------------------------------------------------------------------
(* The reconcile pass.                                                     *)

\* The worker takes the key and reads the AIGateway object once.
Begin ==
  /\ pc = "idle" /\ pending
  /\ pending' = FALSE
  /\ rr' = [NoPass EXCEPT !.state = managementState, !.gen = generation]
  /\ pc' = "initialize"
  /\ UNCHANGED <<specVars, depVars, companions, infra, runtime, reason, faults>>

\* initialize, then rendering and annotation, which only work on rr.
Initialize ==
  /\ pc = "initialize"
  /\ rr' = [rr EXCEPT !.keep = KeepInstalled(rr.state, cached)]
  /\ pc' = "infra"
  /\ UNCHANGED <<specVars, depVars, companions, infra, runtime, pending, reason, faults>>

EnsuredInfra_NoWait ==
  CASE ~InfraSeparate -> infra
    [] InfraSeparate /\ rr.state = "Managed" -> InfraObjects
    [] InfraSeparate /\ rr.state = "Removed" -> {}
    [] OTHER -> infra

\* What ensureInfraSecretMigrationRBAC leaves when it succeeds.
EnsuredInfra ==
  CASE ~InfraSeparate -> infra
    [] InfraSeparate /\ rr.state = "Managed" -> InfraObjects
    [] InfraSeparate /\ rr.state = "Removed" /\ TeardownCompleted(cached) -> {}
    [] OTHER -> infra

EnsureInfraRBAC ==
  /\ pc = "infra"
  /\ infra' = EnsuredInfra
  /\ pc' = "migrate"
  /\ UNCHANGED <<specVars, depVars, companions, runtime, pending, reason, faults, rr>>

(* migrateSelector: delete a Deployment whose cached selector is the       *)
(* legacy one.  The preconditions (UID, resourceVersion) make the delete a *)
(* no-op unless the cached copy is the live object.                        *)
MigrateSelector ==
  /\ pc = "migrate"
  /\ pc' = "bundle"
  /\ IF cached # Absent /\ cached.legacy /\ inFlight = <<>>
     THEN WriteDep(Absent)
     ELSE UNCHANGED <<depVars, pending>>
  /\ UNCHANGED <<specVars, companions, infra, runtime, reason, faults, rr>>

\* deploy applies the Deployments last; before them, the rest of the bundle.
DeployBundle ==
  /\ pc = "bundle"
  /\ pc' = "controller"
  /\ WriteCompanions(IF rr.keep THEN [c \in Companions |-> rr.gen] ELSE companions)
  /\ UNCHANGED <<specVars, depVars, infra, runtime, reason, faults, rr>>

SelectorImmutable == dep # Absent /\ dep.legacy

DeployController ==
  /\ pc = "controller"
  /\ ~(rr.keep /\ SelectorImmutable)
  /\ pc' = "status"
  /\ IF rr.keep THEN WriteDep(Applied(dep, rr)) ELSE UNCHANGED <<depVars, pending>>
  /\ UNCHANGED <<specVars, companions, infra, runtime, reason, faults, rr>>

OverWriteCondition ==
  /\ pc = "status"
  /\ pc' = "gc"
  /\ rr' = [rr EXCEPT !.verdict = Verdict(rr.state, cached), !.sweep = Collectable]
  /\ UNCHANGED <<specVars, depVars, companions, infra, runtime, pending, reason, faults>>

\* gc visits the objects it listed in some order, reading the cache for each.  It is
\* assumed to do so in every pass, one after a failed sweep included: if the
\* framework skips it, because nothing was rendered anew, less is deleted, and what
\* rests on a deletion (SettledMatchesSpec, RemovedEventuallyGone,
\* TeardownSeenThrough) is not promised.
Collect(o) ==
  /\ pc = "gc" /\ o \in rr.sweep
  /\ rr' = [rr EXCEPT !.sweep = @ \ {o}]
  /\ IF StampOf(o) # Absent /\ Deletable(o)
     THEN IF o = Controller
          THEN WriteDep(Absent) /\ UNCHANGED companions
          ELSE WriteCompanions([companions EXCEPT ![o] = Absent]) /\ UNCHANGED depVars
     ELSE UNCHANGED <<depVars, companions, pending>>
  /\ UNCHANGED <<specVars, infra, runtime, reason, faults, pc>>

\* The status of the pass is patched at its end, whether it succeeded or not.
PatchStatus == reason' = IF rr.verdict = "none" THEN reason ELSE rr.verdict

EndPass ==
  /\ pc = "gc" /\ rr.sweep = {}
  /\ PatchStatus
  /\ pc' = "idle" /\ rr' = NoPass
  /\ UNCHANGED <<specVars, depVars, companions, infra, runtime, pending, faults>>

---------------------------------------------------------------------------
(* Failed passes, swallowed conflicts and crashes.                         *)

\* An action returned an error: the rest is skipped and the key requeued.
Abort ==
  /\ PatchStatus
  /\ pending' = TRUE
  /\ pc' = "idle" /\ rr' = NoPass

\* Applying a changed selector is refused on every attempt.
DeployControllerRefused ==
  /\ pc = "controller" /\ rr.keep /\ SelectorImmutable
  /\ Abort
  /\ UNCHANGED <<specVars, depVars, companions, infra, runtime, faults>>

\* The pass has deleted a Deployment for its selector and is about to apply it anew.
Recreating == dep = Absent /\ runtime /\ rr.keep /\ pc \in {"bundle", "controller"}

Fault ==
  /\ faults < MaxFaults /\ faults' = faults + 1
  /\ Recreating => RecreationMayFail

(* Another writer (the Deployment controller, updating the status) gets in *)
(* between the read and the delete: the conflict is swallowed, and this    *)
(* pass goes on with the legacy selector still in place.                   *)
MigrateSelectorConflicts ==
  /\ Fault /\ pc = "migrate" /\ cached # Absent /\ cached.legacy
  /\ pc' = "bundle"
  /\ UNCHANGED <<specVars, depVars, companions, infra, runtime, pending, reason, rr>>

\* An action fails before any write of its own.
PassFails ==
  /\ Fault /\ pc # "idle"
  /\ Abort
  /\ UNCHANGED <<specVars, depVars, companions, infra, runtime>>

\* The Role is always written or deleted before the RoleBinding.
EnsureInfraFailsHalfway ==
  /\ Fault /\ pc = "infra"
  /\ infra' = (infra \ {"Role"}) \cup (EnsuredInfra \cap {"Role"})
  /\ Abort
  /\ UNCHANGED <<specVars, depVars, companions, runtime>>

DeployBundleFailsHalfway(applied) ==
  /\ Fault /\ pc = "bundle" /\ rr.keep
  /\ companions' = [c \in Companions |-> IF c \in applied THEN rr.gen ELSE companions[c]]
  /\ Abort
  /\ UNCHANGED <<specVars, depVars, infra, runtime>>

\* A restart loses the pass and its conditions, and lists everything afresh.
Crash ==
  /\ Fault
  /\ pending' = TRUE
  /\ cached' = dep /\ inFlight' = <<>>
  /\ pc' = "idle" /\ rr' = NoPass
  /\ UNCHANGED <<specVars, dep, companions, infra, runtime, reason>>

---------------------------------------------------------------------------
PassStep ==
  \/ Begin \/ Initialize \/ EnsureInfraRBAC \/ MigrateSelector
  \/ DeployBundle \/ DeployController \/ DeployControllerRefused
  \/ OverWriteCondition \/ (\E o \in Bundle : Collect(o)) \/ EndPass

ControllerStep == ControllerBootstraps \/ ControllerCleansUp \/ ControllerReports

FaultStep ==
  \/ PassFails \/ EnsureInfraFailsHalfway \/ MigrateSelectorConflicts \/ Crash
  \/ \E applied \in SUBSET Companions : DeployBundleFailsHalfway(applied)

Next ==
  \/ \E s \in ManagementStates : UserEdits(s)
  \/ PassStep \/ ControllerStep \/ FaultStep \/ Deliver

Spec == Init /\ [][Next]_vars

(* The worker keeps running while its queue is not empty, the informer     *)
(* delivers what it owes, and maas-controller acts on what it sees.        *)
(* Nothing ties watch latency to the passes, so the cache does not stay    *)
(* behind between deploy and gc in every pass for ever.                    *)
TimelyInformer == []<>(pc = "status") => []<>(pc = "status" /\ inFlight = <<>>)

Fairness == /\ WF_vars(PassStep) /\ WF_vars(Deliver) /\ WF_vars(ControllerStep)
            /\ TimelyInformer

FairSpec == Spec /\ Fairness

---------------------------------------------------------------------------
(* The abstract handshake this module implements.                          *)

\* A Deployment deleted for its selector is still serving: what it created is there.
Stage == IF dep = Absent THEN IF Recreating THEN "serving" ELSE "absent"
         ELSE IF dep.completed THEN "reported"
         ELSE IF dep.requested THEN "asked" ELSE "serving"

Handshake == INSTANCE TeardownHandshake WITH stage <- Stage, runtime <- runtime

---------------------------------------------------------------------------
(* Properties.                                                             *)

\* Every variable stays in its range (the shape of the objects the
\* reconciler and the API server exchange).
TypeOK ==
  /\ managementState \in ManagementStates
  /\ generation \in Generations
  /\ dep \in DeploymentStates \cup {Absent}
  /\ cached \in DeploymentStates \cup {Absent}
  /\ inFlight \in Seq(DeploymentStates \cup {Absent})
  /\ companions \in [Companions -> Stamps \cup {Absent}]
  /\ infra \subseteq InfraObjects
  /\ runtime \in BOOLEAN
  /\ pending \in BOOLEAN
  /\ reason \in Reasons
  /\ faults \in 0..MaxFaults
  /\ pc \in Labels
  /\ rr \in [state: ManagementStates \cup {""}, gen: Stamps, keep: BOOLEAN,
             verdict: Reasons, sweep: SUBSET Bundle]

(* maas-controller is never gone while what it created is still there,     *)
(* except inside a pass that is about to recreate it with a new selector:  *)
(* "AI Gateway keeps maas-controller installed until it reports [...] that *)
(* it has finished its own self-teardown" (shouldKeepMaaSInstalled).       *)
NoOrphanedRuntime ==
  runtime => dep # Absent \/ Recreating

(* Garbage collection at the end of a pass that saw Managed removes        *)
(* nothing of the bundle that pass has just applied (maasAwareGCPredicate, *)
(* which looks at the completion annotation and never at the spec).        *)
ManagedNeverCollected ==
  [][rr.state = "Managed" /\ pc = "gc" =>
       /\ companions' = companions
       /\ dep # Absent => dep' # Absent]_vars

(* The rights maas-controller needs in the infrastructure namespace are    *)
(* not withdrawn before its cleanup is over (ensureInfraSecretMigrationRBAC *)
(* waits for the completion annotation).                                   *)
InfraHeldUntilTornDown ==
  [][("Role" \in infra /\ "Role" \notin infra') => ~runtime]_vars

(* A pass that saw Removed never brings a missing maas-controller back: a  *)
(* missing Deployment is a finished teardown, not one to restart           *)
(* (maasTeardownCompleted), but for the one a pass has itself deleted for  *)
(* its selector.                                                           *)
RemovedNeverReinstalls ==
  [][rr.state = "Removed" /\ dep = Absent /\ ~Recreating => dep' = Absent]_vars

(* Asked, cleaned up, reported, removed, in this order: the passes of the   *)
(* reconciler and the steps of maas-controller implement the abstract      *)
(* teardown handshake (shouldKeepMaaSInstalled, maasAwareGCPredicate).     *)
ImplementsHandshake == Handshake!Spec

(* And to the end: a teardown that was asked for is cleaned up after,      *)
(* reported and removed, through failed passes and crashes.                *)
TeardownSeenThrough == Handshake!Fairness

---------------------------------------------------------------------------
Quiet == pc = "idle" /\ ~pending /\ inFlight = <<>>

InstalledAtGeneration ==
  /\ dep # Absent /\ ~dep.requested /\ dep.stamp = generation
  /\ \A c \in Companions : companions[c] = generation
  /\ InfraSeparate => infra = InfraObjects

TeardownAwaited ==
  /\ dep # Absent /\ dep.requested /\ ~dep.completed
  /\ \A c \in Companions : companions[c] = generation
  /\ reason = "MaaSRemovalInProgress"

Uninstalled ==
  /\ dep = Absent /\ Collectable = {} /\ infra = {}
  /\ reason = "NoSubModuleManaged"

(* When the work queue is empty and the informer has delivered everything, *)
(* the cluster is what the spec asks for: no event the operator needs to   *)
(* act on is ever missed, whatever failed or raced before.                 *)
SettledMatchesSpec ==
  Quiet => /\ managementState = "Managed" => InstalledAtGeneration
           /\ managementState = "Removed" => TeardownAwaited \/ Uninstalled
           /\ managementState = "" => Collectable = {}

(* A removal the user does not take back ends with nothing installed and   *)
(* the NoSubModuleManaged reason, through failed passes, crashes and a     *)
(* lagging cache.                                                          *)
RemovedEventuallyGone ==
  <>[](managementState = "Removed") => <>[]Uninstalled

(* MaaS that stays Managed ends up installed and running, even when        *)
(* garbage collection took the bundle of a sub-module just re-enabled.     *)
ManagedEventuallyInstalled ==
  <>[](managementState = "Managed") =>
    <>[](InstalledAtGeneration /\ runtime /\ reason = "Generic")

(* A removal the user does not take back also cleans up what               *)
(* maas-controller had created.                                            *)
RuntimeEventuallyCleaned ==
  <>[](managementState = "Removed") => <>[]~runtime
=============================================================================
