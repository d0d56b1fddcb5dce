-------------------------- MODULE StatusConditions --------------------------
(***************************************************************************)
(* What the AIGateway's conditions say about its sub-modules, derived in   *)
(* the second half of a reconcile pass from Deployments, the MaaS operand  *)
(* Config/default and the AI Grid CRDs, each read at a moment of its own   *)
(* while all of them change.                                               *)
(*                                                                         *)
(* How MaaS is kept until its teardown is complete is the subject of       *)
(* MaaSLifecycle; here the decision is taken at once with the apply.       *)
(***************************************************************************)
EXTENDS Naturals

CONSTANTS
  Toggled,     \* sub-modules the user switches; the others stay Removed
  GridCRDs,    \* the AI Grid CRDs
  Operands,    \* contents Config/default may have
  MaxEdits,    \* bound: edits of the spec
  MaxChanges,  \* bound: changes of Deployments and of Config/default
  MaxFaults    \* bound: failed passes and restarts

SubModules  == {"maas", "batch", "grid"}
Deployments == {"maas-controller", "ai-gateway-controller", "batch-gateway-operator",
                "grid-operator"}

\* Deployments of a sub-module, and those in the applications namespace.
Deploys == [maas  |-> {"maas-controller", "ai-gateway-controller"},
            batch |-> {"batch-gateway-operator"},
            grid  |-> {"grid-operator"}]
InApplicationsNs == Deploys.maas \cup Deploys.batch

\* No ready replica, some, or all of them.
Levels == {"absent", "down", "partial", "full"}

\* Config/default: its conditions Ready ("False": anything but True) and
\* TenantsHealthy (its reason, which says whether it is True).
Missing   == [ready |-> "missing", tenants |-> "missing"]
Unhealthy == {"TenantsDegraded", "TenantsBlocked"}
Healthy   == {"AllTenantsHealthy", "NoTenantsFound"}
AllOperands == {Missing} \cup
  [ready: {"unset", "True", "False"}, tenants: {"unset"} \cup Healthy \cup Unhealthy]

ASSUME TogglesOK  == Toggled \subseteq SubModules
ASSUME OperandsOK == Missing \in Operands /\ Operands \subseteq AllOperands
ASSUME BoundsOK   == MaxEdits \in Nat /\ MaxChanges \in Nat /\ MaxFaults \in Nat
ASSUME CRDsOK     == GridCRDs # {} /\ GridCRDs \cap Deployments = {}

VARIABLES
  spec,      \* managementState of each sub-module
  level,     \* readiness of each Deployment
  teardown,  \* annotations of maas-controller: "none", "requested", "completed"
  config,    \* Config/default
  crds,      \* each AI Grid CRD: "absent", "applied" or "established"
  conds,     \* the conditions in the API server
  pending,   \* is the AIGateway key in the work queue?
  edits, changes, faults,   \* counters of the bounded events
  pc, rr     \* the action about to run, and the ReconciliationRequest

world  == <<spec, level, teardown, config, crds>>
counts == <<edits, changes, faults>>
vars   == <<spec, level, teardown, config, crds, conds, pending, edits, changes,
            faults, pc, rr>>

\* Conditions: one per sub-module, the tenants' and DeploymentsAvailable.
Conditions == SubModules \cup {"tenants", "deployments"}
Labels == {"idle", "deploy", "deployments", "maas", "gateway", "config", "tenants",
           "batch", "grid", "gridOperator", "overwrite", "gridOnly", "gc", "patch"}

Reasons == {"unset", "Ready", "NotReady", "Removed", "available", "unavailable",
            "MaaSRemovalInProgress", "NoSubModuleManaged"} \cup Healthy \cup Unhealthy

True(r)  == [holds |-> TRUE,  severity |-> "Error", reason |-> r]
False(r) == [holds |-> FALSE, severity |-> "Error", reason |-> r]
Info(r)  == [holds |-> FALSE, severity |-> "Info",  reason |-> r]
Unset    == False("unset")

ConditionValues == UNION {{True(r), False(r), Info(r)} : r \in Reasons}

NoPass == [spec |-> [m \in SubModules |-> "Removed"], applied |-> {},
           conds |-> [c \in Conditions |-> Unset], ready |-> FALSE, failed |-> FALSE]

---------------------------------------------------------------------------
(* The cluster around the operator.  Every change of an object the         *)
(* reconciler owns or watches enqueues the AIGateway.                      *)

Enqueue_NotForCRDs(kind) == pending' = (pending \/ kind # "CustomResourceDefinition")

Enqueue_NotForConfig(kind) == pending' = (pending \/ kind # "Config")

Enqueue(kind) == pending' = TRUE

Init ==
  /\ spec = [m \in SubModules |-> "Removed"]
  /\ level = [d \in Deployments |-> "absent"]
  /\ teardown = "none"
  /\ config = Missing
  /\ crds = [c \in GridCRDs |-> "absent"]
  /\ conds = [c \in Conditions |-> Unset]
  /\ pending = TRUE
  /\ edits = 0 /\ changes = 0 /\ faults = 0
  /\ pc = "idle" /\ rr = NoPass

UserSets(m, state) ==
  /\ edits < MaxEdits /\ edits' = edits + 1
  /\ state # spec[m]
  /\ spec' = [spec EXCEPT ![m] = state]
  /\ Enqueue("AIGateway")
  /\ UNCHANGED <<level, teardown, config, crds, conds, changes, faults, pc, rr>>

Change == changes < MaxChanges /\ changes' = changes + 1

PodsChange(d, l) ==
  /\ Change
  /\ level[d] # "absent" /\ l \notin {"absent", level[d]}
  /\ level' = [level EXCEPT ![d] = l]
  /\ Enqueue("Deployment")
  /\ UNCHANGED <<spec, teardown, config, crds, conds, edits, faults, pc, rr>>

ConfigChanges(c) ==
  /\ Change
  /\ c # config /\ (c # Missing => level["maas-controller"] # "absent")
  /\ config' = c
  /\ Enqueue("Config")
  /\ UNCHANGED <<spec, level, teardown, crds, conds, edits, faults, pc, rr>>

CRDEstablished(c) ==
  /\ crds[c] = "applied"
  /\ crds' = [crds EXCEPT ![c] = "established"]
  /\ Enqueue("CustomResourceDefinition")
  /\ UNCHANGED <<spec, level, teardown, config, conds, counts, pc, rr>>

MaaSReportsTeardown ==
  /\ teardown = "requested"
  /\ teardown' = "completed"
  /\ Enqueue("Deployment")
  /\ UNCHANGED <<spec, level, config, crds, conds, counts, pc, rr>>

---------------------------------------------------------------------------
(* What the pass reads.                                                    *)

\* deploymentAvailable: at least one ready replica.
Available(d) == level[d] \in {"partial", "full"}

\* maasConfigReady: only an explicit Ready=False counts against MaaS.
ConfigReady == config.ready # "False"

CRDsEstablished == \A c \in GridCRDs : crds[c] = "established"

AnyManaged(s) == \E m \in SubModules : s[m] = "Managed"

GridOnly(s) == s.grid = "Managed" /\ s.maas # "Managed" /\ s.batch # "Managed"

Counted == {d \in InApplicationsNs : level[d] # "absent"}

\* The deployments action: every Deployment it lists is fully ready, and it
\* lists at least one.
Generic == IF Counted # {} /\ \A d \in Counted : level[d] = "full"
           THEN True("available") ELSE False("unavailable")

MaaSRemovalPending == level["maas-controller"] # "absent"

Ready(holds) == IF holds THEN True("Ready") ELSE False("NotReady")

TenantsCondition(s) ==
  CASE s.maas # "Managed" -> Info("Removed")
    [] s.maas = "Managed" /\ config.tenants \in Unhealthy -> False(config.tenants)
    [] s.maas = "Managed" /\ config.tenants \in Healthy -> True(config.tenants)
    [] OTHER -> True("AllTenantsHealthy")

BatchCondition(s) ==
  IF s.batch = "Managed" THEN Ready(Available("batch-gateway-operator"))
  ELSE Info("Removed")

---------------------------------------------------------------------------
(* The pass.                                                               *)

Begin ==
  /\ pc = "idle" /\ pending
  /\ pending' = FALSE
  /\ rr' = [NoPass EXCEPT !.spec = spec, !.conds = conds]
  /\ pc' = "deploy"
  /\ UNCHANGED <<world, conds, counts>>

\* Sub-modules a pass renders: the Managed ones, and MaaS while it tears down.
Rendered == {m \in SubModules : rr.spec[m] = "Managed"}
            \cup (IF level["maas-controller"] # "absent" /\ teardown # "completed"
                  THEN {"maas"} ELSE {})

Deploy ==
  LET applied == (UNION {Deploys[m] : m \in Rendered})
                 \cup (IF "grid" \in Rendered THEN GridCRDs ELSE {})
      created == {d \in applied \cap Deployments : level[d] = "absent"} IN
  /\ pc = "deploy" /\ pc' = "deployments"
  /\ rr' = [rr EXCEPT !.applied = applied]
  /\ level' = [d \in Deployments |-> IF d \in created THEN "down" ELSE level[d]]
  /\ crds' = [c \in GridCRDs |->
                IF c \in applied /\ crds[c] = "absent" THEN "applied" ELSE crds[c]]
  /\ teardown' = CASE "maas" \notin Rendered \/ teardown = "completed" -> teardown
                   [] rr.spec.maas = "Removed" -> "requested"
                   [] OTHER -> "none"
  /\ IF <<level, crds, teardown>>' = <<level, crds, teardown>>
     THEN UNCHANGED pending ELSE Enqueue("Deployment")
  /\ UNCHANGED <<spec, config, conds, counts>>

\* The last read for a condition sets it and hands over to the next.
Sets(label, c, cond, next) ==
  /\ pc = label /\ pc' = next
  /\ rr' = [rr EXCEPT !.conds[c] = cond, !.ready = FALSE]
  /\ UNCHANGED <<world, conds, pending, counts>>

\* One read of several for the same condition keeps what it has seen.
Reads(label, ready, next) ==
  /\ pc = label /\ pc' = next
  /\ rr' = [rr EXCEPT !.ready = ready]
  /\ UNCHANGED <<world, conds, pending, counts>>

DeploymentsAction == Sets("deployments", "deployments", Generic, "maas")

\* ModelsAsAServiceReady: two Deployments, and Config/default if both are ready.
ReportMaaS ==
  IF rr.spec.maas = "Managed" THEN Reads("maas", Available("maas-controller"), "gateway")
  ELSE Sets("maas", "maas", Info("Removed"), "tenants")

ReportMaaSGateway ==
  IF rr.ready /\ Available("ai-gateway-controller") THEN Reads("gateway", TRUE, "config")
  ELSE Sets("gateway", "maas", Ready(FALSE), "tenants")

ReportMaaSConfig == Sets("config", "maas", Ready(ConfigReady), "tenants")

ReportTenants == Sets("tenants", "tenants", TenantsCondition(rr.spec), "batch")
ReportBatch   == Sets("batch", "batch", BatchCondition(rr.spec), "grid")

\* AIGridReady: the CRDs, then the operator's Deployment.
ReportGrid ==
  IF rr.spec.grid = "Managed" THEN Reads("grid", CRDsEstablished, "gridOperator")
  ELSE Sets("grid", "grid", Info("Removed"), "overwrite")

ReportGridOperator ==
  Sets("gridOperator", "grid", Ready(rr.ready /\ Available("grid-operator")), "overwrite")

NothingManaged_OnlyDowngrades == [rr.conds["deployments"] EXCEPT !.severity = "Info"]

NothingManaged == Info(IF MaaSRemovalPending THEN "MaaSRemovalInProgress"
                       ELSE "NoSubModuleManaged")

OverwriteNext_IgnoresCounted == IF GridOnly(rr.spec) THEN "gridOnly" ELSE "gc"

\* A generic result that counted nothing is replaced, one that found something
\* unavailable is kept.
OverwriteNext ==
  IF GridOnly(rr.spec) /\ (Counted = {} \/ rr.conds["deployments"].holds)
  THEN "gridOnly" ELSE "gc"

OverWriteCondition ==
  Sets("overwrite", "deployments",
       IF AnyManaged(rr.spec) THEN rr.conds["deployments"] ELSE NothingManaged,
       OverwriteNext)

GridOnlyDeploymentsAvailable ==
  Sets("gridOnly", "deployments",
       IF Available("grid-operator") THEN True("available") ELSE False("NotReady"), "gc")

Objects == Deployments \cup GridCRDs

Stale_CRDsToo(o) == o \notin rr.applied

\* What this pass did not apply is stale, but a grid CRD is never let go.
Stale(o) == o \notin GridCRDs /\ o \notin rr.applied

\* maasAwareGCPredicate
Deletable(o) == Stale(o) \/ (o \in Deploys.maas /\ teardown = "completed")

Collect ==
  LET gone == {o \in Objects : Deletable(o)}
      deps == {d \in gone \cap Deployments : level[d] # "absent"} IN
  /\ pc = "gc" /\ pc' = "patch"
  /\ level' = [d \in Deployments |-> IF d \in deps THEN "absent" ELSE level[d]]
  /\ teardown' = IF "maas-controller" \in deps THEN "none" ELSE teardown
  /\ crds' = [c \in GridCRDs |-> IF c \in gone THEN "absent" ELSE crds[c]]
  /\ IF deps # {} THEN Enqueue("Deployment") ELSE UNCHANGED pending
  /\ UNCHANGED <<spec, config, conds, counts, rr>>

Patch ==
  /\ pc = "patch" /\ pc' = "idle"
  /\ conds' = rr.conds
  /\ pending' = (pending \/ rr.failed)
  /\ rr' = NoPass
  /\ UNCHANGED <<world, counts>>

Fault == faults < MaxFaults /\ faults' = faults + 1

\* An action fails: the conditions set so far are patched, the key requeued.
PassFails ==
  /\ Fault /\ pc \notin {"idle", "patch"}
  /\ pc' = "patch"
  /\ rr' = [rr EXCEPT !.failed = TRUE]
  /\ UNCHANGED <<world, conds, pending, edits, changes>>

Restart ==
  /\ Fault
  /\ pending' = TRUE
  /\ pc' = "idle" /\ rr' = NoPass
  /\ UNCHANGED <<world, conds, edits, changes>>

ClusterStep ==
  \/ \E m \in Toggled, s \in {"Managed", "Removed"} : UserSets(m, s)
  \/ \E d \in Deployments, l \in Levels : PodsChange(d, l)
  \/ \E c \in Operands : ConfigChanges(c)
  \/ \E c \in GridCRDs : CRDEstablished(c)
  \/ MaaSReportsTeardown

PassStep ==
  \/ Begin \/ Deploy \/ DeploymentsAction
  \/ ReportMaaS \/ ReportMaaSGateway \/ ReportMaaSConfig \/ ReportTenants
  \/ ReportBatch \/ ReportGrid \/ ReportGridOperator
  \/ OverWriteCondition \/ GridOnlyDeploymentsAvailable \/ Collect \/ Patch

Next == ClusterStep \/ PassStep \/ PassFails \/ Restart

Spec == Init /\ [][Next]_vars

\* The worker runs while its queue is not empty.
FairSpec == Spec /\ WF_vars(PassStep)

---------------------------------------------------------------------------
(* Properties.                                                             *)

\* Every variable stays in its range; a condition that holds is never of
\* severity Info (MarkTrue, MarkFalse with WithSeverity).
TypeOK ==
  /\ spec \in [SubModules -> {"Managed", "Removed"}]
  /\ level \in [Deployments -> Levels]
  /\ teardown \in {"none", "requested", "completed"}
  /\ config \in AllOperands
  /\ crds \in [GridCRDs -> {"absent", "applied", "established"}]
  /\ conds \in [Conditions -> ConditionValues]
  /\ pending \in BOOLEAN /\ pc \in Labels
  /\ edits \in 0..MaxEdits /\ changes \in 0..MaxChanges /\ faults \in 0..MaxFaults
  /\ rr \in [spec: [SubModules -> {"Managed", "Removed"}], applied: SUBSET Objects,
             conds: [Conditions -> ConditionValues], ready: BOOLEAN, failed: BOOLEAN]

Quiet == pc = "idle" /\ ~pending

\* A Managed sub-module whose every part is there.
Serving(m) ==
  /\ spec[m] = "Managed"
  /\ \A d \in Deploys[m] : level[d] \in {"partial", "full"}
  /\ m = "maas" => config.ready # "False"
  /\ m = "grid" => \A c \in GridCRDs : crds[c] = "established"

(* Conditions "let the Dashboard (and any other consumer) observe each     *)
(* sub-module independently" (status.go): with nothing left to do, each    *)
(* says Ready exactly when all of its own parts are, whichever of them     *)
(* changed last, and Info exactly when the sub-module is Removed; the      *)
(* tenants' says what Config/default says.                                 *)
SettledSubModules ==
  Quiet =>
    /\ \A m \in SubModules : /\ conds[m].holds <=> Serving(m)
                             /\ conds[m].severity = "Info" <=> spec[m] = "Removed"
    /\ spec.maas = "Managed" =>
         /\ conds["tenants"].holds <=> config.tenants \notin Unhealthy
         /\ config.tenants \in Healthy \cup Unhealthy => conds["tenants"].reason = config.tenants

(* With nothing left to do, DeploymentsAvailable says Info while no        *)
(* sub-module is Managed, with the right reason, and otherwise holds       *)
(* exactly when the Deployments it is about are ready, whichever of the    *)
(* three reads it rests on was made last (overWriteCondition).             *)
SettledAvailability ==
  Quiet =>
    IF \A m \in SubModules : spec[m] = "Removed"
    THEN /\ conds["deployments"].severity = "Info"
         /\ conds["deployments"].reason = "MaaSRemovalInProgress"
              <=> level["maas-controller"] # "absent"
    ELSE /\ conds["deployments"].severity = "Error"
         /\ conds["deployments"].holds <=>
              /\ \A d \in InApplicationsNs : level[d] \in {"absent", "full"}
              /\ IF GridOnly(spec) THEN level["grid-operator"] \in {"partial", "full"}
                 ELSE \E d \in InApplicationsNs : level[d] # "absent"

(* "Never GC grid CRDs: deleting one cascades to every grid custom         *)
(* resource" (maasAwareGCPredicate): however the grid is toggled.          *)
GridCRDsKept ==
  [][\A c \in GridCRDs : crds[c] # "absent" => crds'[c] # "absent"]_vars

(* A sub-module that stays as it is ends up with the condition that says   *)
(* so, whatever failed or changed before (the watches of NewReconciler).   *)
ConditionsConverge ==
  \A m \in SubModules : /\ <>[]Serving(m) => <>[]conds[m].holds
                        /\ <>[]~Serving(m) => <>[]~conds[m].holds

(* "sets DeploymentsAvailable=True on the AIGateway CR only when every     *)
(* managed sub-component Deployment reports all replicas ready"            *)
(* (docs/architecture.md).                                                 *)
AvailableMeansAllReady ==
  Quiet /\ conds["deployments"].holds =>
    \A m \in SubModules : spec[m] = "Managed" => \A d \in Deploys[m] : level[d] = "full"
=============================================================================
