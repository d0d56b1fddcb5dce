----------------------- MODULE StatusConditions_proofs -----------------------
(***************************************************************************)
(* Proofs about StatusConditions, for every set of grid CRDs, any contents *)
(* of Config/default and all bounds.                                       *)
(***************************************************************************)
EXTENDS StatusConditions, TLAPS

---------------------------------------------------------------------------
(* Type correctness.                                                       *)

SpecValues == [SubModules -> {"Managed", "Removed"}]

Passes == [spec: SpecValues, applied: SUBSET Objects,
           conds: [Conditions -> ConditionValues], ready: BOOLEAN, failed: BOOLEAN]

\* What the three reads for MaaS, and the two for the grid, say when made at once.
MaaSCondition(s) ==
  IF s.maas = "Managed"
  THEN Ready((\A d \in Deploys.maas : Available(d)) /\ ConfigReady)
  ELSE Info("Removed")

GridCondition(s) ==
  IF s.grid = "Managed" THEN Ready(CRDsEstablished /\ Available("grid-operator"))
  ELSE Info("Removed")

\* The reasons the operator uses give values a condition may have.
LEMMA ValuesTyped ==
  ASSUME NEW r \in Reasons
  PROVE  True(r) \in ConditionValues /\ False(r) \in ConditionValues /\ Info(r) \in ConditionValues
BY DEF ConditionValues

\* Whatever the operator concludes from the cluster is a condition's value.
LEMMA ConclusionsTyped ==
  ASSUME NEW s \in SpecValues
  PROVE  /\ Generic \in ConditionValues
         /\ TenantsCondition(s) \in ConditionValues
         /\ BatchCondition(s) \in ConditionValues
         /\ \A holds \in BOOLEAN : Ready(holds) \in ConditionValues
         /\ Info("Removed") \in ConditionValues
         /\ NothingManaged \in ConditionValues
<1> USE ValuesTyped
<1> HIDE DEF ConditionValues
<1>1. Generic \in ConditionValues
  BY DEF Generic, Reasons
<1>2. \A holds \in BOOLEAN : Ready(holds) \in ConditionValues
  BY DEF Ready, Reasons
<1>3. BatchCondition(s) \in ConditionValues
  BY DEF BatchCondition, Ready, Reasons
<1>4. Info("Removed") \in ConditionValues
  BY DEF Reasons
<1>5. NothingManaged \in ConditionValues
  BY DEF NothingManaged, Reasons
<1>6. TenantsCondition(s) \in ConditionValues
  <2>1. Unhealthy \subseteq Reasons /\ Healthy \subseteq Reasons
    BY DEF Reasons
  <2>2. "Removed" \in Reasons /\ "AllTenantsHealthy" \in Reasons
    BY DEF Reasons, Healthy
  <2>3. CASE s.maas # "Managed"
    BY <2>2, <2>3 DEF TenantsCondition
  <2>4. CASE s.maas = "Managed" /\ config.tenants \in Unhealthy
    BY <2>1, <2>4 DEF TenantsCondition, Unhealthy, Healthy
  <2>5. CASE s.maas = "Managed" /\ config.tenants \in Healthy
    BY <2>1, <2>5 DEF TenantsCondition, Unhealthy, Healthy
  <2>6. CASE s.maas = "Managed" /\ config.tenants \notin Healthy \cup Unhealthy
    BY <2>2, <2>6 DEF TenantsCondition
  <2> QED
    BY <2>3, <2>4, <2>5, <2>6
<1> QED
  BY <1>1, <1>2, <1>3, <1>4, <1>5, <1>6

LEMMA NoPassTyped == NoPass \in Passes
<1>1. Unset \in ConditionValues
  BY ValuesTyped DEF Unset, Reasons
<1> QED
  BY <1>1 DEF NoPass, Passes, SpecValues

\* An action that sets a condition keeps the pass well typed.
LEMMA SetsTyped ==
  ASSUME TypeOK, NEW label, NEW c \in Conditions, NEW cond \in ConditionValues,
         NEW next \in Labels, Sets(label, c, cond, next)
  PROVE  TypeOK'
<1>1. rr \in Passes
  BY DEF TypeOK, Passes, SpecValues
<1>2. rr' \in Passes
  BY <1>1 DEF Sets, Passes
<1> QED
  BY <1>2 DEF Sets, TypeOK, Passes, SpecValues, world, counts

LEMMA ReadsTyped ==
  ASSUME TypeOK, NEW label, NEW ready \in BOOLEAN, NEW next \in Labels,
         Reads(label, ready, next)
  PROVE  TypeOK'
<1>1. rr \in Passes
  BY DEF TypeOK, Passes, SpecValues
<1>2. rr' \in Passes
  BY <1>1 DEF Reads, Passes
<1> QED
  BY <1>2 DEF Reads, TypeOK, Passes, SpecValues, world, counts

\* Every initial state is well typed.
LEMMA InitTyped == Init => TypeOK
<1> SUFFICES ASSUME Init PROVE TypeOK
  OBVIOUS
<1>1. Unset \in ConditionValues
  BY ValuesTyped DEF Unset, Reasons
<1>2. Missing \in AllOperands
  BY DEF AllOperands
<1>3. rr \in Passes
  BY NoPassTyped DEF Init
<1>4. spec \in SpecValues
  BY DEF Init, SpecValues
<1> QED
  BY <1>1, <1>2, <1>3, <1>4, BoundsOK DEF Init, TypeOK, Passes, SpecValues, Levels, Labels

\* Every step keeps the state well typed.
LEMMA StepTyped == TypeOK /\ [Next]_vars => TypeOK'
<1> SUFFICES ASSUME TypeOK, [Next]_vars PROVE TypeOK'
  OBVIOUS
<1> USE DEF world, counts
<1>a. rr \in Passes /\ spec \in SpecValues
  BY DEF TypeOK, Passes, SpecValues
<1>b. rr.spec \in SpecValues /\ rr.conds \in [Conditions -> ConditionValues]
  BY <1>a DEF Passes
<1>c. Change => changes' \in 0..MaxChanges
  BY BoundsOK DEF TypeOK, Change
<1>d. Fault => faults' \in 0..MaxFaults
  BY BoundsOK DEF TypeOK, Fault
<1>e. "deployments" \in Conditions /\ SubModules \subseteq Conditions /\ "tenants" \in Conditions
  BY DEF Conditions
<1>1. ASSUME NEW m \in Toggled, NEW s \in {"Managed", "Removed"}, UserSets(m, s) PROVE TypeOK'
  <2>1. edits' \in 0..MaxEdits
    BY <1>1, BoundsOK DEF UserSets, TypeOK
  <2>2. spec' \in SpecValues
    BY <1>1, <1>a DEF UserSets, SpecValues
  <2> QED
    BY <1>1, <2>1, <2>2 DEF UserSets, TypeOK, SpecValues, Enqueue
<1>2. ASSUME NEW d \in Deployments, NEW l \in Levels, PodsChange(d, l) PROVE TypeOK'
  BY <1>2, <1>c DEF PodsChange, TypeOK, Enqueue
<1>3. ASSUME NEW c \in Operands, ConfigChanges(c) PROVE TypeOK'
  <2>1. config' \in AllOperands
    BY <1>3, OperandsOK DEF ConfigChanges
  <2> QED
    BY <1>3, <2>1, <1>c DEF ConfigChanges, TypeOK, Enqueue
<1>4. ASSUME NEW c \in GridCRDs, CRDEstablished(c) PROVE TypeOK'
  BY <1>4 DEF CRDEstablished, TypeOK, Enqueue
<1>5. CASE MaaSReportsTeardown
  BY <1>5 DEF MaaSReportsTeardown, TypeOK, Enqueue
<1>6. CASE Begin
  <2>1. rr' \in Passes
    BY <1>6, <1>a, NoPassTyped DEF Begin, Passes, NoPass, TypeOK
  <2> QED
    BY <1>6, <2>1 DEF Begin, TypeOK, Passes, SpecValues, Labels
<1>7. CASE Deploy
  <2>1. rr' \in Passes
    <3>1. (UNION {Deploys[m] : m \in Rendered})
            \cup (IF "grid" \in Rendered THEN GridCRDs ELSE {}) \subseteq Objects
      <4>1. \A m \in SubModules : Deploys[m] \subseteq Deployments
        BY DEF Deploys, SubModules, Deployments
      <4>2. Rendered \subseteq SubModules
        BY DEF Rendered, SubModules
      <4>3. \A m \in Rendered : Deploys[m] \subseteq Deployments
        BY <4>1, <4>2
      <4> HIDE DEF Rendered, Deploys, Deployments
      <4>4. UNION {Deploys[m] : m \in Rendered} \subseteq Deployments
        BY <4>3, Zenon
      <4>5. Deployments \subseteq Objects /\ GridCRDs \subseteq Objects
        BY DEF Objects
      <4> QED
        BY <4>4, <4>5
    <3> QED
      BY <1>7, <1>a, <3>1 DEF Deploy, Passes
  <2>2. level' \in [Deployments -> Levels]
    BY <1>7 DEF Deploy, TypeOK, Levels
  <2>3. crds' \in [GridCRDs -> {"absent", "applied", "established"}]
    BY <1>7 DEF Deploy, TypeOK
  <2>4. teardown' \in {"none", "requested", "completed"}
    BY <1>7 DEF Deploy, TypeOK
  <2>5. pending' \in BOOLEAN
    BY <1>7 DEF Deploy, TypeOK, Enqueue
  <2>6. pc' \in Labels /\ UNCHANGED <<spec, config, conds, counts>>
    BY <1>7 DEF Deploy, Labels
  <2> QED
    BY <2>1, <2>2, <2>3, <2>4, <2>5, <2>6 DEF TypeOK, Passes, SpecValues
<1>8. CASE DeploymentsAction
  <2>1. "maas" \in Labels
    BY DEF Labels
  <2> QED
    BY <1>8, <2>1, <1>b, <1>e, ConclusionsTyped, SetsTyped DEF DeploymentsAction
<1>f. /\ "maas" \in SubModules /\ "batch" \in SubModules /\ "grid" \in SubModules
      /\ {"gateway", "config", "tenants", "batch", "grid", "gridOperator", "overwrite"}
           \subseteq Labels
  BY DEF SubModules, Labels
<1>g. /\ \A d \in Deployments : Available(d) \in BOOLEAN
      /\ CRDsEstablished \in BOOLEAN /\ ConfigReady \in BOOLEAN /\ rr.ready \in BOOLEAN
      /\ {"maas-controller", "ai-gateway-controller", "grid-operator"} \subseteq Deployments
  BY <1>a DEF Available, CRDsEstablished, ConfigReady, Passes, Deployments
<1>9. CASE ReportMaaS
  BY <1>9, <1>b, <1>e, <1>f, <1>g, ConclusionsTyped, SetsTyped, ReadsTyped DEF ReportMaaS
<1>9a. CASE ReportMaaSGateway
  BY <1>9a, <1>b, <1>e, <1>f, ConclusionsTyped, SetsTyped, ReadsTyped DEF ReportMaaSGateway
<1>9b. CASE ReportMaaSConfig
  BY <1>9b, <1>b, <1>e, <1>f, <1>g, ConclusionsTyped, SetsTyped DEF ReportMaaSConfig
<1>10. CASE ReportTenants
  BY <1>10, <1>b, <1>e, <1>f, ConclusionsTyped, SetsTyped DEF ReportTenants
<1>11. CASE ReportBatch
  BY <1>11, <1>b, <1>e, <1>f, ConclusionsTyped, SetsTyped DEF ReportBatch
<1>12. CASE ReportGrid
  BY <1>12, <1>b, <1>e, <1>f, <1>g, ConclusionsTyped, SetsTyped, ReadsTyped DEF ReportGrid
<1>12a. CASE ReportGridOperator
  BY <1>12a, <1>b, <1>e, <1>f, <1>g, ConclusionsTyped, SetsTyped DEF ReportGridOperator
<1>13. CASE OverWriteCondition
  <2>1. OverwriteNext \in Labels
    BY DEF OverwriteNext, Labels
  <2>2. (IF AnyManaged(rr.spec) THEN rr.conds["deployments"] ELSE NothingManaged) \in ConditionValues
    BY <1>b, <1>e, ConclusionsTyped
  <2> QED
    BY <1>13, <2>1, <2>2, <1>e, SetsTyped DEF OverWriteCondition
<1>14. CASE GridOnlyDeploymentsAvailable
  <2>1. "gc" \in Labels
    BY DEF Labels
  <2>2. (IF Available("grid-operator") THEN True("available") ELSE False("NotReady")) \in ConditionValues
    BY ValuesTyped DEF Reasons
  <2> QED
    BY <1>14, <2>1, <2>2, <1>e, SetsTyped DEF GridOnlyDeploymentsAvailable
<1>15. CASE Collect
  <2>1. level' \in [Deployments -> Levels]
    BY <1>15 DEF Collect, TypeOK, Levels
  <2>2. crds' \in [GridCRDs -> {"absent", "applied", "established"}]
    BY <1>15 DEF Collect, TypeOK
  <2>3. teardown' \in {"none", "requested", "completed"}
    BY <1>15 DEF Collect, TypeOK
  <2>4. pending' \in BOOLEAN
    BY <1>15 DEF Collect, TypeOK, Enqueue
  <2>5. pc' \in Labels /\ UNCHANGED <<spec, config, conds, counts, rr>>
    BY <1>15 DEF Collect, Labels
  <2> QED
    BY <2>1, <2>2, <2>3, <2>4, <2>5 DEF TypeOK
<1>16. CASE Patch
  <2>1. pending' \in BOOLEAN
    BY <1>16, <1>a DEF Patch, TypeOK, Passes
  <2>2. rr' \in Passes /\ conds' \in [Conditions -> ConditionValues]
    BY <1>16, <1>b, NoPassTyped DEF Patch
  <2>3. pc' \in Labels /\ UNCHANGED <<world, counts>>
    BY <1>16 DEF Patch, Labels
  <2> QED
    BY <2>1, <2>2, <2>3 DEF TypeOK, Passes, SpecValues
<1>17. CASE PassFails
  <2>1. rr' \in Passes
    BY <1>17, <1>a DEF PassFails, Passes
  <2> QED
    BY <1>17, <2>1, <1>d DEF PassFails, TypeOK, Passes, SpecValues, Labels
<1>18. CASE Restart
  <2>1. rr' \in Passes
    BY <1>18, NoPassTyped DEF Restart
  <2> QED
    BY <1>18, <2>1, <1>d DEF Restart, TypeOK, Passes, SpecValues, Labels
<1>19. CASE UNCHANGED vars
  BY <1>19 DEF vars, TypeOK
<1> QED
  BY <1>1, <1>2, <1>3, <1>4, <1>5, <1>6, <1>7, <1>8, <1>9, <1>10, <1>11, <1>12,
     <1>13, <1>14, <1>15, <1>16, <1>17, <1>18, <1>19, <1>9a, <1>9b, <1>12a
  DEF Next, ClusterStep, PassStep

(* Type correctness: the conditions and the pass stay in their ranges, and *)
(* a condition that holds is never of severity Info.                       *)
THEOREM StatusTypeCorrect == Spec => []TypeOK
BY InitTyped, StepTyped, PTL DEF Spec

---------------------------------------------------------------------------
(* The conditions follow the cluster.  As long as nothing is enqueued,     *)
(* nothing has changed since the pass began, so what it has concluded is   *)
(* still what the cluster says (Concluding), and so is what the last clean *)
(* pass patched (Concluded).                                               *)

\* DeploymentsAvailable as the cluster at this moment calls for it.
Availability ==
  IF ~AnyManaged(spec) THEN NothingManaged
  ELSE IF GridOnly(spec) /\ (Counted = {} \/ Generic.holds)
  THEN IF Available("grid-operator") THEN True("available") ELSE False("NotReady")
  ELSE Generic

\* The same for a sub-module's condition and the tenants'.
Due == [c \in SubModules \cup {"tenants"} |->
          CASE c = "maas"    -> MaaSCondition(spec)
            [] c = "tenants" -> TenantsCondition(spec)
            [] c = "batch"   -> BatchCondition(spec)
            [] c = "grid"    -> GridCondition(spec)]

\* Where in the pass each condition has been set.
AfterGrid    == {"overwrite", "gridOnly", "gc", "patch"}
AfterBatch   == {"grid", "gridOperator"} \cup AfterGrid
AfterTenants == {"batch"} \cup AfterBatch
AfterMaaS    == {"tenants"} \cup AfterTenants

Done == [maas |-> AfterMaaS, tenants |-> AfterTenants, batch |-> AfterBatch, grid |-> AfterGrid]

Reporting == {"maas", "gateway", "config", "tenants", "batch", "grid", "gridOperator",
              "overwrite"}

Concluding ==
  ~pending /\ ~rr.failed =>
    /\ pc # "idle" => rr.spec = spec
    /\ \A c \in SubModules \cup {"tenants"} : pc \in Done[c] => rr.conds[c] = Due[c]
    /\ pc \in Reporting => rr.conds["deployments"] = Generic
    /\ pc = "gateway" =>
         spec.maas = "Managed" /\ rr.ready = Available("maas-controller")
    /\ pc = "config" =>
         spec.maas = "Managed" /\ \A d \in Deploys.maas : Available(d)
    /\ pc = "gridOperator" => spec.grid = "Managed" /\ rr.ready = CRDsEstablished
    /\ pc = "gridOnly" => GridOnly(spec) /\ (Counted = {} \/ Generic.holds)
    /\ pc \in {"gc", "patch"} => rr.conds["deployments"] = Availability

Concluded ==
  Quiet => /\ \A c \in SubModules \cup {"tenants"} : conds[c] = Due[c]
           /\ conds["deployments"] = Availability

FailedIsPatched == rr.failed => pc = "patch"

IInv == TypeOK /\ FailedIsPatched /\ Concluding /\ Concluded

\* What is due depends on the cluster only.
LEMMA DueFollowsWorld ==
  ASSUME UNCHANGED world
  PROVE  Due' = Due /\ Availability' = Availability /\ Generic' = Generic /\ Counted' = Counted
<1> USE DEF world
<1>1. Generic' = Generic /\ Counted' = Counted
  BY DEF Generic, Counted
<1>2. NothingManaged' = NothingManaged
  BY DEF NothingManaged, MaaSRemovalPending
<1>3. Availability' = Availability
  BY <1>1, <1>2 DEF Availability, AnyManaged, GridOnly, Available
<1>4. /\ (MaaSCondition(spec))' = MaaSCondition(spec)
      /\ (TenantsCondition(spec))' = TenantsCondition(spec)
      /\ (BatchCondition(spec))' = BatchCondition(spec)
      /\ (GridCondition(spec))' = GridCondition(spec)
  BY DEF MaaSCondition, TenantsCondition, BatchCondition, GridCondition, ConfigReady,
         CRDsEstablished, Available
<1> QED
  BY <1>1, <1>3, <1>4 DEF Due

LEMMA DueOf ==
  /\ Due["maas"] = MaaSCondition(spec) /\ Due["tenants"] = TenantsCondition(spec)
  /\ Due["batch"] = BatchCondition(spec) /\ Due["grid"] = GridCondition(spec)
BY DEF Due, SubModules

LEMMA InitInv == Init => IInv
BY InitTyped DEF Init, IInv, FailedIsPatched, Concluding, Concluded, Quiet, NoPass, Done, SubModules

\* A change of the cluster is enqueued, and the pass under way goes on.
LEMMA WorldChangePreserves ==
  ASSUME IInv, TypeOK', pending' = TRUE, UNCHANGED <<pc, rr>>
  PROVE  IInv'
BY DEF IInv, FailedIsPatched, Concluding, Concluded, Quiet

\* An action that sets one condition, to what is due, keeps the others.
LEMMA SetsPreserves ==
  ASSUME IInv, TypeOK', NEW c \in SubModules \cup {"tenants"}, NEW label, NEW next, NEW cond,
         Sets(label, c, cond, next),
         label \in Reporting \ {"overwrite"},
         next \in {"tenants", "batch", "grid", "overwrite"},
         ~pending => cond = Due[c],
         \A d \in SubModules \cup {"tenants"} : next \in Done[d] => d = c \/ label \in Done[d]
  PROVE  IInv'
<1>1. rr.conds \in [Conditions -> ConditionValues] /\ c \in Conditions /\ c # "deployments"
      /\ SubModules \cup {"tenants"} \subseteq Conditions /\ "deployments" \in Conditions
  BY DEF IInv, TypeOK, Conditions, SubModules
<1>2. /\ pc = label /\ pc' = next /\ UNCHANGED <<world, conds, pending>>
      /\ rr'.spec = rr.spec /\ rr'.failed = rr.failed
      /\ rr'.conds = [rr.conds EXCEPT ![c] = cond]
  BY DEF Sets, IInv, TypeOK
<1>3. Due' = Due /\ Generic' = Generic /\ spec' = spec
  BY <1>2, DueFollowsWorld DEF world
<1>4. ~rr.failed
  BY <1>2 DEF IInv, FailedIsPatched, Reporting
<1>5. ASSUME ~pending', ~rr'.failed, NEW d \in SubModules \cup {"tenants"}, pc' \in Done[d]
      PROVE  rr'.conds[d] = Due'[d]
  <2>1. CASE d = c
    BY <1>1, <1>2, <1>3, <1>5, <2>1
  <2>2. CASE d # c
    <3>1. rr.conds[d] = Due[d]
      BY <1>2, <1>5, <2>2 DEF IInv, Concluding
    <3> QED
      BY <1>1, <1>2, <1>3, <1>5, <2>2, <3>1
  <2> QED
    BY <2>1, <2>2
<1>6. ASSUME ~pending', ~rr'.failed
      PROVE  rr'.spec = spec' /\ rr'.conds["deployments"] = Generic'
  <2>1. rr.spec = spec /\ rr.conds["deployments"] = Generic
    BY <1>2, <1>6 DEF IInv, Concluding, Reporting
  <2> QED
    BY <1>1, <1>2, <1>3, <2>1
<1> QED
  BY <1>2, <1>4, <1>5, <1>6 DEF IInv, FailedIsPatched, Concluding, Concluded, Quiet

\* A read for a condition still to be set keeps the others.
LEMMA ReadsPreserve ==
  ASSUME IInv, TypeOK', NEW label \in Reporting, NEW next \in Reporting, NEW ready,
         Reads(label, ready, next),
         next \notin {"maas", "tenants", "batch", "grid", "overwrite"},
         \A d \in SubModules \cup {"tenants"} : next \in Done[d] => label \in Done[d],
         ~pending =>
           /\ next = "gateway" => spec.maas = "Managed" /\ ready = Available("maas-controller")
           /\ next = "config" => spec.maas = "Managed" /\ \A d \in Deploys.maas : Available(d)
           /\ next = "gridOperator" => spec.grid = "Managed" /\ ready = CRDsEstablished
  PROVE  IInv'
<1>1. /\ pc = label /\ pc' = next /\ UNCHANGED <<world, conds, pending>>
      /\ rr'.spec = rr.spec /\ rr'.failed = rr.failed /\ rr'.conds = rr.conds
      /\ rr'.ready = ready
  BY DEF Reads, IInv, TypeOK
<1>2. Due' = Due /\ Generic' = Generic /\ spec' = spec
  BY <1>1, DueFollowsWorld DEF world
<1>3. /\ CRDsEstablished' = CRDsEstablished
      /\ Available("maas-controller")' = Available("maas-controller")
      /\ (\A d \in Deploys.maas : Available(d))' = (\A d \in Deploys.maas : Available(d))
  BY <1>1 DEF world, CRDsEstablished, Available
<1>4. ~rr.failed /\ pc # "idle"
  BY <1>1 DEF IInv, FailedIsPatched, Reporting
<1>5. next \notin {"idle", "patch", "gc", "gridOnly"}
  BY DEF Reporting
<1> QED
  BY <1>1, <1>2, <1>3, <1>4, <1>5 DEF IInv, FailedIsPatched, Concluding, Concluded, Quiet

\* Every step preserves the invariant.
LEMMA StepIInv == IInv /\ [Next]_vars => IInv'
<1> SUFFICES ASSUME IInv, [Next]_vars PROVE IInv'
  OBVIOUS
<1> USE DEF world, counts
<1>a. TypeOK'
  BY StepTyped DEF IInv
<1>b. rr \in Passes /\ rr.spec \in SpecValues /\ rr.conds \in [Conditions -> ConditionValues]
  BY DEF IInv, TypeOK, Passes, SpecValues
<1>c. "maas" \in SubModules /\ "batch" \in SubModules /\ "grid" \in SubModules
  BY DEF SubModules
<1>d. pc # "idle" /\ ~pending /\ ~rr.failed => rr.spec = spec
  BY DEF IInv, Concluding
<1>e. pc # "patch" => ~rr.failed
  BY DEF IInv, FailedIsPatched
<1>h. /\ \A d \in SubModules \cup {"tenants"} :
           /\ "tenants" \in Done[d] => d = "maas"
           /\ "batch" \in Done[d] => d = "tenants" \/ "tenants" \in Done[d]
           /\ "grid" \in Done[d] => d = "batch" \/ "batch" \in Done[d]
           /\ "overwrite" \in Done[d] => d = "grid" \/ "grid" \in Done[d]
           /\ "overwrite" \in Done[d] => d = "grid" \/ "gridOperator" \in Done[d]
  BY DEF Done, AfterMaaS, AfterTenants, AfterBatch, AfterGrid, SubModules
<1>1. ASSUME NEW m \in Toggled, NEW s \in {"Managed", "Removed"}, UserSets(m, s) PROVE IInv'
  BY <1>1, <1>a, WorldChangePreserves DEF UserSets, Enqueue
<1>2. ASSUME NEW d \in Deployments, NEW l \in Levels, PodsChange(d, l) PROVE IInv'
  BY <1>2, <1>a, WorldChangePreserves DEF PodsChange, Enqueue
<1>3. ASSUME NEW c \in Operands, ConfigChanges(c) PROVE IInv'
  BY <1>3, <1>a, WorldChangePreserves DEF ConfigChanges, Enqueue
<1>4. ASSUME NEW c \in GridCRDs, CRDEstablished(c) PROVE IInv'
  BY <1>4, <1>a, WorldChangePreserves DEF CRDEstablished, Enqueue
<1>5. CASE MaaSReportsTeardown
  BY <1>5, <1>a, WorldChangePreserves DEF MaaSReportsTeardown, Enqueue
<1>6. CASE Begin
  <2>1. /\ pc' = "deploy" /\ UNCHANGED <<world, conds>>
        /\ rr'.failed = FALSE /\ rr'.spec = spec
    BY <1>6 DEF Begin, NoPass
  <2> QED
    BY <2>1, <1>a DEF IInv, FailedIsPatched, Concluding, Concluded, Quiet, Done, AfterMaaS, AfterTenants, AfterBatch, AfterGrid,
  Reporting, SubModules
<1>7. CASE Deploy
  <2>1. /\ pc' = "deployments" /\ pc = "deploy" /\ UNCHANGED spec
        /\ rr'.failed = rr.failed /\ rr'.spec = rr.spec
    BY <1>7, <1>b DEF Deploy, Passes
  <2>2. ~pending' => ~pending
    BY <1>7 DEF Deploy, Enqueue
  <2> QED
    BY <2>1, <2>2, <1>a, <1>d, <1>e
    DEF IInv, FailedIsPatched, Concluding, Concluded, Quiet, Done, AfterMaaS, AfterTenants, AfterBatch, AfterGrid,
  Reporting, SubModules
<1>8. CASE DeploymentsAction
  <2>1. /\ pc = "deployments" /\ pc' = "maas" /\ UNCHANGED <<world, conds, pending>>
        /\ rr'.failed = rr.failed /\ rr'.spec = rr.spec
        /\ rr'.conds = [rr.conds EXCEPT !["deployments"] = Generic]
    BY <1>8, <1>b DEF DeploymentsAction, Sets, Passes
  <2>2. rr'.conds["deployments"] = Generic'
    BY <2>1, <1>b, DueFollowsWorld DEF Conditions
  <2> QED
    BY <2>1, <2>2, <1>a, <1>d, <1>e
    DEF IInv, FailedIsPatched, Concluding, Concluded, Quiet, Done, AfterMaaS, AfterTenants, AfterBatch, AfterGrid,
  Reporting, SubModules
<1>9. CASE ReportMaaS
  <2>1. CASE rr.spec.maas = "Managed"
    <3>1. Reads("maas", Available("maas-controller"), "gateway")
      BY <1>9, <2>1 DEF ReportMaaS
    <3>2. ~pending => spec.maas = "Managed"
      BY <2>1, <3>1, <1>d, <1>e DEF Reads
    <3> QED
      BY <3>1, <3>2, <1>a, ReadsPreserve DEF Reporting, Done, AfterMaaS, AfterTenants,
         AfterBatch, AfterGrid, SubModules
  <2>2. CASE rr.spec.maas # "Managed"
    <3>1. Sets("maas", "maas", Info("Removed"), "tenants")
      BY <1>9, <2>2 DEF ReportMaaS
    <3>2. ~pending => Info("Removed") = Due["maas"]
      BY <2>2, <3>1, <1>d, <1>e, DueOf DEF Sets, MaaSCondition
    <3> QED
      BY <3>1, <3>2, <1>a, <1>c, <1>h, SetsPreserves DEF Reporting
  <2> QED
    BY <2>1, <2>2
<1>9a. CASE ReportMaaSGateway
  <2>1. pc = "gateway" /\ UNCHANGED pending
    BY <1>9a DEF ReportMaaSGateway, Reads, Sets
  <2>2. ~pending => spec.maas = "Managed" /\ rr.ready = Available("maas-controller")
    BY <2>1, <1>e DEF IInv, Concluding
  <2>3. CASE rr.ready /\ Available("ai-gateway-controller")
    <3>1. Reads("gateway", TRUE, "config")
      BY <1>9a, <2>3 DEF ReportMaaSGateway
    <3>2. ~pending => \A d \in Deploys.maas : Available(d)
      BY <2>2, <2>3 DEF Deploys
    <3>3. \A d \in SubModules \cup {"tenants"} : "config" \notin Done[d]
      BY DEF Done, AfterMaaS, AfterTenants, AfterBatch, AfterGrid, SubModules
    <3>4. "gateway" \in Reporting /\ "config" \in Reporting
      BY DEF Reporting
    <3> QED
      BY <2>2, <3>1, <3>2, <3>3, <3>4, <1>a, ReadsPreserve
  <2>4. CASE ~(rr.ready /\ Available("ai-gateway-controller"))
    <3>1. Sets("gateway", "maas", Ready(FALSE), "tenants")
      BY <1>9a, <2>4 DEF ReportMaaSGateway
    <3>2. ~pending => Ready(FALSE) = Due["maas"]
      BY <2>2, <2>4, DueOf DEF MaaSCondition, Deploys, Ready
    <3> QED
      BY <3>1, <3>2, <1>a, <1>c, <1>h, SetsPreserves DEF Reporting
  <2> QED
    BY <2>3, <2>4
<1>9b. CASE ReportMaaSConfig
  <2>1. Sets("config", "maas", Ready(ConfigReady), "tenants")
    BY <1>9b DEF ReportMaaSConfig
  <2>2. ~pending => Ready(ConfigReady) = Due["maas"]
    BY <2>1, <1>e, DueOf DEF Sets, IInv, Concluding, MaaSCondition, Ready
  <2> QED
    BY <2>1, <2>2, <1>a, <1>c, <1>h, SetsPreserves DEF Reporting
<1>10. CASE ReportTenants
  <2>1. ~pending => TenantsCondition(rr.spec) = Due["tenants"]
    BY <1>10, <1>d, <1>e, DueOf DEF ReportTenants, Sets
  <2> QED
    BY <1>10, <2>1, <1>a, <1>h, SetsPreserves DEF ReportTenants, Reporting
<1>11. CASE ReportBatch
  <2>1. ~pending => BatchCondition(rr.spec) = Due["batch"]
    BY <1>11, <1>d, <1>e, DueOf DEF ReportBatch, Sets
  <2> QED
    BY <1>11, <2>1, <1>a, <1>c, <1>h, SetsPreserves DEF ReportBatch, Reporting
<1>12. CASE ReportGrid
  <2>1. CASE rr.spec.grid = "Managed"
    <3>1. Reads("grid", CRDsEstablished, "gridOperator")
      BY <1>12, <2>1 DEF ReportGrid
    <3>2. ~pending => spec.grid = "Managed"
      BY <2>1, <3>1, <1>d, <1>e DEF Reads
    <3> QED
      BY <3>1, <3>2, <1>a, ReadsPreserve DEF Reporting, Done, AfterMaaS, AfterTenants,
         AfterBatch, AfterGrid, SubModules
  <2>2. CASE rr.spec.grid # "Managed"
    <3>1. Sets("grid", "grid", Info("Removed"), "overwrite")
      BY <1>12, <2>2 DEF ReportGrid
    <3>2. ~pending => Info("Removed") = Due["grid"]
      BY <2>2, <3>1, <1>d, <1>e, DueOf DEF Sets, GridCondition
    <3> QED
      BY <3>1, <3>2, <1>a, <1>c, <1>h, SetsPreserves DEF Reporting
  <2> QED
    BY <2>1, <2>2
<1>12a. CASE ReportGridOperator
  <2> DEFINE cond == Ready(rr.ready /\ Available("grid-operator"))
  <2>1. Sets("gridOperator", "grid", cond, "overwrite")
    BY <1>12a DEF ReportGridOperator
  <2>2. ~pending => cond = Due["grid"]
    BY <2>1, <1>e, DueOf DEF Sets, IInv, Concluding, GridCondition, Ready
  <2> HIDE DEF cond
  <2> QED
    BY <2>1, <2>2, <1>a, <1>c, <1>h, SetsPreserves DEF Reporting
<1>13. ASSUME NEW label \in {"overwrite", "gridOnly"}, NEW cond, NEW next \in {"gridOnly", "gc"},
              Sets(label, "deployments", cond, next),
              ~pending /\ next = "gc" => cond = Availability,
              ~pending /\ next = "gridOnly" => GridOnly(spec) /\ (Counted = {} \/ Generic.holds)
       PROVE  IInv'
  <2>1. /\ pc = label /\ pc' = next /\ UNCHANGED <<world, conds, pending>>
        /\ rr'.failed = rr.failed /\ rr'.spec = rr.spec
        /\ rr'.conds = [rr.conds EXCEPT !["deployments"] = cond]
    BY <1>13, <1>b DEF Sets, Passes
  <2>2. /\ Due' = Due /\ Availability' = Availability /\ Generic' = Generic /\ Counted' = Counted
        /\ spec' = spec
    BY <2>1, DueFollowsWorld
  <2>3. ASSUME ~pending, NEW c \in SubModules \cup {"tenants"}
        PROVE  rr'.conds[c] = Due'[c]
    <3>1. pc \in Done[c]
      BY <2>1 DEF Done, AfterMaaS, AfterTenants, AfterBatch, AfterGrid, SubModules
    <3>2. rr.conds[c] = Due[c]
      BY <2>1, <2>3, <3>1, <1>e DEF IInv, Concluding
    <3>3. c \in Conditions /\ c # "deployments"
      BY DEF Conditions, SubModules
    <3> QED
      BY <2>1, <2>2, <3>2, <3>3, <1>b
  <2>4. rr'.conds["deployments"] = cond
    BY <2>1, <1>b DEF Conditions
  <2>5. GridOnly(spec)' = GridOnly(spec)
    BY <2>2 DEF GridOnly
  <2> QED
    BY <1>13, <2>1, <2>2, <2>3, <2>4, <2>5, <1>a, <1>d, <1>e
    DEF IInv, FailedIsPatched, Concluding, Concluded, Quiet, Reporting
<1>14. CASE OverWriteCondition
  <2> DEFINE cond == IF AnyManaged(rr.spec) THEN rr.conds["deployments"] ELSE NothingManaged
  <2>1. pc = "overwrite" /\ Sets("overwrite", "deployments", cond, OverwriteNext)
    BY <1>14 DEF OverWriteCondition, Sets
  <2>2. ~pending => rr.spec = spec /\ rr.conds["deployments"] = Generic
    BY <2>1, <1>e DEF IInv, Concluding, Reporting
  <2>3. GridOnly(spec) => AnyManaged(spec)
    BY DEF GridOnly, AnyManaged, SubModules
  <2>4. ~pending /\ OverwriteNext = "gc" => cond = Availability
    BY <2>2, <2>3 DEF OverwriteNext, Availability
  <2>5. ~pending /\ OverwriteNext = "gridOnly" => GridOnly(spec) /\ (Counted = {} \/ Generic.holds)
    BY <2>2 DEF OverwriteNext
  <2>6. OverwriteNext \in {"gridOnly", "gc"}
    BY DEF OverwriteNext
  <2> HIDE DEF cond
  <2> QED
    BY <2>1, <2>4, <2>5, <2>6, <1>13
<1>15. CASE GridOnlyDeploymentsAvailable
  <2> DEFINE cond == IF Available("grid-operator") THEN True("available") ELSE False("NotReady")
  <2>1. pc = "gridOnly" /\ Sets("gridOnly", "deployments", cond, "gc")
    BY <1>15 DEF GridOnlyDeploymentsAvailable, Sets
  <2>2. ~pending => GridOnly(spec) /\ (Counted = {} \/ Generic.holds)
    BY <2>1, <1>e DEF IInv, Concluding
  <2>3. GridOnly(spec) => AnyManaged(spec)
    BY DEF GridOnly, AnyManaged, SubModules
  <2>4. ~pending => cond = Availability
    BY <2>2, <2>3 DEF Availability
  <2> HIDE DEF cond
  <2> QED
    BY <2>1, <2>4, <1>13
<1>16. CASE Collect
  <2> DEFINE gone == {o \in Objects : Deletable(o)}
             deps == {d \in gone \cap Deployments : level[d] # "absent"}
  <2>1. pc = "gc" /\ pc' = "patch" /\ UNCHANGED <<spec, config, conds, rr>>
    BY <1>16 DEF Collect
  <2>2. CASE deps # {}
    BY <1>16, <2>1, <2>2, <1>a, <1>e
    DEF Collect, Enqueue, IInv, FailedIsPatched, Concluding, Concluded, Quiet
  <2>3. CASE deps = {}
    <3>1. gone \cap GridCRDs = {}
      BY CRDsOK DEF Deletable, Stale, Deploys, Deployments
    <3>2. UNCHANGED <<level, teardown, crds, pending>>
      BY <1>16, <2>3, <3>1 DEF Collect, IInv, TypeOK
    <3>3. Due' = Due /\ Availability' = Availability
      BY <2>1, <3>2, DueFollowsWorld
    <3>4. \A c \in SubModules \cup {"tenants"} : pc \in Done[c]
      BY <2>1 DEF Done, AfterMaaS, AfterTenants, AfterBatch, AfterGrid, SubModules
    <3> QED
      BY <2>1, <3>2, <3>3, <3>4, <1>a, <1>e
      DEF IInv, FailedIsPatched, Concluding, Concluded, Quiet, Reporting
  <2> QED
    BY <2>2, <2>3
<1>17. CASE Patch
  <2>1. /\ pc = "patch" /\ pc' = "idle" /\ conds' = rr.conds /\ UNCHANGED world
        /\ pending' = (pending \/ rr.failed) /\ rr'.failed = FALSE
    BY <1>17 DEF Patch, NoPass
  <2>2. Due' = Due /\ Availability' = Availability
    BY <2>1, DueFollowsWorld
  <2>3. \A c \in SubModules \cup {"tenants"} : pc \in Done[c] /\ pc' \notin Done[c]
    BY <2>1 DEF Done, AfterMaaS, AfterTenants, AfterBatch, AfterGrid, SubModules
  <2> QED
    BY <2>1, <2>2, <2>3, <1>a
    DEF IInv, FailedIsPatched, Concluding, Concluded, Quiet, Reporting
<1>18. CASE PassFails
  <2>1. pc' = "patch" /\ rr'.failed = TRUE
    BY <1>18, <1>b DEF PassFails, Passes
  <2> QED
    BY <2>1, <1>a DEF IInv, FailedIsPatched, Concluding, Concluded, Quiet
<1>19. CASE Restart
  <2>1. pc' = "idle" /\ pending' = TRUE /\ rr'.failed = FALSE
    BY <1>19 DEF Restart, NoPass
  <2> QED
    BY <2>1, <1>a DEF IInv, FailedIsPatched, Concluding, Concluded, Quiet
<1>20. CASE UNCHANGED vars
  <2>1. Due' = Due /\ Availability' = Availability /\ Generic' = Generic /\ Counted' = Counted
    BY <1>20, DueFollowsWorld DEF vars
  <2>2. GridOnly(spec)' = GridOnly(spec)
    BY <1>20 DEF GridOnly, vars
  <2>3. /\ CRDsEstablished' = CRDsEstablished
        /\ Available("maas-controller")' = Available("maas-controller")
        /\ (\A d \in Deploys.maas : Available(d))' = (\A d \in Deploys.maas : Available(d))
    BY <1>20 DEF vars, CRDsEstablished, Available
  <2> QED
    BY <1>20, <2>1, <2>2, <2>3, <1>a DEF vars, IInv, FailedIsPatched, Concluding, Concluded, Quiet
<1> QED
  BY <1>1, <1>2, <1>3, <1>4, <1>5, <1>6, <1>7, <1>8, <1>9, <1>10, <1>11, <1>12,
     <1>14, <1>15, <1>16, <1>17, <1>18, <1>19, <1>20, <1>9a, <1>9b, <1>12a
  DEF Next, ClusterStep, PassStep

LEMMA IInvHolds == Spec => []IInv
BY InitInv, StepIInv, PTL DEF Spec

---------------------------------------------------------------------------
(* What a reader of the conditions may rely on.                            *)

(* A quiet operator's conditions say of each sub-module what the cluster   *)
(* is, however it got there (reportSubModuleStatus).                       *)
THEOREM SubModulesSettle == Spec => []SettledSubModules
<1>1. IInv => SettledSubModules
  <2> SUFFICES ASSUME IInv, Quiet
               PROVE  /\ \A m \in SubModules : /\ conds[m].holds <=> Serving(m)
                                               /\ conds[m].severity = "Info" <=> spec[m] = "Removed"
                      /\ spec.maas = "Managed" =>
                           /\ conds["tenants"].holds <=> config.tenants \notin Unhealthy
                           /\ config.tenants \in Healthy \cup Unhealthy =>
                                conds["tenants"].reason = config.tenants
    BY DEF SettledSubModules
  <2>1. /\ conds["maas"] = MaaSCondition(spec) /\ conds["batch"] = BatchCondition(spec)
        /\ conds["grid"] = GridCondition(spec) /\ conds["tenants"] = TenantsCondition(spec)
    BY DueOf DEF IInv, Concluded, SubModules
  <2>2. spec \in [SubModules -> {"Managed", "Removed"}]
    BY DEF IInv, TypeOK
  <2>3. /\ conds["maas"].holds <=> Serving("maas")
        /\ conds["maas"].severity = "Info" <=> spec["maas"] = "Removed"
    BY <2>1, <2>2 DEF MaaSCondition, Serving, Ready, Available, ConfigReady, SubModules,
                      True, False, Info
  <2>4. /\ conds["batch"].holds <=> Serving("batch")
        /\ conds["batch"].severity = "Info" <=> spec["batch"] = "Removed"
    BY <2>1, <2>2 DEF BatchCondition, Serving, Ready, Available, Deploys, SubModules,
                      True, False, Info
  <2>5. /\ conds["grid"].holds <=> Serving("grid")
        /\ conds["grid"].severity = "Info" <=> spec["grid"] = "Removed"
    BY <2>1, <2>2 DEF GridCondition, Serving, Ready, Available, CRDsEstablished, Deploys,
                      SubModules, True, False, Info
  <2>6. ASSUME spec.maas = "Managed"
        PROVE  /\ conds["tenants"].holds <=> config.tenants \notin Unhealthy
               /\ config.tenants \in Healthy \cup Unhealthy =>
                    conds["tenants"].reason = config.tenants
    <3>1. CASE config.tenants \in Unhealthy
      BY <2>1, <2>6, <3>1 DEF TenantsCondition, Healthy, Unhealthy, True, False, Info
    <3>2. CASE config.tenants \in Healthy
      BY <2>1, <2>6, <3>2 DEF TenantsCondition, Healthy, Unhealthy, True, False, Info
    <3>3. CASE config.tenants \notin Healthy \cup Unhealthy
      BY <2>1, <2>6, <3>3 DEF TenantsCondition, True, False, Info
    <3> QED
      BY <3>1, <3>2, <3>3
  <2> QED
    BY <2>3, <2>4, <2>5, <2>6 DEF SubModules
<1> QED
  BY <1>1, IInvHolds, PTL

(* A quiet operator's DeploymentsAvailable says what the three reads it    *)
(* rests on would say together (overWriteCondition).                       *)
THEOREM AvailabilitySettles == Spec => []SettledAvailability
<1>1. IInv => SettledAvailability
  <2> SUFFICES ASSUME IInv, Quiet PROVE SettledAvailability
    BY DEF SettledAvailability
  <2>1. conds["deployments"] = Availability
    BY DEF IInv, Concluded
  <2>2. spec \in [SubModules -> {"Managed", "Removed"}]
    BY DEF IInv, TypeOK
  <2>3. Generic.severity = "Error" /\ Generic.holds
          <=> /\ \A d \in InApplicationsNs : level[d] \in {"absent", "full"}
              /\ Counted # {}
    BY DEF Generic, Counted, True, False
  <2>4. Counted # {} <=> \E d \in InApplicationsNs : level[d] # "absent"
    BY DEF Counted
  <2>5. CASE \A m \in SubModules : spec[m] = "Removed"
    <3>1. ~AnyManaged(spec)
      BY <2>5 DEF AnyManaged
    <3> QED
      BY <2>1, <2>5, <3>1 DEF SettledAvailability, Availability, NothingManaged, Info,
                              MaaSRemovalPending
  <2>6. CASE ~ \A m \in SubModules : spec[m] = "Removed"
    <3>1. AnyManaged(spec)
      BY <2>2, <2>6 DEF AnyManaged
    <3>2. Availability.severity = "Error"
      BY <3>1 DEF Availability, Generic, True, False
    <3>3. CASE GridOnly(spec) /\ (Counted = {} \/ Generic.holds)
      <4>1. Availability.holds <=> level["grid-operator"] \in {"partial", "full"}
        BY <3>1, <3>3 DEF Availability, Available, True, False
      <4>2. \A d \in InApplicationsNs : level[d] \in {"absent", "full"}
        BY <3>3, <2>3 DEF Counted, Generic, True, False
      <4> QED
        BY <2>1, <2>6, <3>2, <3>3, <4>1, <4>2 DEF SettledAvailability
    <3>4. CASE GridOnly(spec) /\ Counted # {} /\ ~Generic.holds
      <4>1. ~Availability.holds
        BY <3>1, <3>4 DEF Availability
      <4>2. ~ \A d \in InApplicationsNs : level[d] \in {"absent", "full"}
        BY <3>4 DEF Counted, Generic, True, False
      <4> QED
        BY <2>1, <2>6, <3>2, <4>1, <4>2 DEF SettledAvailability
    <3>5. CASE ~GridOnly(spec)
      <4>1. Availability.holds <=> /\ \A d \in InApplicationsNs : level[d] \in {"absent", "full"}
                                   /\ Counted # {}
        BY <3>1, <3>5 DEF Availability, Generic, Counted, True, False
      <4> QED
        BY <2>1, <2>4, <2>6, <3>2, <3>5, <4>1 DEF SettledAvailability
    <3> QED
      BY <3>3, <3>4, <3>5
  <2> QED
    BY <2>5, <2>6
<1> QED
  BY <1>1, IInvHolds, PTL

(* No step, whatever the grid is switched to, lets an applied grid CRD go  *)
(* (maasAwareGCPredicate).                                                 *)
THEOREM GridCRDsStay == Spec => GridCRDsKept
<1> DEFINE Kept == \A c \in GridCRDs : crds[c] # "absent" => crds'[c] # "absent"
<1>1. TypeOK /\ [Next]_vars => Kept
  <2> SUFFICES ASSUME TypeOK, [Next]_vars PROVE Kept
    OBVIOUS
  <2> USE DEF world, counts
  <2>1. ASSUME NEW m \in Toggled, NEW s \in {"Managed", "Removed"}, UserSets(m, s) PROVE Kept
    BY <2>1 DEF UserSets
  <2>2. ASSUME NEW d \in Deployments, NEW l \in Levels, PodsChange(d, l) PROVE Kept
    BY <2>2 DEF PodsChange
  <2>3. ASSUME NEW c \in Operands, ConfigChanges(c) PROVE Kept
    BY <2>3 DEF ConfigChanges
  <2>4. ASSUME NEW c \in GridCRDs, CRDEstablished(c) PROVE Kept
    BY <2>4 DEF CRDEstablished, TypeOK
  <2>5. CASE MaaSReportsTeardown
    BY <2>5 DEF MaaSReportsTeardown
  <2>6. CASE Begin
    BY <2>6 DEF Begin
  <2>7. CASE Deploy
    BY <2>7 DEF Deploy
  <2>8. ASSUME NEW label, NEW c, NEW cond, NEW next, Sets(label, c, cond, next) PROVE Kept
    BY <2>8 DEF Sets
  <2>15. ASSUME NEW label, NEW ready, NEW next, Reads(label, ready, next) PROVE Kept
    BY <2>15 DEF Reads
  <2>9. CASE \/ DeploymentsAction \/ ReportMaaS \/ ReportMaaSGateway \/ ReportMaaSConfig
             \/ ReportTenants \/ ReportBatch \/ ReportGrid \/ ReportGridOperator
             \/ OverWriteCondition \/ GridOnlyDeploymentsAvailable
    BY <2>8, <2>9, <2>15 DEF DeploymentsAction, ReportMaaS, ReportMaaSGateway, ReportMaaSConfig,
                      ReportTenants, ReportBatch, ReportGrid, ReportGridOperator,
                      OverWriteCondition, GridOnlyDeploymentsAvailable
  <2>10. CASE Collect
    <3>1. \A c \in GridCRDs : ~Deletable(c)
      BY CRDsOK DEF Deletable, Stale, Deploys, Deployments
    <3> QED
      BY <2>10, <3>1 DEF Collect
  <2>11. CASE Patch
    BY <2>11 DEF Patch
  <2>12. CASE PassFails
    BY <2>12 DEF PassFails
  <2>13. CASE Restart
    BY <2>13 DEF Restart
  <2>14. CASE UNCHANGED vars
    BY <2>14 DEF vars
  <2> QED
    BY <2>1, <2>2, <2>3, <2>4, <2>5, <2>6, <2>7, <2>9, <2>10, <2>11, <2>12, <2>13, <2>14
    DEF Next, ClusterStep, PassStep
<1>2. TypeOK /\ [Next]_vars => [Kept]_vars
  BY <1>1
<1> QED
  BY <1>2, StatusTypeCorrect, PTL DEF Spec, GridCRDsKept
=============================================================================
