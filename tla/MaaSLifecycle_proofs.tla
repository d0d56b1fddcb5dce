----------------------- MODULE MaaSLifecycle_proofs -----------------------
(***************************************************************************)
(* Proofs about MaaSLifecycle, for every number of companions, edits and   *)
(* faults: type correctness in every environment, and the teardown         *)
(* handshake in the environment where it is sound.                         *)
(***************************************************************************)
EXTENDS MaaSLifecycle, TLAPS

(* The environment in which the handshake holds: the informer is up to     *)
(* date, the spec always says Managed or Removed, a removal is finished    *)
(* before it is taken back, and no pass fails between the deletion of a    *)
(* legacy Deployment and its recreation.                                   *)
SoundEnvironment ==
  /\ MaxLag = 0
  /\ "" \notin ManagementStates
  /\ ~EarlyReenable
  /\ ~RecreationMayFail

---------------------------------------------------------------------------
(* The inductive invariant.                                                *)

CacheCurrent == inFlight = <<>> /\ cached = dep

InPass   == pc # "idle"
Decided  == pc \notin {"idle", "initialize"}   \* rr.keep has been computed
Applying == pc \in {"bundle", "controller"}
AppliedAll == pc \in {"status", "gc"}

PassFollowsSpec ==
  /\ InPass => rr.state \in {"Managed", "Removed"}
  /\ InPass /\ rr.state = "Removed" => managementState = "Removed"

RequestFollowsSpec ==
  dep # Absent /\ dep.requested =>
    managementState = "Removed" /\ (InPass => rr.state = "Removed")

ReportIsFinal == dep # Absent /\ dep.completed => dep.requested /\ ~runtime

KeepIsRight ==
  Decided /\ ~rr.keep => rr.state = "Removed" /\ TeardownCompleted(dep)

StampIsCurrent ==
  AppliedAll /\ rr.keep /\ dep # Absent => dep.stamp = rr.gen

ManagedIsApplied ==
  /\ AppliedAll /\ rr.state = "Managed" => dep # Absent
  /\ pc \in {"controller", "status", "gc"} /\ rr.state = "Managed" =>
       \A c \in Companions : companions[c] = rr.gen

LegacyServes ==
  dep # Absent /\ dep.legacy => runtime /\ ~dep.requested /\ ~dep.completed

RemovedKeepsLive ==
  rr.state = "Removed" /\ rr.keep /\ pc \in {"infra", "migrate", "bundle", "controller"} =>
    dep # Absent \/ runtime

RuntimeIsServed ==
  runtime => dep # Absent \/ (rr.keep /\ Applying)

IInv ==
  /\ CacheCurrent
  /\ PassFollowsSpec
  /\ RequestFollowsSpec
  /\ ReportIsFinal
  /\ KeepIsRight
  /\ StampIsCurrent
  /\ ManagedIsApplied
  /\ LegacyServes
  /\ RemovedKeepsLive
  /\ RuntimeIsServed

---------------------------------------------------------------------------
(* Type correctness, in every environment.                                 *)

\* A write to the Deployment keeps the live object, the cache and what is in
\* flight well typed (the API server and the informer only pass versions on).
LEMMA WriteDepTyped ==
  ASSUME TypeOK, NEW d \in DeploymentStates \cup {Absent}, WriteDep(d)
  PROVE  /\ dep' \in DeploymentStates \cup {Absent}
         /\ cached' \in DeploymentStates \cup {Absent}
         /\ inFlight' \in Seq(DeploymentStates \cup {Absent})
         /\ pending' \in BOOLEAN
<1> DEFINE D == DeploymentStates \cup {Absent}
<1> DEFINE owed == Append(inFlight, d)
<1>0. d \in D /\ dep \in D /\ cached \in D /\ inFlight \in Seq(D) /\ pending \in BOOLEAN
  BY DEF TypeOK
<1>1. dep' = d
  BY DEF WriteDep
<1>2. CASE d = dep
  BY <1>0, <1>1, <1>2 DEF WriteDep
<1>3. CASE d # dep /\ Len(owed) > MaxLag
  <2>1. cached' = Head(owed) /\ inFlight' = Tail(owed) /\ pending' = TRUE
    BY <1>3 DEF WriteDep
  <2> HIDE DEF D
  <2>2. owed \in Seq(D) /\ owed # <<>>
    BY <1>0
  <2>3. Head(owed) \in D /\ Tail(owed) \in Seq(D)
    BY <2>2
  <2> QED
    BY <1>0, <1>1, <2>1, <2>3 DEF D
<1>4. CASE d # dep /\ ~(Len(owed) > MaxLag)
  <2>1. cached' = cached /\ inFlight' = owed /\ pending' = pending
    BY <1>4 DEF WriteDep
  <2> HIDE DEF D
  <2>2. owed \in Seq(D)
    BY <1>0
  <2> QED
    BY <1>0, <1>1, <2>1, <2>2 DEF D
<1> QED
  BY <1>2, <1>3, <1>4

\* An apply renders a well-typed Deployment.
LEMMA AppliedTyped ==
  ASSUME TypeOK PROVE Applied(dep, rr) \in DeploymentStates
  BY BoundsOK DEF TypeOK, Applied, DeploymentStates

\* Every initial state is well typed.
LEMMA InitTyped == Init => TypeOK
<1> SUFFICES ASSUME Init PROVE TypeOK
  OBVIOUS
<1>1. 0 \in Stamps /\ 1 \in Generations /\ 0 \in 0..MaxFaults
  BY BoundsOK DEF Stamps, Generations
<1>2. dep \in DeploymentStates \cup {Absent}
  BY <1>1 DEF Init, DeploymentStates
<1>3. companions \in [Companions -> Stamps \cup {Absent}]
  BY <1>1 DEF Init
<1>4. runtime \in BOOLEAN
  BY DEF Init
<1>5. inFlight \in Seq(DeploymentStates \cup {Absent})
  BY DEF Init
<1>6. NoPass \in [state: ManagementStates \cup {""}, gen: Stamps, keep: BOOLEAN,
                  verdict: Reasons, sweep: SUBSET Bundle]
  BY <1>1 DEF NoPass, Reasons
<1> QED
  BY <1>1, <1>2, <1>3, <1>4, <1>5, <1>6 DEF Init, TypeOK, Labels, Reasons

\* Every step keeps the state well typed.
LEMMA StepTyped == TypeOK /\ [Next]_vars => TypeOK'
<1> SUFFICES ASSUME TypeOK, [Next]_vars PROVE TypeOK'
  OBVIOUS
<1> DEFINE D == DeploymentStates \cup {Absent}
<1> DEFINE Pass == [state: ManagementStates \cup {""}, gen: Stamps, keep: BOOLEAN,
                    verdict: Reasons, sweep: SUBSET Bundle]
<1>a. NoPass \in Pass
  BY BoundsOK DEF NoPass, Reasons, Stamps
<1>b. generation \in Stamps /\ generation \in Nat
  <2>1. generation \in Generations
    BY DEF TypeOK
  <2> QED
    BY <2>1, BoundsOK DEF Stamps, Generations
<1>c. (IF rr.verdict = "none" THEN reason ELSE rr.verdict) \in Reasons
  BY DEF TypeOK
<1>d. Fault => faults' \in 0..MaxFaults
  <2>1. faults \in 0..MaxFaults
    BY DEF TypeOK
  <2> QED
    BY <2>1, BoundsOK DEF Fault
<1>1. ASSUME NEW s \in ManagementStates, UserEdits(s) PROVE TypeOK'
  <2>1. generation \in Generations /\ generation < MaxEdits
    BY <1>1 DEF UserEdits, TypeOK
  <2>2. generation + 1 \in Generations
    BY <2>1, BoundsOK DEF Generations
  <2> QED
    BY <1>1, <2>2 DEF UserEdits, TypeOK, depVars, passVars
<1>2. CASE Begin
  <2>1. rr' \in Pass
    BY <1>2, <1>a, <1>b DEF Begin, TypeOK, NoPass, Stamps, Reasons
  <2> QED
    BY <1>2, <2>1 DEF Begin, TypeOK, depVars, specVars, Labels
<1>3. CASE Initialize
  <2>1. KeepInstalled(rr.state, cached) \in BOOLEAN
    BY DEF KeepInstalled
  <2>2. rr' \in Pass
    BY <1>3, <2>1 DEF Initialize, TypeOK
  <2> QED
    BY <1>3, <2>2 DEF Initialize, TypeOK, depVars, specVars, Labels
<1>4. CASE EnsureInfraRBAC
  <2>1. EnsuredInfra \subseteq InfraObjects
    BY DEF EnsuredInfra, TypeOK
  <2> QED
    BY <1>4, <2>1 DEF EnsureInfraRBAC, TypeOK, depVars, specVars, Labels
<1>5. CASE MigrateSelector
  <2>1. dep' \in D /\ cached' \in D /\ inFlight' \in Seq(D) /\ pending' \in BOOLEAN
    <3>1. CASE WriteDep(Absent)
      BY <3>1, WriteDepTyped
    <3>2. CASE UNCHANGED <<depVars, pending>>
      BY <3>2 DEF TypeOK, depVars
    <3> QED
      BY <1>5, <3>1, <3>2 DEF MigrateSelector
  <2> QED
    BY <1>5, <2>1 DEF MigrateSelector, TypeOK, specVars, Labels
<1>6. CASE DeployBundle
  <2>1. companions' \in [Companions -> Stamps \cup {Absent}]
    BY <1>6 DEF DeployBundle, WriteCompanions, TypeOK
  <2>2. pending' \in BOOLEAN
    BY <1>6 DEF DeployBundle, WriteCompanions, TypeOK
  <2> QED
    BY <1>6, <2>1, <2>2 DEF DeployBundle, TypeOK, depVars, specVars, Labels
<1>7. CASE DeployController
  <2>1. dep' \in D /\ cached' \in D /\ inFlight' \in Seq(D) /\ pending' \in BOOLEAN
    <3>1. CASE WriteDep(Applied(dep, rr))
      BY <3>1, WriteDepTyped, AppliedTyped
    <3>2. CASE UNCHANGED <<depVars, pending>>
      BY <3>2 DEF TypeOK, depVars
    <3> QED
      BY <1>7, <3>1, <3>2 DEF DeployController
  <2> QED
    BY <1>7, <2>1 DEF DeployController, TypeOK, specVars, Labels
<1>8. CASE DeployControllerRefused
  BY <1>8, <1>a, <1>c
  DEF DeployControllerRefused, Abort, PatchStatus, TypeOK, specVars, depVars, Labels
<1>9. CASE OverWriteCondition
  <2>1. Verdict(rr.state, cached) \in Reasons
    BY DEF Verdict, Reasons
  <2>2. Collectable \subseteq Bundle
    BY DEF Collectable
  <2>3. rr' \in Pass
    BY <1>9, <2>1, <2>2 DEF OverWriteCondition, TypeOK
  <2> QED
    BY <1>9, <2>3 DEF OverWriteCondition, TypeOK, depVars, specVars, Labels
<1>10. ASSUME NEW o \in Bundle, Collect(o) PROVE TypeOK'
  <2>1. rr' \in Pass
    BY <1>10 DEF Collect, TypeOK
  <2>2. /\ dep' \in D /\ cached' \in D /\ inFlight' \in Seq(D) /\ pending' \in BOOLEAN
        /\ companions' \in [Companions -> Stamps \cup {Absent}]
    <3>1. CASE WriteDep(Absent) /\ UNCHANGED companions
      BY <3>1, WriteDepTyped DEF TypeOK
    <3>2. CASE /\ WriteCompanions([companions EXCEPT ![o] = Absent])
               /\ UNCHANGED depVars
      BY <3>2 DEF WriteCompanions, TypeOK, depVars
    <3>3. CASE UNCHANGED <<depVars, companions, pending>>
      BY <3>3 DEF TypeOK, depVars
    <3> QED
      BY <1>10, <3>1, <3>2, <3>3 DEF Collect
  <2> QED
    BY <1>10, <2>1, <2>2 DEF Collect, TypeOK, specVars
<1>11. CASE EndPass
  BY <1>11, <1>a, <1>c DEF EndPass, PatchStatus, TypeOK, specVars, depVars, Labels
<1>12. CASE ControllerBootstraps
  BY <1>12 DEF ControllerBootstraps, TypeOK, specVars, depVars, passVars
<1>13. CASE ControllerCleansUp
  BY <1>13 DEF ControllerCleansUp, TypeOK, specVars, depVars, passVars
<1>14. CASE ControllerReports
  <2>1. [dep EXCEPT !.completed = TRUE] \in D
    BY <1>14 DEF ControllerReports, ControllerRuns, TypeOK, DeploymentStates
  <2>2. dep' \in D /\ cached' \in D /\ inFlight' \in Seq(D) /\ pending' \in BOOLEAN
    BY <1>14, <2>1, WriteDepTyped DEF ControllerReports
  <2> QED
    BY <1>14, <2>2 DEF ControllerReports, TypeOK, specVars, passVars
<1>15. CASE PassFails
  BY <1>15, <1>a, <1>c, <1>d
  DEF PassFails, Abort, PatchStatus, TypeOK, specVars, depVars, Labels
<1>16. CASE EnsureInfraFailsHalfway
  <2>1. infra' \subseteq InfraObjects
    BY <1>16 DEF EnsureInfraFailsHalfway, InfraObjects, TypeOK
  <2> QED
    BY <1>16, <2>1, <1>a, <1>c, <1>d
    DEF EnsureInfraFailsHalfway, Abort, PatchStatus, TypeOK, specVars, depVars, Labels
<1>17. ASSUME NEW applied \in SUBSET Companions, DeployBundleFailsHalfway(applied)
       PROVE  TypeOK'
  <2>1. companions' \in [Companions -> Stamps \cup {Absent}]
    BY <1>17 DEF DeployBundleFailsHalfway, TypeOK
  <2> QED
    BY <1>17, <2>1, <1>a, <1>c, <1>d
    DEF DeployBundleFailsHalfway, Abort, PatchStatus, TypeOK, specVars, depVars, Labels
<1>18. CASE Crash
  <2>1. <<>> \in Seq(D)
    OBVIOUS
  <2> QED
    BY <1>18, <2>1, <1>a, <1>d DEF Crash, TypeOK, specVars, Labels
<1>19. CASE Deliver
  <2>1. inFlight \in Seq(D) /\ inFlight # <<>>
    BY <1>19 DEF Deliver, TypeOK
  <2> HIDE DEF D
  <2>2. Head(inFlight) \in D /\ Tail(inFlight) \in Seq(D)
    BY <2>1
  <2> QED
    BY <1>19, <2>2 DEF D, Deliver, TypeOK, specVars, passVars
<1>20. CASE MigrateSelectorConflicts
  BY <1>20, <1>d
  DEF MigrateSelectorConflicts, TypeOK, specVars, depVars, Labels
<1>21. CASE UNCHANGED vars
  BY <1>21 DEF vars, TypeOK
<1> QED
  BY <1>1, <1>2, <1>3, <1>4, <1>5, <1>6, <1>7, <1>8, <1>9, <1>10, <1>11, <1>12,
     <1>13, <1>14, <1>15, <1>16, <1>17, <1>18, <1>19, <1>20, <1>21
  DEF Next, PassStep, ControllerStep, FaultStep

\* Type correctness: in every environment, whatever fails or lags, the state
\* stays in its declared range (TypeOK of the reconciler's model).
THEOREM TypeCorrect == Spec => []TypeOK
<1> QED
  BY InitTyped, StepTyped, PTL DEF Spec

---------------------------------------------------------------------------
(* The teardown handshake.                                                 *)

\* With no lag, a write to the Deployment is in the cache at once.
LEMMA WriteDepCurrent ==
  ASSUME CacheCurrent, MaxLag = 0, NEW d, WriteDep(d)
  PROVE  dep' = d /\ CacheCurrent'
<1>1. CASE d = dep
  BY <1>1 DEF WriteDep, CacheCurrent
<1>2. CASE d # dep
  <2>1. Append(inFlight, d) = <<d>>
    BY DEF CacheCurrent
  <2>2. Len(<<d>>) > MaxLag /\ Head(<<d>>) = d /\ Tail(<<d>>) = <<>>
    OBVIOUS
  <2> QED
    BY <1>2, <2>1, <2>2 DEF WriteDep, CacheCurrent
<1> QED
  BY <1>1, <1>2

\* The handshake's invariant holds before the first pass.
LEMMA InitIInv ==
  ASSUME SoundEnvironment, Init PROVE IInv
<1>1. PICK legacy \in IF LegacyUpgrade THEN BOOLEAN ELSE {FALSE} :
        /\ dep = IF legacy THEN [requested |-> FALSE, completed |-> FALSE,
                                 legacy |-> TRUE, stamp |-> 0]
                 ELSE Absent
        /\ runtime = legacy
  BY DEF Init
<1>2. [requested |-> FALSE, completed |-> FALSE, legacy |-> TRUE, stamp |-> 0] # Absent
  <2>1. 0 \in Stamps
    BY BoundsOK DEF Stamps
  <2>2. [requested |-> FALSE, completed |-> FALSE, legacy |-> TRUE, stamp |-> 0]
          \in DeploymentStates
    BY <2>1 DEF DeploymentStates
  <2> QED
    BY <2>2, AbsentOK
<1>3. legacy \in BOOLEAN /\ (legacy => LegacyUpgrade)
  BY <1>1
<1>4. pc = "idle" /\ inFlight = <<>> /\ cached = dep
  BY DEF Init
<1>5. CASE legacy
  BY <1>1, <1>2, <1>3, <1>4, <1>5
  DEF IInv, CacheCurrent, PassFollowsSpec, RequestFollowsSpec, ReportIsFinal,
      KeepIsRight, StampIsCurrent, ManagedIsApplied,
      LegacyServes, RemovedKeepsLive, RuntimeIsServed, InPass, Decided, Applying, AppliedAll
<1>6. CASE ~legacy
  BY <1>1, <1>3, <1>4, <1>6
  DEF IInv, CacheCurrent, PassFollowsSpec, RequestFollowsSpec, ReportIsFinal,
      KeepIsRight, StampIsCurrent, ManagedIsApplied,
      LegacyServes, RemovedKeepsLive, RuntimeIsServed, InPass, Decided, Applying, AppliedAll
<1> QED
  BY <1>5, <1>6

\* The handshake's invariant is kept by every step.
LEMMA StepIInv ==
  ASSUME SoundEnvironment, TypeOK, IInv, [Next]_vars PROVE IInv'
<1> USE DEF IInv, CacheCurrent, PassFollowsSpec, RequestFollowsSpec, ReportIsFinal,
            KeepIsRight, StampIsCurrent, ManagedIsApplied,
            LegacyServes, RemovedKeepsLive, RuntimeIsServed, InPass, Decided, Applying, AppliedAll
<1>w. ASSUME NEW d, WriteDep(d) PROVE dep' = d /\ inFlight' = <<>> /\ cached' = d
  BY <1>w, WriteDepCurrent DEF SoundEnvironment
<1>f. Fault /\ runtime => dep # Absent
  BY DEF Fault, Recreating, SoundEnvironment
<1>1. ASSUME NEW s \in ManagementStates, UserEdits(s) PROVE IInv'
  BY <1>1, SettingsOK
  DEF UserEdits, RemovalFinished, SoundEnvironment, depVars, passVars, TeardownCompleted, TypeOK
<1>2. CASE Begin
  BY <1>2, SettingsOK DEF Begin, SoundEnvironment, depVars, specVars, TeardownCompleted, TypeOK, NoPass
<1>3. CASE Initialize
  BY <1>3 DEF Initialize, KeepInstalled, depVars, specVars, TeardownCompleted, TypeOK
<1>4. CASE EnsureInfraRBAC
  BY <1>4 DEF EnsureInfraRBAC, depVars, specVars, TeardownCompleted
<1>5. CASE MigrateSelector
  BY <1>5, <1>w DEF MigrateSelector, depVars, specVars, TeardownCompleted
<1>6. CASE DeployBundle
  BY <1>6 DEF DeployBundle, WriteCompanions, depVars, specVars, TeardownCompleted
<1>7. CASE DeployController
  <2>0. pc = "controller" /\ pc' = "status" /\ rr' = rr /\ UNCHANGED <<specVars, companions, runtime>>
    BY <1>7 DEF DeployController
  <2>1. CASE rr.keep
    <3>1. dep' = Applied(dep, rr) /\ inFlight' = <<>> /\ cached' = dep'
      BY <1>7, <2>1, <1>w DEF DeployController
    <3>2. dep' # Absent
      BY <3>1, AppliedTyped, AbsentOK
    <3>3. /\ dep'.requested = (rr.state = "Removed")
          /\ dep'.completed = (IF dep = Absent THEN FALSE ELSE dep.completed)
          /\ dep'.legacy = FALSE /\ dep'.stamp = rr.gen
      BY <3>1 DEF Applied
    <3>4. ReportIsFinal'
      BY <2>0, <3>2, <3>3
    <3> QED
      BY <2>0, <2>1, <3>1, <3>2, <3>3, <3>4 DEF specVars
  <2>2. CASE ~rr.keep
    BY <1>7, <2>0, <2>2 DEF DeployController, depVars, specVars, TeardownCompleted
  <2> QED
    BY <2>1, <2>2
<1>8. CASE DeployControllerRefused
  BY <1>8 DEF DeployControllerRefused, Abort, SelectorImmutable, NoPass, specVars, depVars
<1>9. CASE OverWriteCondition
  BY <1>9 DEF OverWriteCondition, depVars, specVars, TeardownCompleted, TypeOK
<1>10. ASSUME NEW o \in Bundle, Collect(o) PROVE IInv'
  <2>0. /\ pc = "gc" /\ pc' = "gc" /\ UNCHANGED <<specVars, runtime>>
        /\ rr'.state = rr.state /\ rr'.gen = rr.gen /\ rr'.keep = rr.keep
    BY <1>10 DEF Collect, TypeOK
  <2>1. CASE dep' = Absent /\ o = Controller /\ dep # Absent /\ Deletable(o) /\ UNCHANGED companions
    <3>1. ~runtime /\ rr.state = "Removed"
      BY <2>0, <2>1 DEF Deletable, StampOf, TeardownCompleted, TypeOK
    <3>2. inFlight' = <<>> /\ cached' = dep'
      BY <1>10, <2>1, <1>w DEF Collect, StampOf, depVars
    <3> QED
      BY <2>0, <2>1, <3>1, <3>2 DEF specVars, TeardownCompleted
  <2>2. CASE /\ UNCHANGED depVars
             /\ companions' = [companions EXCEPT ![o] = Absent]
             /\ o # Controller /\ Deletable(o)
    <3>1. rr.state # "Managed"
      BY <2>0, <2>2 DEF Deletable, StampOf, TeardownCompleted, Bundle, TypeOK
    <3> QED
      BY <2>0, <2>2, <3>1 DEF specVars, depVars, TeardownCompleted
  <2>3. CASE UNCHANGED <<depVars, companions>>
    BY <2>0, <2>3 DEF specVars, depVars, TeardownCompleted
  <2> QED
    BY <1>10, <1>w, <2>1, <2>2, <2>3 DEF Collect, WriteCompanions, StampOf
<1>11. CASE EndPass
  BY <1>11 DEF EndPass, NoPass, specVars, depVars
<1>12. CASE ControllerBootstraps
  BY <1>12 DEF ControllerBootstraps, ControllerRuns, specVars, depVars, passVars
<1>13. CASE ControllerCleansUp
  BY <1>13 DEF ControllerCleansUp, ControllerRuns, specVars, depVars, passVars
<1>14. CASE ControllerReports
  <2>0. UNCHANGED <<specVars, companions, runtime, passVars>> /\ dep # Absent /\ dep.requested /\ ~runtime
    BY <1>14 DEF ControllerReports, ControllerRuns
  <2>1. dep' = [dep EXCEPT !.completed = TRUE] /\ inFlight' = <<>> /\ cached' = dep'
    BY <1>14, <1>w DEF ControllerReports
  <2>2. dep \in DeploymentStates
    BY <2>0 DEF TypeOK
  <2>3. /\ dep' \in DeploymentStates /\ dep'.completed
        /\ dep'.requested = dep.requested /\ dep'.legacy = dep.legacy /\ dep'.stamp = dep.stamp
    BY <2>1, <2>2 DEF DeploymentStates
  <2>4. dep' # Absent
    BY <2>3, AbsentOK
  <2> QED
    BY <2>0, <2>1, <2>3, <2>4 DEF specVars, passVars, TeardownCompleted
<1>15. CASE PassFails
  BY <1>15, <1>f DEF PassFails, Abort, NoPass, specVars, depVars
<1>16. CASE EnsureInfraFailsHalfway
  BY <1>16, <1>f DEF EnsureInfraFailsHalfway, Abort, NoPass, specVars, depVars
<1>17. ASSUME NEW applied \in SUBSET Companions, DeployBundleFailsHalfway(applied)
       PROVE  IInv'
  BY <1>17, <1>f DEF DeployBundleFailsHalfway, Abort, NoPass, specVars, depVars
<1>18. CASE Crash
  BY <1>18, <1>f DEF Crash, NoPass, specVars
<1>19. CASE Deliver
  BY <1>19 DEF Deliver
<1>20. CASE MigrateSelectorConflicts
  BY <1>20, <1>f DEF MigrateSelectorConflicts, specVars, depVars
<1>21. CASE UNCHANGED vars
  BY <1>21 DEF vars, TeardownCompleted
<1> QED
  BY <1>1, <1>2, <1>3, <1>4, <1>5, <1>6, <1>7, <1>8, <1>9, <1>10, <1>11, <1>12,
     <1>13, <1>14, <1>15, <1>16, <1>17, <1>18, <1>19, <1>20, <1>21
  DEF Next, PassStep, ControllerStep, FaultStep

\* In the sound environment the invariant holds throughout.
LEMMA Invariance == SoundEnvironment => (Spec => [](TypeOK /\ IInv))
<1>1. SoundEnvironment /\ Init => TypeOK /\ IInv
  BY InitTyped, InitIInv
<1>2. SoundEnvironment /\ TypeOK /\ IInv /\ [Next]_vars => TypeOK' /\ IInv'
  BY StepTyped, StepIInv
<1> SUFFICES ASSUME SoundEnvironment PROVE Spec => [](TypeOK /\ IInv)
  OBVIOUS
<1>3. Init => TypeOK /\ IInv
  BY <1>1
<1>4. TypeOK /\ IInv /\ [Next]_vars => (TypeOK /\ IInv)'
  BY <1>2
<1> QED
  BY <1>3, <1>4, PTL DEF Spec

\* The handshake is sound: with the informer up to date, no removal taken back
\* half-way, Managed or Removed always given and no failure while a legacy
\* Deployment is recreated, maas-controller is never gone before it has cleaned up
\* (NoOrphanedRuntime), however many edits, failed passes and crashes there are.
THEOREM HandshakeSound == SoundEnvironment => (Spec => []NoOrphanedRuntime)
<1>1. IInv => NoOrphanedRuntime
  BY DEF IInv, RuntimeIsServed, NoOrphanedRuntime, Applying, Recreating
<1> QED
  BY <1>1, Invariance, PTL

\* In the same environment garbage collection never takes the bundle of a pass
\* that saw Managed (maasAwareGCPredicate on a bundle just applied).
THEOREM ManagedKept == SoundEnvironment => (Spec => ManagedNeverCollected)
<1>1. ASSUME SoundEnvironment, TypeOK, IInv, [Next]_vars,
             rr.state = "Managed", pc = "gc"
      PROVE  companions' = companions /\ (dep # Absent => dep' # Absent)
  <2> USE DEF IInv
  <2>1. /\ dep # Absent /\ dep.stamp = rr.gen /\ ~dep.completed /\ cached = dep
        /\ \A c \in Companions : companions[c] = rr.gen
    BY <1>1 DEF ManagedIsApplied, StampIsCurrent, AppliedAll, KeepIsRight, Decided,
       ReportIsFinal, RequestFollowsSpec, CacheCurrent, InPass
  <2>2. \A o \in Bundle : ~Deletable(o)
    BY <2>1 DEF Deletable, StampOf, TeardownCompleted, Bundle
  <2>3. ASSUME NEW o \in Bundle, Collect(o)
        PROVE  companions' = companions /\ dep' = dep
    BY <2>2, <2>3 DEF Collect, depVars
  <2>4. CASE ControllerReports
    <3>1. IInv' /\ TypeOK'
      BY <1>1, StepIInv, StepTyped
    <3>2. pc' = "gc" /\ rr' = rr /\ companions' = companions
      BY <1>1, <2>4 DEF ControllerReports, passVars
    <3> QED
      BY <1>1, <3>1, <3>2 DEF ManagedIsApplied, AppliedAll
  <2> QED
    BY <1>1, <2>3, <2>4
    DEF Next, PassStep, ControllerStep, FaultStep, vars, depVars, UserEdits, Begin,
        Initialize, EnsureInfraRBAC, MigrateSelector, DeployBundle, DeployController,
        DeployControllerRefused, OverWriteCondition, EndPass, ControllerBootstraps,
        ControllerCleansUp, PassFails, EnsureInfraFailsHalfway,
        DeployBundleFailsHalfway, MigrateSelectorConflicts, Crash, Deliver
<1>2. SoundEnvironment /\ TypeOK /\ IInv /\ [Next]_vars =>
        [rr.state = "Managed" /\ pc = "gc" =>
           companions' = companions /\ (dep # Absent => dep' # Absent)]_vars
  BY <1>1
<1> SUFFICES ASSUME SoundEnvironment PROVE Spec => ManagedNeverCollected
  OBVIOUS
<1>3. TypeOK /\ IInv /\ [Next]_vars =>
        [rr.state = "Managed" /\ pc = "gc" =>
           companions' = companions /\ (dep # Absent => dep' # Absent)]_vars
  BY <1>2
<1> QED
  BY <1>3, Invariance, PTL DEF Spec, ManagedNeverCollected

\* And the secret-migrate Role is never withdrawn before maas-controller has
\* cleaned up (ensureInfraSecretMigrationRBAC while Removed).
THEOREM InfraHeld == SoundEnvironment => (Spec => InfraHeldUntilTornDown)
<1>1. ASSUME SoundEnvironment, TypeOK, IInv, [Next]_vars,
             "Role" \in infra, "Role" \notin infra'
      PROVE  ~runtime
  <2>1. pc = "infra" /\ "Role" \notin EnsuredInfra
    BY <1>1
    DEF Next, PassStep, ControllerStep, FaultStep, vars, UserEdits, Begin,
        Initialize, EnsureInfraRBAC, MigrateSelector, DeployBundle, DeployController,
        DeployControllerRefused, OverWriteCondition, Collect, EndPass,
        ControllerBootstraps, ControllerCleansUp, ControllerReports, PassFails,
        EnsureInfraFailsHalfway, DeployBundleFailsHalfway, MigrateSelectorConflicts, Crash, Deliver
  <2>2. TeardownCompleted(cached)
    BY <1>1, <2>1, SettingsOK DEF EnsuredInfra, InfraObjects
  <2> QED
    BY <1>1, <2>1, <2>2 DEF IInv, CacheCurrent, TeardownCompleted, ReportIsFinal,
       RuntimeIsServed, Applying
<1> SUFFICES ASSUME SoundEnvironment PROVE Spec => InfraHeldUntilTornDown
  OBVIOUS
<1>2. TypeOK /\ IInv /\ [Next]_vars =>
        [("Role" \in infra /\ "Role" \notin infra') => ~runtime]_vars
  BY <1>1
<1> QED
  BY <1>2, Invariance, PTL DEF Spec, InfraHeldUntilTornDown

\* A pass that saw Removed never brings a missing maas-controller back, one it has
\* itself deleted for its selector apart (a missing Deployment counts as a finished
\* teardown in maasTeardownCompleted).
THEOREM RemovalStands == SoundEnvironment => (Spec => RemovedNeverReinstalls)
<1>1. ASSUME SoundEnvironment, TypeOK, IInv, [Next]_vars,
             rr.state = "Removed", dep = Absent, ~Recreating
      PROVE  dep' = Absent
  <2> USE <1>1 DEF IInv, CacheCurrent
  <2>1. CASE DeployController
    BY <2>1 DEF DeployController, RemovedKeepsLive, Recreating, depVars
  <2>2. CASE MigrateSelector
    BY <2>2 DEF MigrateSelector, depVars
  <2>3. ASSUME NEW o \in Bundle, Collect(o) PROVE dep' = Absent
    BY <2>3 DEF Collect, depVars, WriteDep
  <2>4. CASE ControllerReports
    BY <2>4 DEF ControllerReports, ControllerRuns
  <2> QED
    BY <2>1, <2>2, <2>3, <2>4
    DEF Next, PassStep, ControllerStep, FaultStep, vars, depVars, UserEdits, Begin,
        Initialize, EnsureInfraRBAC, DeployBundle, DeployControllerRefused,
        OverWriteCondition, EndPass, ControllerBootstraps, ControllerCleansUp,
        PassFails, EnsureInfraFailsHalfway, DeployBundleFailsHalfway,
        MigrateSelectorConflicts, Crash, Deliver
<1> SUFFICES ASSUME SoundEnvironment PROVE Spec => RemovedNeverReinstalls
  OBVIOUS
<1>2. TypeOK /\ IInv /\ [Next]_vars =>
        [rr.state = "Removed" /\ dep = Absent /\ ~Recreating => dep' = Absent]_vars
  BY <1>1
<1> QED
  BY <1>2, Invariance, PTL DEF Spec, RemovedNeverReinstalls

\* What the abstract handshake sees of a state depends on the Deployment and the
\* runtime only: there is a runtime without a Deployment only while recreating.
LEMMA StageOf ==
  ASSUME RuntimeIsServed
  PROVE  Stage = IF dep = Absent THEN IF runtime THEN "serving" ELSE "absent"
                 ELSE IF dep.completed THEN "reported"
                 ELSE IF dep.requested THEN "asked" ELSE "serving"
BY DEF RuntimeIsServed, Applying, Stage, Recreating

\* Every step of the reconciler, the user, the informer or maas-controller is a
\* step of the abstract handshake or leaves it alone.
LEMMA StepSimulates ==
  ASSUME SoundEnvironment, TypeOK, IInv, [Next]_vars
  PROVE  [Handshake!Next]_(Handshake!hvars)
<1> USE DEF IInv, CacheCurrent
<1> DEFINE Simulated == Handshake!Next \/ UNCHANGED <<Stage, runtime>>
<1>0. SUFFICES Simulated
  BY DEF Handshake!hvars
<1>w. ASSUME NEW d, WriteDep(d) PROVE dep' = d
  BY <1>w, WriteDepCurrent DEF SoundEnvironment
<1>s. Stage = IF dep = Absent THEN IF runtime THEN "serving" ELSE "absent"
              ELSE IF dep.completed THEN "reported"
              ELSE IF dep.requested THEN "asked" ELSE "serving"
  BY StageOf
<1>t. Stage' = IF dep' = Absent THEN IF runtime' THEN "serving" ELSE "absent"
               ELSE IF dep'.completed THEN "reported"
               ELSE IF dep'.requested THEN "asked" ELSE "serving"
  <2>1. RuntimeIsServed'
    BY StepIInv
  <2> QED
    BY <2>1 DEF RuntimeIsServed, Applying, Stage, Recreating
<1> HIDE DEF IInv
<1>1. CASE UNCHANGED <<dep, runtime>>
  BY <1>1, <1>s, <1>t
<1>2. CASE MigrateSelector
  <2>1. CASE UNCHANGED dep
    BY <1>1, <1>2, <2>1 DEF MigrateSelector
  <2>2. CASE dep' # dep
    <3>1. dep' = Absent /\ dep # Absent /\ dep.legacy /\ runtime' = runtime
      BY <1>2, <1>w, <2>2 DEF MigrateSelector, depVars, IInv
    <3>2. Stage = "serving" /\ Stage' = "serving"
      BY <3>1, <1>s, <1>t DEF IInv, LegacyServes
    <3> QED
      BY <3>1, <3>2
  <2> QED
    BY <2>1, <2>2
<1>3. CASE DeployController
  <2>0. pc = "controller" /\ runtime' = runtime
    BY <1>3 DEF DeployController
  <2>1. CASE ~rr.keep
    BY <1>1, <1>3, <2>0, <2>1 DEF DeployController, depVars
  <2>2. CASE rr.keep
    <3>1. dep' = Applied(dep, rr) /\ dep' # Absent
      BY <1>3, <2>2, <1>w, AppliedTyped, AbsentOK DEF DeployController
    <3>2. /\ dep'.requested = (rr.state = "Removed")
          /\ dep'.completed = (IF dep = Absent THEN FALSE ELSE dep.completed)
      BY <3>1 DEF Applied
    <3>3. rr.state \in {"Managed", "Removed"}
      BY <2>0 DEF IInv, PassFollowsSpec, InPass
    <3>4. CASE dep = Absent /\ ~runtime
      <4>1. rr.state = "Managed"
        BY <2>0, <2>2, <3>3, <3>4 DEF IInv, RemovedKeepsLive
      <4>2. Stage = "absent" /\ Stage' = "serving"
        BY <3>1, <3>2, <3>4, <4>1, <1>s, <1>t
      <4> QED
        BY <2>0, <4>2 DEF Handshake!Next, Handshake!Install
    <3>5. CASE rr.state = "Managed" /\ (dep = Absent => runtime)
      <4>1. dep # Absent => ~dep.requested /\ ~dep.completed
        BY <2>0, <3>5 DEF IInv, RequestFollowsSpec, ReportIsFinal, InPass
      <4>2. Stage = "serving" /\ Stage' = "serving"
        BY <3>1, <3>2, <3>5, <4>1, <1>s, <1>t
      <4> QED
        BY <2>0, <4>2
    <3>6. CASE rr.state = "Removed" /\ dep # Absent /\ (dep.completed \/ dep.requested)
      <4>1. Stage' = Stage
        BY <3>1, <3>2, <3>6, <1>s, <1>t
      <4> QED
        BY <2>0, <4>1
    <3>7. CASE /\ rr.state = "Removed" /\ (dep = Absent => runtime)
               /\ dep # Absent => ~dep.completed /\ ~dep.requested
      <4>1. Stage = "serving" /\ Stage' = "asked"
        BY <3>1, <3>2, <3>7, <1>s, <1>t
      <4> QED
        BY <2>0, <4>1 DEF Handshake!Next, Handshake!Ask
    <3> QED
      BY <3>3, <3>4, <3>5, <3>6, <3>7
  <2> QED
    BY <2>1, <2>2
<1>4. ASSUME NEW o \in Bundle, Collect(o) PROVE Simulated
  <2>0. pc = "gc" /\ runtime' = runtime
    BY <1>4 DEF Collect
  <2>1. CASE dep' = dep
    BY <1>1, <2>0, <2>1
  <2>2. CASE dep' # dep
    <3>1. dep' = Absent /\ dep # Absent /\ (dep.stamp # rr.gen \/ TeardownCompleted(cached))
      BY <1>4, <2>2, <1>w DEF Collect, depVars, Deletable, StampOf
    <3>2. dep.completed /\ ~runtime
      BY <2>0, <3>1 DEF IInv, ReportIsFinal, TeardownCompleted, StampIsCurrent, AppliedAll, KeepIsRight, Decided
    <3>3. Stage = "reported" /\ Stage' = "absent"
      BY <2>0, <3>1, <3>2, <1>s, <1>t
    <3> QED
      BY <2>0, <3>3 DEF Handshake!Next, Handshake!Remove
  <2> QED
    BY <2>1, <2>2
<1>5. CASE ControllerBootstraps
  <2>1. dep # Absent /\ ~dep.requested /\ ~dep.completed /\ runtime' = TRUE /\ dep' = dep
    BY <1>5 DEF ControllerBootstraps, ControllerRuns, depVars, IInv, ReportIsFinal
  <2>2. Stage = "serving" /\ Stage' = "serving"
    BY <2>1, <1>s, <1>t
  <2> QED
    BY <2>1, <2>2 DEF Handshake!Next, Handshake!Bootstrap
<1>6. CASE ControllerCleansUp
  <2>1. /\ dep # Absent /\ dep.requested /\ ~dep.completed /\ runtime
        /\ runtime' = FALSE /\ dep' = dep
    BY <1>6 DEF ControllerCleansUp, ControllerRuns, depVars, IInv, ReportIsFinal
  <2>2. Stage = "asked" /\ Stage' = "asked"
    BY <2>1, <1>s, <1>t
  <2> QED
    BY <2>1, <2>2 DEF Handshake!Next, Handshake!CleanUp
<1>7. CASE ControllerReports
  <2>1. /\ dep # Absent /\ dep.requested /\ ~dep.completed /\ ~runtime
        /\ runtime' = runtime /\ dep' = [dep EXCEPT !.completed = TRUE]
    BY <1>7, <1>w DEF ControllerReports, ControllerRuns
  <2>2. dep \in DeploymentStates
    BY <2>1 DEF TypeOK
  <2>3. dep' \in DeploymentStates /\ dep'.completed
    BY <2>1, <2>2 DEF DeploymentStates
  <2>4. dep' # Absent
    BY <2>3, AbsentOK
  <2>5. Stage = "asked" /\ Stage' = "reported"
    BY <2>1, <2>3, <2>4, <1>s, <1>t
  <2> QED
    BY <2>1, <2>5 DEF Handshake!Next, Handshake!Report
<1> QED
  BY <1>1, <1>2, <1>3, <1>4, <1>5, <1>6, <1>7
  DEF Next, PassStep, ControllerStep, FaultStep, vars, depVars, UserEdits, Begin,
      Initialize, EnsureInfraRBAC, DeployBundle, DeployControllerRefused,
      OverWriteCondition, EndPass, PassFails, EnsureInfraFailsHalfway,
      DeployBundleFailsHalfway, MigrateSelectorConflicts, Crash, Deliver

\* The reconciler and maas-controller together implement the abstract teardown
\* handshake (ImplementsHandshake), on a cluster moved off the legacy selector too:
\* whatever maas-controller created, it has cleaned up before it is removed.
THEOREM Refinement == SoundEnvironment => (Spec => ImplementsHandshake)
<1> SUFFICES ASSUME SoundEnvironment PROVE Spec => Handshake!Spec
  BY DEF ImplementsHandshake
<1>1. Init => Handshake!Init
  <2> SUFFICES ASSUME Init PROVE Handshake!Init
    OBVIOUS
  <2>1. IInv /\ runtime \in BOOLEAN
    BY InitIInv, InitTyped DEF TypeOK
  <2>2. runtime => dep # Absent /\ dep.legacy
    <3>1. runtime => dep # Absent
      BY <2>1 DEF Init, IInv, RuntimeIsServed, Applying
    <3>2. runtime => dep.legacy
      BY DEF Init
    <3> QED
      BY <3>1, <3>2
  <2>3. CASE runtime
    BY <2>1, <2>2, <2>3, StageOf DEF IInv, LegacyServes, Handshake!Init
  <2>4. CASE ~runtime
    <3>1. dep = Absent
      BY <2>4 DEF Init
    <3> QED
      BY <2>1, <2>4, <3>1, StageOf DEF IInv, Handshake!Init
  <2> QED
    BY <2>3, <2>4
<1>2. TypeOK /\ IInv /\ [Next]_vars => [Handshake!Next]_(Handshake!hvars)
  BY StepSimulates
<1> QED
  BY <1>1, <1>2, Invariance, PTL DEF Spec, Handshake!Spec

\* What the abstract handshake is worth: no runtime without a maas-controller that
\* has not reported, in any system that implements it.
THEOREM HandshakeProtects == Handshake!Spec => [](runtime => Stage \in {"serving", "asked"})
<1> DEFINE Protected == runtime => Stage \in {"serving", "asked"}
<1>1. Handshake!Init => Protected
  BY DEF Handshake!Init
<1>2. Protected /\ [Handshake!Next]_(Handshake!hvars) => Protected'
  BY DEF Handshake!Next, Handshake!hvars, Handshake!Install, Handshake!Bootstrap,
         Handshake!Ask, Handshake!CleanUp, Handshake!Report, Handshake!Remove
<1> QED
  BY <1>1, <1>2, PTL DEF Handshake!Spec
=============================================================================
