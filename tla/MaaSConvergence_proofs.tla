----------------------- MODULE MaaSConvergence_proofs -----------------------
(***************************************************************************)
(* Proof that MaaSLifecycle comes to rest only where the spec asks it to,  *)
(* in every environment: any number of edits, faults and versions the      *)
(* informer owes, early re-enabling and an unset state included.           *)
(*                                                                         *)
(* What a pass writes, and what others write during it, comes back as an   *)
(* event.  So a pass that ends with an empty queue and an idle informer    *)
(* has changed nothing: it found every object as it would have made it.    *)
(***************************************************************************)
EXTENDS MaaSLifecycle_proofs, SequenceTheorems

---------------------------------------------------------------------------
(* The inductive invariant.                                                *)

\* The last version the informer delivers is the live one.
CacheFollows ==
  IF inFlight = <<>> THEN cached = dep ELSE inFlight[Len(inFlight)] = dep

PassIsPast ==
  /\ rr.gen <= generation
  /\ InPass => rr.gen > 0
  /\ InPass /\ rr.gen = generation => rr.state = managementState
  /\ rr.state = "" => ~rr.keep

StampsArePast ==
  /\ dep # Absent => dep.stamp <= generation
  /\ \A c \in Companions : companions[c] # Absent => companions[c] <= generation

\* Only a pass over a set state applies anything.
UnsetNotApplied ==
  managementState = "" => /\ dep # Absent => dep.stamp # generation
                          /\ \A c \in Companions : companions[c] # generation

RequestIsStamped ==
  dep # Absent /\ (dep.requested \/ dep.completed) => dep.stamp > 0

InfraOnlyApart == ~InfraSeparate => infra = {}

History ==
  CacheFollows /\ PassIsPast /\ StampsArePast /\ UnsetNotApplied
    /\ RequestIsStamped /\ InfraOnlyApart

\* Nothing has happened since the pass began.
Undisturbed == ~pending /\ inFlight = <<>>

KeepIsCurrent    == rr.keep = KeepInstalled(rr.state, dep)
InfraInPlace     == infra = EnsuredInfra
BundleInPlace    == rr.keep => \A c \in Companions : companions[c] = rr.gen
ControllerInPlace ==
  rr.keep => /\ dep # Absent
             /\ dep.requested = (rr.state = "Removed")
             /\ dep.stamp = rr.gen
VerdictIsCurrent == rr.verdict = Verdict(rr.state, dep)
SweptStay        == \A o \in Collectable : o \in rr.sweep \/ ~Deletable(o)

\* An undisturbed pass has found in place what it has been through.
Unmoved ==
  InPass /\ Undisturbed =>
    /\ rr.gen = generation
    /\ pc # "initialize" => KeepIsCurrent
    /\ pc \notin {"initialize", "infra"} => InfraInPlace
    /\ pc \in {"controller", "status", "gc"} => BundleInPlace
    /\ pc \in {"status", "gc"} => ControllerInPlace
    /\ pc = "gc" => VerdictIsCurrent /\ SweptStay

RestInv == History /\ Unmoved /\ SettledMatchesSpec

---------------------------------------------------------------------------
(* Lemmas.                                                                 *)

\* Taking the head of a queue leaves its last element last.
LEMMA LastOfTail ==
  ASSUME NEW D, NEW q \in Seq(D), q # <<>>
  PROVE  IF Tail(q) = <<>> THEN Head(q) = q[Len(q)]
                           ELSE Tail(q)[Len(Tail(q))] = q[Len(q)]
<1>1. Len(Tail(q)) = Len(q) - 1
  BY HeadTailProperties
<1>2. Len(q) \in Nat
  BY LenProperties
<1>3. CASE Tail(q) = <<>>
  <2>1. Len(<<>>) = 0
    BY EmptySeq
  <2>2. Len(Tail(q)) = 0
    BY <1>3, <2>1, Zenon
  <2>3. Len(q) - 1 = 0
    BY <1>1, <2>2, Zenon
  <2>4. Len(q) = 1
    BY <1>2, <2>3
  <2>5. Head(q) = q[1]
    OBVIOUS
  <2> QED
    BY <1>3, <2>4, <2>5, Zenon
<1>4. CASE Tail(q) # <<>>
  <2>1. Tail(q) \in Seq(D) /\ \A i \in 1..Len(Tail(q)) : Tail(q)[i] = q[i + 1]
    BY HeadTailProperties
  <2>2. Len(Tail(q)) > 0
    BY <1>4, <2>1, EmptySeq
  <2> QED
    BY <1>2, <1>1, <1>4, <2>1, <2>2
<1> QED
  BY <1>3, <1>4

\* A write to the Deployment is the last version the informer will deliver.
LEMMA WriteDepFollows ==
  ASSUME TypeOK, CacheFollows, NEW d \in DeploymentStates \cup {Absent}, WriteDep(d)
  PROVE  dep' = d /\ CacheFollows'
<1> DEFINE D == DeploymentStates \cup {Absent}
          owed == Append(inFlight, d)
<1>1. dep' = d /\ inFlight \in Seq(D) /\ d \in D
  BY DEF WriteDep, TypeOK
<1>2. CASE d = dep
  BY <1>1, <1>2 DEF WriteDep, CacheFollows
<1>3. CASE d # dep
  <2>1. \/ inFlight' = owed
        \/ inFlight' = Tail(owed) /\ cached' = Head(owed)
    BY <1>3 DEF WriteDep
  <2> HIDE DEF D
  <2>2. owed \in Seq(D) /\ owed # <<>> /\ owed[Len(owed)] = d
    BY <1>1, AppendProperties, LenProperties
  <2> HIDE DEF owed
  <2>3. IF Tail(owed) = <<>> THEN Head(owed) = d ELSE Tail(owed)[Len(Tail(owed))] = d
    BY <2>2, LastOfTail
  <2> QED
    BY <1>1, <2>1, <2>2, <2>3 DEF CacheFollows
<1> QED
  BY <1>2, <1>3

\* A write that neither enqueues the AIGateway nor leaves the informer a
\* version to deliver has written what was there.
LEMMA WriteDepSilent ==
  ASSUME TypeOK, NEW d \in DeploymentStates \cup {Absent}, WriteDep(d), Undisturbed'
  PROVE  d = dep /\ Undisturbed /\ UNCHANGED depVars
<1> DEFINE D == DeploymentStates \cup {Absent}
<1>1. inFlight \in Seq(D) /\ d \in D
  BY DEF TypeOK
<1>2. ASSUME d # dep PROVE FALSE
  <2>1. Append(inFlight, d) # <<>>
    BY <1>1, AppendProperties
  <2> QED
    BY <1>2, <2>1 DEF WriteDep, Undisturbed
<1> QED
  BY <1>2 DEF WriteDep, Undisturbed, depVars

\* What enqueues the AIGateway owes nothing to the pass it disturbs.
LEMMA Disturbed == ASSUME pending' = TRUE PROVE Unmoved' /\ SettledMatchesSpec'
  BY DEF Unmoved, Undisturbed, SettledMatchesSpec, Quiet

\* An action inside a pass is not where the system rests.
LEMMA Busy == ASSUME pc' # "idle" PROVE SettledMatchesSpec'
  BY DEF SettledMatchesSpec, Quiet

\* The pass that is gone, and what is not a pass, is past.
LEMMA NoPassIsPast == ASSUME TypeOK', pc' = "idle", rr' = NoPass PROVE PassIsPast'
<1>1. generation' \in Generations
  BY DEF TypeOK
<1>2. generation' \in Nat
  BY <1>1, BoundsOK DEF Generations
<1>3. rr'.gen = 0 /\ ~rr'.keep
  BY DEF NoPass
<1>4. rr'.gen <= generation'
  BY <1>2, <1>3
<1> QED
  BY <1>3, <1>4, Zenon DEF PassIsPast, InPass

\* Stamps and generations compare as numbers.
LEMMA Numbers ==
  ASSUME TypeOK
  PROVE  /\ generation \in Nat /\ generation > 0 /\ rr.gen \in Nat
         /\ dep # Absent => dep \in DeploymentStates /\ dep.stamp \in Nat
         /\ \A c \in Companions : companions[c] # Absent => companions[c] \in Nat
         /\ \A n \in Nat : n <= MaxEdits => n # Absent
         /\ generation # Absent
<1>1. Stamps \subseteq Nat /\ \A n \in Nat : n <= MaxEdits => n \in Stamps
  BY BoundsOK DEF Stamps
<1>2. generation \in Nat /\ generation > 0 /\ generation <= MaxEdits
  <2>1. generation \in Generations
    BY DEF TypeOK
  <2> QED
    BY <2>1, BoundsOK DEF Generations
<1>3. dep # Absent => dep \in DeploymentStates /\ dep.stamp \in Stamps
  BY DEF TypeOK, DeploymentStates
<1>4. \A c \in Companions : companions[c] # Absent => companions[c] \in Stamps
  BY DEF TypeOK
<1>5. rr.gen \in Stamps
  BY DEF TypeOK
<1> QED
  BY <1>1, <1>2, <1>3, <1>4, <1>5, AbsentOK

\* What leaves the spec and the live objects alone keeps what is known of them.
LEMMA ClusterSame ==
  ASSUME History, UNCHANGED <<specVars, dep, companions>>
  PROVE  StampsArePast' /\ UnsetNotApplied' /\ RequestIsStamped'
  BY DEF History, StampsArePast, UnsetNotApplied, RequestIsStamped, specVars

\* What leaves the Deployment and the informer alone leaves the cache as close.
LEMMA CacheSame == ASSUME CacheFollows, UNCHANGED depVars PROVE CacheFollows'
  BY DEF CacheFollows, depVars

\* A pass that goes on with what it has read and decided is as past as before.
LEMMA PassGoesOn ==
  ASSUME PassIsPast, UNCHANGED specVars, InPass,
         rr'.state = rr.state, rr'.gen = rr.gen, rr'.keep = rr.keep
  PROVE  PassIsPast'
  BY DEF PassIsPast, InPass, specVars

\* A deleted Deployment has no stamp and no request.
LEMMA DepGone ==
  ASSUME History, dep' = Absent, UNCHANGED <<specVars, companions>>
  PROVE  StampsArePast' /\ UnsetNotApplied' /\ RequestIsStamped'
  BY DEF History, StampsArePast, UnsetNotApplied, RequestIsStamped, specVars

\* What a pass applies carries a generation that asked for it.
LEMMA AppliedIsPast ==
  ASSUME TypeOK, History, InPass, rr.keep
  PROVE  /\ rr.gen <= generation /\ rr.gen > 0
         /\ managementState = "" => rr.gen # generation
  BY DEF History, PassIsPast, InPass

---------------------------------------------------------------------------
\* Every step keeps the past in the past.
LEMMA StepHistory ==
  ASSUME TypeOK, TypeOK', History, [Next]_vars
  PROVE  History'
<1> USE DEF InPass
<1>a. /\ CacheFollows /\ PassIsPast /\ StampsArePast /\ UnsetNotApplied
      /\ RequestIsStamped /\ InfraOnlyApart
  BY DEF History
<1>b. /\ generation \in Nat /\ generation > 0 /\ rr.gen \in Nat
      /\ \A n \in Nat : n <= MaxEdits => n # Absent
      /\ generation # Absent
  BY Numbers
<1>c. rr \in [state: ManagementStates \cup {""}, gen: Stamps, keep: BOOLEAN,
              verdict: Reasons, sweep: SUBSET Bundle]
  BY DEF TypeOK
<1>1. ASSUME NEW s \in ManagementStates, UserEdits(s) PROVE History'
  <2>1. generation' = generation + 1 /\ generation' <= MaxEdits
    BY <1>1, <1>b, BoundsOK DEF UserEdits
  <2>2. CacheFollows' /\ InfraOnlyApart'
    BY <1>1, <1>a DEF UserEdits, depVars, CacheFollows, InfraOnlyApart
  <2>3. PassIsPast'
    <3>1. pc' = pc /\ rr' = rr
      BY <1>1 DEF UserEdits, passVars
    <3>3. rr.gen <= generation
      BY <1>a, Zenon DEF PassIsPast
    <3>2. rr.gen <= generation' /\ rr.gen # generation'
      BY <1>b, <2>1, <3>3
    <3> QED
      BY <1>a, <3>1, <3>2, Zenon DEF PassIsPast
  <2>4. /\ dep # Absent => dep.stamp \in Nat
        /\ \A c \in Companions : companions[c] # Absent => companions[c] \in Nat
    BY Numbers
  <2>5. StampsArePast' /\ RequestIsStamped'
    BY <1>1, <1>a, <1>b, <2>1, <2>4
    DEF UserEdits, depVars, StampsArePast, RequestIsStamped
  <2>6. generation + 1 # Absent
    BY <1>b, <2>1
  <2>7. UnsetNotApplied'
    <3>1. dep' = dep /\ companions' = companions
      BY <1>1 DEF UserEdits, depVars
    <3>2. dep # Absent => dep.stamp # generation'
      BY <1>a, <1>b, <2>1, <2>4 DEF StampsArePast
    <3>3. \A c \in Companions : companions[c] # generation'
      BY <1>a, <1>b, <2>1, <2>4, <2>6 DEF StampsArePast
    <3> QED
      BY <3>1, <3>2, <3>3 DEF UnsetNotApplied
  <2> QED
    BY <2>2, <2>3, <2>5, <2>7 DEF History
<1>2. CASE Begin
  <2>1. rr'.state = managementState /\ rr'.gen = generation /\ rr'.keep = FALSE
    BY <1>2 DEF Begin, NoPass
  <2>2. PassIsPast'
    <3>1. generation' = generation /\ managementState' = managementState
      BY <1>2 DEF Begin, specVars
    <3>2. rr'.gen <= generation' /\ rr'.gen > 0 /\ rr'.state = managementState' /\ ~rr'.keep
      BY <1>b, <2>1, <3>1
    <3> QED
      BY <3>2, Zenon DEF PassIsPast
  <2>3. UNCHANGED <<specVars, dep, companions>> /\ UNCHANGED depVars /\ infra' = infra
    BY <1>2 DEF Begin, depVars
  <2> QED
    BY <1>a, <2>2, <2>3, ClusterSame, CacheSame DEF History, InfraOnlyApart
<1>3. CASE Initialize
  <2>1. rr'.state = rr.state /\ rr'.gen = rr.gen /\ rr'.keep = KeepInstalled(rr.state, cached)
    BY <1>3, <1>c DEF Initialize
  <2>2. rr.state = "" => ~KeepInstalled(rr.state, cached)
    BY DEF KeepInstalled
  <2>3. PassIsPast'
    BY <1>3, <1>a, <2>1, <2>2 DEF Initialize, PassIsPast, specVars
  <2>4. UNCHANGED <<specVars, dep, companions>> /\ UNCHANGED depVars /\ infra' = infra
    BY <1>3 DEF Initialize, depVars
  <2> QED
    BY <1>a, <2>3, <2>4, ClusterSame, CacheSame DEF History, InfraOnlyApart
<1>4. CASE EnsureInfraRBAC
  <2>1. UNCHANGED <<specVars, dep, companions>> /\ UNCHANGED depVars /\ UNCHANGED rr
    BY <1>4 DEF EnsureInfraRBAC, depVars
  <2>2. InfraOnlyApart'
    BY <1>4, <1>a DEF EnsureInfraRBAC, EnsuredInfra, InfraOnlyApart
  <2>3. InPass
    BY <1>4 DEF EnsureInfraRBAC
  <2> QED
    BY <1>a, <2>1, <2>2, <2>3, ClusterSame, CacheSame, PassGoesOn DEF History
<1>5. CASE MigrateSelector
  <2>1. UNCHANGED specVars /\ UNCHANGED companions /\ UNCHANGED infra /\ UNCHANGED rr /\ InPass
    BY <1>5 DEF MigrateSelector
  <2>2. PassIsPast' /\ InfraOnlyApart'
    BY <1>a, <2>1, PassGoesOn DEF InfraOnlyApart
  <2>3. CASE WriteDep(Absent)
    <3>1. dep' = Absent /\ CacheFollows'
      BY <1>a, <2>3, WriteDepFollows
    <3> QED
      BY <2>1, <2>2, <3>1, DepGone DEF History
  <2>4. CASE UNCHANGED depVars
    <3>1. UNCHANGED <<specVars, dep, companions>>
      BY <2>1, <2>4 DEF depVars
    <3> QED
      BY <1>a, <2>2, <2>4, <3>1, ClusterSame, CacheSame DEF History
  <2> QED
    BY <1>5, <2>3, <2>4 DEF MigrateSelector
<1>6. CASE DeployBundle
  <2>1. UNCHANGED specVars /\ UNCHANGED depVars /\ UNCHANGED infra /\ UNCHANGED rr /\ InPass
    BY <1>6 DEF DeployBundle
  <2>2. PassIsPast' /\ InfraOnlyApart' /\ CacheFollows'
    BY <1>a, <2>1, PassGoesOn, CacheSame DEF InfraOnlyApart
  <2>3. CASE rr.keep
    <3>1. companions' = [c \in Companions |-> rr.gen]
      BY <1>6, <2>3 DEF DeployBundle, WriteCompanions
    <3>2. rr.gen <= generation /\ (managementState = "" => rr.gen # generation)
      BY <2>1, <2>3, AppliedIsPast
    <3>3. StampsArePast' /\ UnsetNotApplied' /\ RequestIsStamped'
      BY <1>a, <2>1, <3>1, <3>2
      DEF StampsArePast, UnsetNotApplied, RequestIsStamped, specVars, depVars
    <3> QED
      BY <2>2, <3>3 DEF History
  <2>4. CASE ~rr.keep
    <3>1. UNCHANGED <<specVars, dep, companions>>
      BY <1>6, <2>1, <2>4 DEF DeployBundle, WriteCompanions, depVars
    <3> QED
      BY <2>2, <3>1, ClusterSame DEF History
  <2> QED
    BY <2>3, <2>4
<1>7. CASE DeployController
  <2>1. UNCHANGED specVars /\ UNCHANGED companions /\ UNCHANGED infra /\ UNCHANGED rr /\ InPass
    BY <1>7 DEF DeployController
  <2>2. PassIsPast' /\ InfraOnlyApart'
    BY <1>a, <2>1, PassGoesOn DEF InfraOnlyApart
  <2>3. CASE rr.keep
    <3>1. WriteDep(Applied(dep, rr)) /\ Applied(dep, rr) \in DeploymentStates \cup {Absent}
      BY <1>7, <2>3, AppliedTyped DEF DeployController
    <3>2. dep' = Applied(dep, rr) /\ CacheFollows'
      BY <1>a, <3>1, WriteDepFollows
    <3>3. dep'.stamp = rr.gen
      BY <3>2 DEF Applied
    <3>4. rr.gen <= generation /\ rr.gen > 0 /\ (managementState = "" => rr.gen # generation)
      BY <2>1, <2>3, AppliedIsPast
    <3>5. StampsArePast' /\ UnsetNotApplied' /\ RequestIsStamped'
      BY <1>a, <2>1, <3>3, <3>4
      DEF StampsArePast, UnsetNotApplied, RequestIsStamped, specVars
    <3> QED
      BY <2>2, <3>2, <3>5 DEF History
  <2>4. CASE ~rr.keep
    <3>1. UNCHANGED <<specVars, dep, companions>> /\ UNCHANGED depVars
      BY <1>7, <2>1, <2>4 DEF DeployController, depVars
    <3> QED
      BY <1>a, <2>2, <3>1, ClusterSame, CacheSame DEF History
  <2> QED
    BY <2>3, <2>4
<1>8. CASE DeployControllerRefused
  <2>1. /\ UNCHANGED <<specVars, dep, companions>> /\ UNCHANGED depVars /\ infra' = infra
        /\ pc' = "idle" /\ rr' = NoPass
    BY <1>8 DEF DeployControllerRefused, Abort, depVars
  <2> QED
    BY <1>a, <2>1, ClusterSame, CacheSame, NoPassIsPast DEF History, InfraOnlyApart
<1>9. CASE OverWriteCondition
  <2>1. UNCHANGED <<specVars, dep, companions>> /\ UNCHANGED depVars /\ infra' = infra
    BY <1>9 DEF OverWriteCondition, depVars
  <2>2. InPass /\ rr'.state = rr.state /\ rr'.gen = rr.gen /\ rr'.keep = rr.keep
    BY <1>9, <1>c DEF OverWriteCondition
  <2> QED
    BY <1>a, <2>1, <2>2, ClusterSame, CacheSame, PassGoesOn DEF History, InfraOnlyApart
<1>10. ASSUME NEW o \in Bundle, Collect(o) PROVE History'
  <2>1. UNCHANGED specVars /\ UNCHANGED infra
    BY <1>10 DEF Collect
  <2>2. InPass /\ rr'.state = rr.state /\ rr'.gen = rr.gen /\ rr'.keep = rr.keep
    BY <1>10, <1>c DEF Collect
  <2>3. PassIsPast' /\ InfraOnlyApart'
    BY <1>a, <2>1, <2>2, PassGoesOn DEF InfraOnlyApart
  <2>4. CASE WriteDep(Absent) /\ UNCHANGED companions
    <3>1. dep' = Absent /\ CacheFollows'
      BY <1>a, <2>4, WriteDepFollows
    <3> QED
      BY <2>1, <2>3, <2>4, <3>1, DepGone DEF History
  <2>5. CASE WriteCompanions([companions EXCEPT ![o] = Absent]) /\ UNCHANGED depVars
    <3>1. companions \in [Companions -> Stamps \cup {Absent}]
      BY DEF TypeOK
    <3>2. \A c \in Companions : companions'[c] = companions[c] \/ companions'[c] = Absent
      BY <2>5, <3>1 DEF WriteCompanions
    <3>3. dep' = dep /\ generation' = generation /\ managementState' = managementState
      BY <2>1, <2>5 DEF specVars, depVars
    <3>4. StampsArePast' /\ RequestIsStamped'
      BY <1>a, <3>2, <3>3 DEF StampsArePast, RequestIsStamped
    <3>5. UnsetNotApplied'
      BY <1>a, <1>b, <3>2, <3>3 DEF UnsetNotApplied
    <3> QED
      BY <1>a, <2>3, <2>5, <3>4, <3>5, CacheSame DEF History
  <2>6. CASE UNCHANGED <<depVars, companions, pending>>
    <3>1. UNCHANGED <<specVars, dep, companions>> /\ UNCHANGED depVars
      BY <2>1, <2>6 DEF depVars
    <3> QED
      BY <1>a, <2>3, <3>1, ClusterSame, CacheSame DEF History
  <2> QED
    BY <1>10, <2>4, <2>5, <2>6 DEF Collect
<1>11. CASE EndPass
  <2>1. /\ UNCHANGED <<specVars, dep, companions>> /\ UNCHANGED depVars /\ infra' = infra
        /\ pc' = "idle" /\ rr' = NoPass
    BY <1>11 DEF EndPass, depVars
  <2> QED
    BY <1>a, <2>1, ClusterSame, CacheSame, NoPassIsPast DEF History, InfraOnlyApart
<1>12. CASE ControllerBootstraps \/ ControllerCleansUp
  <2>1. /\ UNCHANGED <<specVars, dep, companions>> /\ UNCHANGED depVars /\ infra' = infra
        /\ UNCHANGED passVars
    BY <1>12 DEF ControllerBootstraps, ControllerCleansUp, depVars
  <2>2. PassIsPast'
    BY <1>a, <2>1 DEF PassIsPast, passVars, specVars
  <2> QED
    BY <1>a, <2>1, <2>2, ClusterSame, CacheSame DEF History, InfraOnlyApart
<1>13. CASE ControllerReports
  <2>1. UNCHANGED specVars /\ UNCHANGED companions /\ UNCHANGED infra /\ UNCHANGED passVars
    BY <1>13 DEF ControllerReports
  <2>2. /\ dep # Absent /\ dep \in DeploymentStates /\ dep.requested
        /\ WriteDep([dep EXCEPT !.completed = TRUE])
    BY <1>13, Numbers DEF ControllerReports, ControllerRuns
  <2>3. [dep EXCEPT !.completed = TRUE] \in DeploymentStates \cup {Absent}
    BY <2>2 DEF DeploymentStates
  <2>4. dep' = [dep EXCEPT !.completed = TRUE] /\ CacheFollows'
    BY <1>a, <2>2, <2>3, WriteDepFollows
  <2>5. dep'.stamp = dep.stamp
    BY <2>2, <2>4 DEF DeploymentStates
  <2>6. PassIsPast' /\ InfraOnlyApart'
    BY <1>a, <2>1 DEF PassIsPast, InfraOnlyApart, passVars, specVars
  <2>7. StampsArePast' /\ UnsetNotApplied' /\ RequestIsStamped'
    BY <1>a, <2>1, <2>2, <2>5 DEF StampsArePast, UnsetNotApplied, RequestIsStamped, specVars
  <2> QED
    BY <2>4, <2>6, <2>7 DEF History
<1>14. CASE PassFails
  <2>1. /\ UNCHANGED <<specVars, dep, companions>> /\ UNCHANGED depVars /\ infra' = infra
        /\ pc' = "idle" /\ rr' = NoPass
    BY <1>14 DEF PassFails, Abort, depVars
  <2> QED
    BY <1>a, <2>1, ClusterSame, CacheSame, NoPassIsPast DEF History, InfraOnlyApart
<1>15. CASE EnsureInfraFailsHalfway
  <2>1. /\ UNCHANGED <<specVars, dep, companions>> /\ UNCHANGED depVars
        /\ pc' = "idle" /\ rr' = NoPass
    BY <1>15 DEF EnsureInfraFailsHalfway, Abort, depVars
  <2>2. InfraOnlyApart'
    BY <1>15, <1>a DEF EnsureInfraFailsHalfway, EnsuredInfra, InfraOnlyApart
  <2> QED
    BY <1>a, <2>1, <2>2, ClusterSame, CacheSame, NoPassIsPast DEF History
<1>16. ASSUME NEW applied \in SUBSET Companions, DeployBundleFailsHalfway(applied)
       PROVE  History'
  <2>1. /\ UNCHANGED specVars /\ UNCHANGED depVars /\ UNCHANGED infra /\ InPass /\ rr.keep
        /\ pc' = "idle" /\ rr' = NoPass
    BY <1>16 DEF DeployBundleFailsHalfway, Abort
  <2>2. companions' = [c \in Companions |-> IF c \in applied THEN rr.gen ELSE companions[c]]
    BY <1>16 DEF DeployBundleFailsHalfway
  <2>3. rr.gen <= generation /\ (managementState = "" => rr.gen # generation)
    BY <2>1, AppliedIsPast
  <2>4. StampsArePast' /\ UnsetNotApplied' /\ RequestIsStamped'
    BY <1>a, <2>1, <2>2, <2>3
    DEF StampsArePast, UnsetNotApplied, RequestIsStamped, specVars, depVars
  <2> QED
    BY <1>a, <2>1, <2>4, CacheSame, NoPassIsPast DEF History, InfraOnlyApart
<1>17. CASE Crash
  <2>1. /\ UNCHANGED <<specVars, dep, companions>> /\ infra' = infra
        /\ pc' = "idle" /\ rr' = NoPass
    BY <1>17 DEF Crash
  <2>2. CacheFollows'
    BY <1>17 DEF Crash, CacheFollows
  <2> QED
    BY <1>a, <2>1, <2>2, ClusterSame, NoPassIsPast DEF History, InfraOnlyApart
<1>18. CASE Deliver
  <2> DEFINE D == DeploymentStates \cup {Absent}
  <2>1. /\ UNCHANGED <<specVars, dep, companions>> /\ infra' = infra /\ UNCHANGED passVars
        /\ cached' = Head(inFlight) /\ inFlight' = Tail(inFlight)
    BY <1>18 DEF Deliver
  <2>2. inFlight \in Seq(D) /\ inFlight # <<>>
    BY <1>18 DEF Deliver, TypeOK
  <2> HIDE DEF D
  <2>3. IF Tail(inFlight) = <<>> THEN Head(inFlight) = inFlight[Len(inFlight)]
        ELSE Tail(inFlight)[Len(Tail(inFlight))] = inFlight[Len(inFlight)]
    BY <2>2, LastOfTail
  <2>4. CacheFollows'
    BY <1>a, <2>1, <2>2, <2>3, Zenon DEF CacheFollows
  <2>5. PassIsPast'
    BY <1>a, <2>1 DEF PassIsPast, passVars, specVars
  <2> QED
    BY <1>a, <2>1, <2>4, <2>5, ClusterSame DEF History, InfraOnlyApart
<1>19. CASE MigrateSelectorConflicts
  <2>1. /\ UNCHANGED <<specVars, dep, companions>> /\ UNCHANGED depVars /\ infra' = infra
        /\ UNCHANGED rr /\ InPass
    BY <1>19 DEF MigrateSelectorConflicts, depVars
  <2> QED
    BY <1>a, <2>1, ClusterSame, CacheSame, PassGoesOn DEF History, InfraOnlyApart
<1>20. CASE UNCHANGED vars
  <2>1. /\ UNCHANGED <<specVars, dep, companions>> /\ UNCHANGED depVars /\ infra' = infra
        /\ UNCHANGED passVars
    BY <1>20 DEF vars, specVars, depVars, passVars
  <2>2. PassIsPast'
    BY <1>a, <2>1 DEF PassIsPast, passVars, specVars
  <2> QED
    BY <1>a, <2>1, <2>2, ClusterSame, CacheSame DEF History, InfraOnlyApart
<1> QED
  BY <1>1, <1>2, <1>3, <1>4, <1>5, <1>6, <1>7, <1>8, <1>9, <1>10, <1>11, <1>12,
     <1>13, <1>14, <1>15, <1>16, <1>17, <1>18, <1>19, <1>20
  DEF Next, PassStep, ControllerStep, FaultStep

---------------------------------------------------------------------------
\* In an undisturbed state the cache holds the live Deployment.
LEMMA CacheIsLive == ASSUME History, Undisturbed PROVE cached = dep
  BY DEF History, CacheFollows, Undisturbed

\* What the pass found in place stays there while nothing is written.
LEMMA FoundStays ==
  ASSUME UNCHANGED <<specVars, depVars, companions, infra>>,
         rr'.state = rr.state, rr'.gen = rr.gen, rr'.keep = rr.keep
  PROVE  /\ KeepIsCurrent => KeepIsCurrent'
         /\ InfraInPlace => InfraInPlace'
         /\ BundleInPlace => BundleInPlace'
         /\ ControllerInPlace => ControllerInPlace'
<1>1. /\ dep' = dep /\ cached' = cached /\ companions' = companions /\ infra' = infra
  BY DEF depVars
<1>2. KeepIsCurrent => KeepIsCurrent'
  BY <1>1 DEF KeepIsCurrent, KeepInstalled
<1>3. EnsuredInfra' = EnsuredInfra
  BY <1>1, Zenon DEF EnsuredInfra
<1>4. InfraInPlace => InfraInPlace'
  BY <1>1, <1>3 DEF InfraInPlace
<1>5. /\ BundleInPlace => BundleInPlace'
      /\ ControllerInPlace => ControllerInPlace'
  BY <1>1 DEF BundleInPlace, ControllerInPlace
<1> QED
  BY <1>2, <1>4, <1>5

\* The sweep looks at the same stamps and the same cache while nothing is written.
LEMMA StampsStay ==
  ASSUME UNCHANGED <<dep, cached, companions>>, rr'.gen = rr.gen
  PROVE  /\ Collectable' = Collectable
         /\ \A o \in Bundle : StampOf(o)' = StampOf(o) /\ (Deletable(o)' <=> Deletable(o))
<1>1. \A o \in Bundle : StampOf(o)' = StampOf(o)
  BY DEF StampOf
<1>2. Collectable' = Collectable
  BY <1>1 DEF Collectable
<1>3. \A o \in Bundle : Deletable(o)' <=> Deletable(o)
  BY <1>1 DEF Deletable
<1> QED
  BY <1>1, <1>2, <1>3

---------------------------------------------------------------------------
\* Every step of a pass that ends undisturbed has found what it would have made.
LEMMA StepUnmoved ==
  ASSUME TypeOK, TypeOK', History, Unmoved, [Next]_vars
  PROVE  Unmoved'
<1> USE DEF InPass
<1>c. rr \in [state: ManagementStates \cup {""}, gen: Stamps, keep: BOOLEAN,
              verdict: Reasons, sweep: SUBSET Bundle]
  BY DEF TypeOK
<1>1. ASSUME NEW s \in ManagementStates, UserEdits(s) PROVE Unmoved'
  BY <1>1, Disturbed DEF UserEdits
<1>2. CASE Begin
  <2>1. rr'.gen = generation' /\ pc' = "initialize"
    BY <1>2 DEF Begin, NoPass, specVars
  <2> QED
    BY <2>1 DEF Unmoved
<1>3. CASE Initialize
  <2>1. /\ rr'.gen = rr.gen /\ rr'.state = rr.state /\ pc' = "infra" /\ pc = "initialize"
        /\ rr'.keep = KeepInstalled(rr.state, cached)
        /\ UNCHANGED <<generation, dep, inFlight, pending>>
    BY <1>3, <1>c DEF Initialize, specVars, depVars
  <2> SUFFICES ASSUME Undisturbed PROVE Unmoved'
    BY <2>1 DEF Unmoved, Undisturbed
  <2>2. cached = dep /\ rr.gen = generation
    BY <2>1, CacheIsLive DEF Unmoved
  <2>3. KeepIsCurrent'
    BY <2>1, <2>2 DEF KeepIsCurrent, KeepInstalled
  <2> QED
    BY <2>1, <2>2, <2>3 DEF Unmoved
<1>4. CASE EnsureInfraRBAC
  <2>1. /\ pc = "infra" /\ pc' = "migrate" /\ rr' = rr /\ infra' = EnsuredInfra
        /\ UNCHANGED <<generation, dep, cached, inFlight, pending>>
    BY <1>4 DEF EnsureInfraRBAC, specVars, depVars
  <2> SUFFICES ASSUME Undisturbed PROVE Unmoved'
    BY <2>1 DEF Unmoved, Undisturbed
  <2>2. rr.gen = generation /\ KeepIsCurrent
    BY <2>1 DEF Unmoved
  <2>3. KeepIsCurrent'
    BY <2>1, <2>2 DEF KeepIsCurrent, KeepInstalled
  <2>4. InfraInPlace'
    <3>1. InfraInPlace' <=> infra' = EnsuredInfra'
      BY DEF InfraInPlace
    <3>2. EnsuredInfra' = infra'
      BY <2>1, Zenon DEF EnsuredInfra
    <3> QED
      BY <3>1, <3>2
  <2> QED
    BY <2>1, <2>2, <2>3, <2>4 DEF Unmoved
<1>5. CASE MigrateSelector
  <2>1. /\ pc = "migrate" /\ pc' = "bundle" /\ rr' = rr
        /\ UNCHANGED specVars /\ UNCHANGED companions /\ UNCHANGED infra
    BY <1>5 DEF MigrateSelector
  <2> SUFFICES ASSUME Undisturbed' PROVE Unmoved'
    BY DEF Unmoved
  <2>2. Undisturbed /\ UNCHANGED depVars
    <3>1. CASE WriteDep(Absent)
      BY <3>1, WriteDepSilent
    <3>2. CASE UNCHANGED <<depVars, pending>>
      BY <3>2 DEF Undisturbed, depVars
    <3> QED
      BY <1>5, <3>1, <3>2 DEF MigrateSelector
  <2>3. rr.gen = generation /\ KeepIsCurrent /\ InfraInPlace
    BY <2>1, <2>2 DEF Unmoved
  <2>4. rr'.gen = generation' /\ KeepIsCurrent' /\ InfraInPlace'
    BY <2>1, <2>2, <2>3, FoundStays DEF specVars
  <2> QED
    BY <2>1, <2>4 DEF Unmoved
<1>6. CASE DeployBundle
  <2>1. /\ pc = "bundle" /\ pc' = "controller" /\ rr' = rr
        /\ UNCHANGED specVars /\ UNCHANGED depVars /\ UNCHANGED infra
        /\ WriteCompanions(IF rr.keep THEN [c \in Companions |-> rr.gen] ELSE companions)
    BY <1>6 DEF DeployBundle
  <2> SUFFICES ASSUME Undisturbed' PROVE Unmoved'
    BY DEF Unmoved
  <2>2. /\ Undisturbed /\ companions' = companions
        /\ rr.keep => companions = [c \in Companions |-> rr.gen]
    BY <2>1 DEF Undisturbed, WriteCompanions, depVars
  <2>3. rr.gen = generation /\ KeepIsCurrent /\ InfraInPlace /\ BundleInPlace
    BY <2>1, <2>2 DEF Unmoved, BundleInPlace
  <2>4. rr'.gen = generation' /\ KeepIsCurrent' /\ InfraInPlace' /\ BundleInPlace'
    BY <2>1, <2>2, <2>3, FoundStays DEF specVars
  <2> QED
    BY <2>1, <2>4 DEF Unmoved
<1>7. CASE DeployController
  <2>1. /\ pc = "controller" /\ pc' = "status" /\ rr' = rr
        /\ UNCHANGED specVars /\ UNCHANGED companions /\ UNCHANGED infra
    BY <1>7 DEF DeployController
  <2> SUFFICES ASSUME Undisturbed' PROVE Unmoved'
    BY DEF Unmoved
  <2>2. Undisturbed /\ UNCHANGED depVars /\ ControllerInPlace
    <3>1. CASE rr.keep
      <4>1. WriteDep(Applied(dep, rr)) /\ Applied(dep, rr) \in DeploymentStates
        BY <1>7, <3>1, AppliedTyped DEF DeployController
      <4>2. Applied(dep, rr) = dep /\ Undisturbed /\ UNCHANGED depVars
        BY <4>1, WriteDepSilent
      <4>3. dep # Absent
        BY <4>1, <4>2, AbsentOK
      <4>4. /\ Applied(dep, rr).requested = (rr.state = "Removed")
            /\ Applied(dep, rr).stamp = rr.gen
        BY DEF Applied
      <4>5. dep.requested = (rr.state = "Removed") /\ dep.stamp = rr.gen
        BY <4>2, <4>4, Zenon
      <4> QED
        BY <4>2, <4>3, <4>5, Zenon DEF ControllerInPlace
    <3>2. CASE ~rr.keep
      BY <1>7, <3>2 DEF DeployController, Undisturbed, ControllerInPlace, depVars
    <3> QED
      BY <3>1, <3>2
  <2>3. rr.gen = generation /\ KeepIsCurrent /\ InfraInPlace /\ BundleInPlace
    BY <2>1, <2>2 DEF Unmoved
  <2>4. /\ rr'.gen = generation' /\ KeepIsCurrent' /\ InfraInPlace' /\ BundleInPlace'
        /\ ControllerInPlace'
    BY <2>1, <2>2, <2>3, FoundStays DEF specVars
  <2> QED
    BY <2>1, <2>4 DEF Unmoved
<1>8. CASE DeployControllerRefused
  BY <1>8, Disturbed DEF DeployControllerRefused, Abort
<1>9. CASE OverWriteCondition
  <2>1. /\ pc = "status" /\ pc' = "gc"
        /\ rr'.state = rr.state /\ rr'.gen = rr.gen /\ rr'.keep = rr.keep
        /\ rr'.verdict = Verdict(rr.state, cached) /\ rr'.sweep = Collectable
        /\ UNCHANGED <<specVars, depVars, companions, infra>> /\ pending' = pending
    BY <1>9, <1>c DEF OverWriteCondition
  <2> SUFFICES ASSUME Undisturbed PROVE Unmoved'
    BY <2>1 DEF Unmoved, Undisturbed, depVars
  <2>2. /\ rr.gen = generation /\ KeepIsCurrent /\ InfraInPlace /\ BundleInPlace
        /\ ControllerInPlace /\ cached = dep
    BY <2>1, CacheIsLive DEF Unmoved
  <2>3. /\ rr'.gen = generation' /\ KeepIsCurrent' /\ InfraInPlace' /\ BundleInPlace'
        /\ ControllerInPlace'
    BY <2>1, <2>2, FoundStays DEF specVars
  <2>4. VerdictIsCurrent'
    <3>1. VerdictIsCurrent' <=> rr'.verdict = Verdict(rr'.state, dep')
      BY DEF VerdictIsCurrent, Verdict
    <3>2. dep' = dep
      BY <2>1 DEF depVars
    <3> QED
      BY <2>1, <2>2, <3>1, <3>2
  <2>5. SweptStay'
    <3>1. Collectable' = Collectable
      BY <2>1, StampsStay DEF depVars
    <3> QED
      BY <2>1, <3>1 DEF SweptStay
  <2> QED
    BY <2>1, <2>3, <2>4, <2>5 DEF Unmoved
<1>10. ASSUME NEW o \in Bundle, Collect(o) PROVE Unmoved'
  <2>1. /\ pc = "gc" /\ pc' = "gc"
        /\ rr'.state = rr.state /\ rr'.gen = rr.gen /\ rr'.keep = rr.keep
        /\ rr'.verdict = rr.verdict /\ rr'.sweep = rr.sweep \ {o}
        /\ UNCHANGED <<specVars, infra>>
    BY <1>10, <1>c DEF Collect
  <2> SUFFICES ASSUME Undisturbed' PROVE Unmoved'
    BY DEF Unmoved
  <2>2. ASSUME StampOf(o) # Absent, Deletable(o) PROVE FALSE
    <3>1. CASE o = Controller
      <4>1. WriteDep(Absent) /\ dep # Absent
        BY <1>10, <2>2, <3>1 DEF Collect, StampOf
      <4> QED
        BY <4>1, WriteDepSilent
    <3>2. CASE o # Controller
      <4>1. /\ WriteCompanions([companions EXCEPT ![o] = Absent])
            /\ companions[o] # Absent /\ o \in Companions
        BY <1>10, <2>2, <3>2 DEF Collect, StampOf, Bundle
      <4>2. companions \in [Companions -> Stamps \cup {Absent}]
        BY DEF TypeOK
      <4>3. [companions EXCEPT ![o] = Absent] # companions
        BY <4>1, <4>2
      <4> QED
        BY <4>1, <4>3 DEF WriteCompanions, Undisturbed
    <3> QED
      BY <3>1, <3>2
  <2>3. UNCHANGED <<depVars, companions, pending>> /\ Undisturbed
    BY <1>10, <2>2 DEF Collect, Undisturbed, depVars
  <2>4. /\ rr.gen = generation /\ KeepIsCurrent /\ InfraInPlace /\ BundleInPlace
        /\ ControllerInPlace /\ VerdictIsCurrent /\ SweptStay
    BY <2>1, <2>3 DEF Unmoved
  <2>5. /\ rr'.gen = generation' /\ KeepIsCurrent' /\ InfraInPlace' /\ BundleInPlace'
        /\ ControllerInPlace'
    BY <2>1, <2>3, <2>4, FoundStays DEF specVars
  <2>6. VerdictIsCurrent'
    BY <2>1, <2>3, <2>4, Zenon DEF VerdictIsCurrent, Verdict, depVars
  <2>7. SweptStay'
    <3>1. /\ Collectable' = Collectable
          /\ \A p \in Bundle : Deletable(p)' <=> Deletable(p)
      BY <2>1, <2>3, StampsStay DEF depVars
    <3>2. \A p \in Collectable : p \in Bundle /\ StampOf(p) # Absent
      BY DEF Collectable
    <3>3. \A p \in Collectable : p \in rr'.sweep \/ ~Deletable(p)
      BY <2>1, <2>2, <2>4, <3>2 DEF SweptStay
    <3> QED
      BY <3>1, <3>2, <3>3 DEF SweptStay
  <2> QED
    BY <2>1, <2>5, <2>6, <2>7 DEF Unmoved
<1>11. CASE EndPass
  BY <1>11 DEF EndPass, Unmoved
<1>12. CASE ControllerBootstraps \/ ControllerCleansUp
  <2>1. UNCHANGED <<specVars, depVars, companions, infra, pending, passVars>>
    BY <1>12 DEF ControllerBootstraps, ControllerCleansUp
  <2> QED
    BY <2>1, Zenon DEF Unmoved, Undisturbed, KeepIsCurrent, InfraInPlace, BundleInPlace,
       ControllerInPlace, VerdictIsCurrent, SweptStay, specVars, depVars, passVars,
       KeepInstalled, TeardownCompleted, EnsuredInfra, Verdict, Collectable, Deletable,
       StampOf
<1>13. CASE ControllerReports
  <2> SUFFICES ASSUME Undisturbed' PROVE Unmoved'
    BY DEF Unmoved
  <2>1. /\ dep \in DeploymentStates /\ ~dep.completed
        /\ WriteDep([dep EXCEPT !.completed = TRUE])
    BY <1>13, Numbers DEF ControllerReports, ControllerRuns
  <2>2. /\ [dep EXCEPT !.completed = TRUE] \in DeploymentStates \cup {Absent}
        /\ [dep EXCEPT !.completed = TRUE] # dep
    BY <2>1 DEF DeploymentStates
  <2> QED
    BY <2>1, <2>2, WriteDepSilent
<1>14. CASE PassFails \/ EnsureInfraFailsHalfway \/ Crash
  BY <1>14, Disturbed DEF PassFails, EnsureInfraFailsHalfway, Crash, Abort
<1>15. ASSUME NEW applied \in SUBSET Companions, DeployBundleFailsHalfway(applied)
       PROVE  Unmoved'
  BY <1>15, Disturbed DEF DeployBundleFailsHalfway, Abort
<1>16. CASE Deliver
  BY <1>16, Disturbed DEF Deliver
<1>17. CASE MigrateSelectorConflicts
  <2>1. /\ pc = "migrate" /\ pc' = "bundle" /\ rr' = rr
        /\ UNCHANGED <<specVars, depVars, companions, infra>> /\ pending' = pending
    BY <1>17 DEF MigrateSelectorConflicts
  <2> SUFFICES ASSUME Undisturbed PROVE Unmoved'
    BY <2>1 DEF Unmoved, Undisturbed, depVars
  <2>2. rr.gen = generation /\ KeepIsCurrent /\ InfraInPlace
    BY <2>1 DEF Unmoved
  <2>3. rr'.gen = generation' /\ KeepIsCurrent' /\ InfraInPlace'
    BY <2>1, <2>2, FoundStays DEF specVars
  <2> QED
    BY <2>1, <2>3 DEF Unmoved
<1>18. CASE UNCHANGED vars
  <2>1. UNCHANGED <<specVars, depVars, companions, infra, pending, passVars>>
    BY <1>18 DEF vars, specVars, depVars, passVars
  <2> QED
    BY <2>1, Zenon DEF Unmoved, Undisturbed, KeepIsCurrent, InfraInPlace, BundleInPlace,
       ControllerInPlace, VerdictIsCurrent, SweptStay, specVars, depVars, passVars,
       KeepInstalled, TeardownCompleted, EnsuredInfra, Verdict, Collectable, Deletable,
       StampOf
<1> QED
  BY <1>1, <1>2, <1>3, <1>4, <1>5, <1>6, <1>7, <1>8, <1>9, <1>10, <1>11, <1>12,
     <1>13, <1>14, <1>15, <1>16, <1>17, <1>18
  DEF Next, PassStep, ControllerStep, FaultStep

---------------------------------------------------------------------------
\* The initial states are undisturbed by nothing: the AIGateway is enqueued.
LEMMA InitRest == Init => History /\ Unmoved /\ SettledMatchesSpec
<1> SUFFICES ASSUME Init PROVE History /\ Unmoved /\ SettledMatchesSpec
  OBVIOUS
<1>1. /\ generation = 1 /\ cached = dep /\ inFlight = <<>> /\ infra = {} /\ pending = TRUE
      /\ pc = "idle" /\ rr = NoPass
  BY DEF Init
<1>2. /\ dep # Absent => dep.stamp = 0 /\ ~dep.requested /\ ~dep.completed
      /\ \A c \in Companions : companions[c] # Absent => companions[c] = 0
  BY DEF Init
<1>3. Absent # 1
  BY BoundsOK, AbsentOK DEF Stamps
<1>4. CacheFollows /\ InfraOnlyApart
  BY <1>1 DEF CacheFollows, InfraOnlyApart
<1>5. PassIsPast
  <2>1. rr.gen = 0 /\ ~rr.keep
    BY <1>1 DEF NoPass
  <2>2. rr.gen <= generation
    BY <1>1, <2>1
  <2> QED
    BY <1>1, <2>1, <2>2, Zenon DEF PassIsPast, InPass
<1>6. StampsArePast
  BY <1>1, <1>2 DEF StampsArePast
<1>7. UnsetNotApplied
  <2>1. dep # Absent => dep.stamp # generation
    BY <1>1, <1>2
  <2>2. \A c \in Companions : companions[c] # generation
    BY <1>1, <1>2, <1>3
  <2> QED
    BY <2>1, <2>2 DEF UnsetNotApplied
<1>8. RequestIsStamped
  BY <1>2, Zenon DEF RequestIsStamped
<1> QED
  BY <1>1, <1>4, <1>5, <1>6, <1>7, <1>8
  DEF History, Unmoved, InPass, Undisturbed, SettledMatchesSpec, Quiet

\* An undisturbed pass that comes to its end leaves what the spec asks for.
LEMMA EndSettles ==
  ASSUME TypeOK, History, Unmoved, EndPass, Undisturbed
  PROVE  SettledMatchesSpec'
<1>1. /\ pc = "gc" /\ rr.sweep = {} /\ reason' = IF rr.verdict = "none" THEN reason ELSE rr.verdict
      /\ UNCHANGED <<managementState, generation, dep, companions, infra>>
  BY DEF EndPass, PatchStatus, specVars, depVars
<1>2. /\ rr.gen = generation /\ rr.state = managementState
      /\ KeepIsCurrent /\ InfraInPlace /\ BundleInPlace /\ ControllerInPlace
      /\ VerdictIsCurrent /\ SweptStay
  BY <1>1 DEF Unmoved, History, PassIsPast, InPass
<1>3. cached = dep
  BY CacheIsLive
<1>4. \A o \in Collectable : StampOf(o) = generation /\ ~TeardownCompleted(dep)
  BY <1>1, <1>2, <1>3 DEF SweptStay, Deletable
<1>5. Collectable' = Collectable
  BY <1>1 DEF Collectable, StampOf
<1>6. ASSUME managementState = "Managed" PROVE InstalledAtGeneration'
  <2>1. rr.keep
    BY <1>2, <1>6 DEF KeepIsCurrent, KeepInstalled
  <2>2. dep # Absent /\ ~dep.requested /\ dep.stamp = generation
    BY <1>2, <1>6, <2>1 DEF ControllerInPlace
  <2>3. \A c \in Companions : companions[c] = generation
    BY <1>2, <2>1 DEF BundleInPlace
  <2>4. InfraSeparate => infra = InfraObjects
    BY <1>2, <1>6, Zenon DEF InfraInPlace, EnsuredInfra
  <2> QED
    BY <1>1, <2>2, <2>3, <2>4 DEF InstalledAtGeneration
<1>7. ASSUME managementState = "Removed" PROVE TeardownAwaited' \/ Uninstalled'
  <2>1. rr.keep <=> ~TeardownCompleted(dep)
    BY <1>2, <1>7 DEF KeepIsCurrent, KeepInstalled
  <2>2. rr.verdict = IF dep # Absent THEN "MaaSRemovalInProgress" ELSE "NoSubModuleManaged"
    <3>1. rr.verdict = Verdict("Removed", dep)
      BY <1>2, <1>7 DEF VerdictIsCurrent
    <3> QED
      BY <3>1, Zenon DEF Verdict
  <2>3. CASE ~TeardownCompleted(dep)
    <3>1. dep # Absent /\ dep.requested /\ ~dep.completed
      BY <1>2, <1>7, <2>1, <2>3 DEF ControllerInPlace, TeardownCompleted
    <3>2. \A c \in Companions : companions[c] = generation
      BY <1>2, <2>1, <2>3 DEF BundleInPlace
    <3>3. reason' = "MaaSRemovalInProgress"
      BY <1>1, <2>2, <3>1
    <3> QED
      BY <1>1, <3>1, <3>2, <3>3 DEF TeardownAwaited
  <2>4. CASE TeardownCompleted(dep)
    <3>1. Collectable = {}
      BY <1>4, <2>4
    <3>2. dep = Absent
      <4> SUFFICES ASSUME dep # Absent PROVE FALSE
        OBVIOUS
      <4>1. dep.stamp \in Nat /\ dep.stamp > 0 /\ dep.stamp # Absent
        <5>1. dep \in DeploymentStates /\ dep.stamp \in Stamps /\ dep.completed
          BY <2>4 DEF TypeOK, DeploymentStates, TeardownCompleted
        <5>2. dep.stamp > 0
          BY <5>1 DEF History, RequestIsStamped
        <5> QED
          BY <5>1, <5>2, BoundsOK, AbsentOK DEF Stamps
      <4>2. Controller \in Bundle /\ StampOf(Controller) = dep.stamp
        BY DEF Bundle, StampOf
      <4> QED
        BY <3>1, <4>1, <4>2 DEF Collectable
    <3>3. infra = {}
      <4>1. CASE InfraSeparate
        BY <1>2, <1>3, <1>7, <2>4, <4>1, Zenon DEF InfraInPlace, EnsuredInfra
      <4>2. CASE ~InfraSeparate
        BY <4>2 DEF History, InfraOnlyApart
      <4> QED
        BY <4>1, <4>2
    <3>4. reason' = "NoSubModuleManaged"
      BY <1>1, <2>2, <3>2
    <3> QED
      BY <1>1, <1>5, <3>1, <3>2, <3>3, <3>4 DEF Uninstalled
  <2> QED
    BY <2>3, <2>4
<1>8. ASSUME managementState = "" PROVE Collectable' = {}
  <2>1. \A o \in Collectable : FALSE
    <3> SUFFICES ASSUME NEW o \in Collectable PROVE FALSE
      OBVIOUS
    <3>1. StampOf(o) = generation /\ StampOf(o) # Absent /\ o \in Bundle
      BY <1>4 DEF Collectable
    <3>2. /\ dep # Absent => dep.stamp # generation
          /\ \A c \in Companions : companions[c] # generation
      BY <1>8 DEF History, UnsetNotApplied
    <3> QED
      BY <3>1, <3>2 DEF StampOf, Bundle
  <2> QED
    BY <1>5, <2>1
<1> QED
  BY <1>1, <1>6, <1>7, <1>8 DEF SettledMatchesSpec

\* Every step that brings the system to rest, or leaves it there, leaves it settled.
LEMMA StepSettles ==
  ASSUME TypeOK, History, Unmoved, SettledMatchesSpec, [Next]_vars
  PROVE  SettledMatchesSpec'
<1>1. ASSUME NEW s \in ManagementStates, UserEdits(s) PROVE SettledMatchesSpec'
  BY <1>1, Disturbed DEF UserEdits
<1>2. CASE Begin \/ Initialize \/ EnsureInfraRBAC \/ MigrateSelector \/ DeployBundle
            \/ DeployController \/ OverWriteCondition \/ MigrateSelectorConflicts
  <2>1. pc' # "idle"
    BY <1>2 DEF Begin, Initialize, EnsureInfraRBAC, MigrateSelector, DeployBundle,
                DeployController, OverWriteCondition, MigrateSelectorConflicts
  <2> QED
    BY <2>1, Busy
<1>3. ASSUME NEW o \in Bundle, Collect(o) PROVE SettledMatchesSpec'
  <2>1. pc' # "idle"
    BY <1>3 DEF Collect
  <2> QED
    BY <2>1, Busy
<1>4. CASE EndPass
  <2>1. CASE Undisturbed
    BY <1>4, <2>1, EndSettles
  <2>2. CASE ~Undisturbed
    BY <1>4, <2>2 DEF EndPass, Undisturbed, SettledMatchesSpec, Quiet, depVars
  <2> QED
    BY <2>1, <2>2
<1>5. CASE \/ DeployControllerRefused \/ PassFails \/ EnsureInfraFailsHalfway \/ Crash
           \/ Deliver \/ \E applied \in SUBSET Companions : DeployBundleFailsHalfway(applied)
  <2>1. pending' = TRUE
    BY <1>5 DEF DeployControllerRefused, PassFails, EnsureInfraFailsHalfway, Crash, Deliver,
                DeployBundleFailsHalfway, Abort
  <2> QED
    BY <2>1, Disturbed
<1>6. CASE ControllerBootstraps \/ ControllerCleansUp \/ UNCHANGED vars
  <2>1. UNCHANGED <<managementState, generation, dep, companions, infra, pending, reason,
                    inFlight, pc>>
    BY <1>6 DEF ControllerBootstraps, ControllerCleansUp, vars, specVars, depVars, passVars
  <2> QED
    BY <2>1, Zenon DEF SettledMatchesSpec, Quiet, InstalledAtGeneration, TeardownAwaited,
                       Uninstalled, Collectable, StampOf
<1>7. CASE ControllerReports
  <2> SUFFICES ASSUME Undisturbed' PROVE FALSE
    BY DEF SettledMatchesSpec, Quiet, Undisturbed
  <2>1. /\ dep \in DeploymentStates /\ ~dep.completed
        /\ WriteDep([dep EXCEPT !.completed = TRUE])
    BY <1>7, Numbers DEF ControllerReports, ControllerRuns
  <2>2. /\ [dep EXCEPT !.completed = TRUE] \in DeploymentStates \cup {Absent}
        /\ [dep EXCEPT !.completed = TRUE] # dep
    BY <2>1 DEF DeploymentStates
  <2> QED
    BY <2>1, <2>2, WriteDepSilent
<1> QED
  BY <1>1, <1>2, <1>3, <1>4, <1>5, <1>6, <1>7
  DEF Next, PassStep, ControllerStep, FaultStep

(* No event the operator needs is ever missed: with the queue empty and    *)
(* the informer idle, the cluster is what the spec asks for, whatever      *)
(* failed, lagged or raced before, in every environment (the watches of    *)
(* NewReconciler, with initialize, deploy, overWriteCondition and gc).     *)
THEOREM RestMatchesSpec == Spec => []SettledMatchesSpec
<1>1. Init => RestInv
  BY InitRest DEF RestInv
<1>2. TypeOK /\ TypeOK' /\ RestInv /\ [Next]_vars => RestInv'
  BY StepHistory, StepUnmoved, StepSettles DEF RestInv
<1>3. RestInv => SettledMatchesSpec
  BY DEF RestInv
<1> QED
  BY <1>1, <1>2, <1>3, TypeCorrect, PTL DEF Spec
=============================================================================
