---------------------- MODULE PlatformHandshake_proofs ----------------------
(***************************************************************************)
(* Proofs about PlatformHandshake, for every number of versions, updates,  *)
(* faults and, where the status is concerned, any lag of the informer.     *)
(***************************************************************************)
EXTENDS PlatformHandshake, TLAPS

---------------------------------------------------------------------------
(* Type correctness.                                                       *)

\* What holds of every status the API server and the informer have, and of the one
\* patched, holds of those they have afterwards.
LEMMA WriteStatusKeeps ==
  ASSUME NEW S, status \in S, cached \in S, inFlight \in Seq(S), NEW s \in S, WriteStatus(s)
  PROVE  status' \in S /\ cached' \in S /\ inFlight' \in Seq(S)
<1> DEFINE owed == Append(inFlight, s)
<1>0. status' = s
  BY DEF WriteStatus
<1>1. CASE s = status
  BY <1>0, <1>1 DEF WriteStatus, cache
<1>2. CASE s # status /\ Len(owed) > MaxLag
  <2>1. owed \in Seq(S)
    OBVIOUS
  <2>2. owed # <<>>
    <3>1. Len(owed) = Len(inFlight) + 1 /\ Len(inFlight) \in Nat
      OBVIOUS
    <3> QED
      BY <3>1
  <2> HIDE DEF owed
  <2>3. Head(owed) \in S /\ Tail(owed) \in Seq(S)
    BY <2>1, <2>2
  <2> QED
    BY <1>0, <1>2, <2>3 DEF owed, WriteStatus
<1>3. CASE s # status /\ ~(Len(owed) > MaxLag)
  BY <1>0, <1>3 DEF WriteStatus, cache
<1> QED
  BY <1>1, <1>2, <1>3

\* In particular their types.
LEMMA WriteStatusTyped ==
  ASSUME TypeOK, NEW s \in Statuses, WriteStatus(s)
  PROVE  status' \in Statuses /\ cached' \in Statuses /\ inFlight' \in Seq(Statuses)
BY WriteStatusKeeps DEF TypeOK

\* Listing, preserving and reporting releases yields well-typed statuses.
LEMMA ReleasesTyped ==
  ASSUME TypeOK, NEW s \in Statuses, NEW read \in {None} \cup Versions
  PROVE  /\ Relisted(s) \in Statuses
         /\ Preserved(s, rr.status.platform) \in Statuses
         /\ Reported(s, read) \in Statuses
<1>1. {} \in {Entry(v) : v \in {None} \cup Versions}
  BY DEF Entry
<1>2. rr.status.platform \in {Entry(v) : v \in {None} \cup Versions}
  BY DEF TypeOK, Statuses
<1>3. Entry(read) \in {Entry(v) : v \in {None} \cup Versions}
  OBVIOUS
<1>4. binary \in {None} \cup Binaries
  BY DEF TypeOK
<1> HIDE DEF Entry
<1> QED
  BY <1>1, <1>2, <1>3, <1>4 DEF Relisted, Preserved, Reported, Statuses

\* Every initial state is well typed.
LEMMA InitTyped == Init => TypeOK
<1> SUFFICES ASSUME Init PROVE TypeOK
  OBVIOUS
<1>1. {} \in {Entry(v) : v \in {None} \cup Versions}
  BY DEF Entry
<1>2. Unset \in Statuses
  BY <1>1 DEF Unset, Statuses
<1>3. \A b \in Binaries : [platform |-> Entry(config), module |-> b, listed |-> TRUE] \in Statuses
  BY DEF Init, Statuses
<1>4. status \in Statuses
  BY <1>2, <1>3 DEF Init
<1>5. NoPass \in [status: Statuses, seen: Statuses, upgraded: BOOLEAN, reported: BOOLEAN,
              failed: BOOLEAN]
  BY <1>2 DEF NoPass
<1>6. /\ withdrawn \in BOOLEAN /\ pending \in BOOLEAN /\ pc \in Labels
      /\ updates \in 0..MaxUpdates /\ faults \in 0..MaxFaults /\ misreads \in 0..MaxMisreads
  <2>1. \A m \in Nat : 0 \in 0..m
    OBVIOUS
  <2> QED
    BY <2>1, LimitsOK, Zenon DEF Init, Labels
<1>7. inFlight \in Seq(Statuses)
  BY DEF Init
<1> QED
  BY <1>4, <1>5, <1>6, <1>7, Zenon DEF Init, TypeOK

\* Every step keeps the state well typed.
LEMMA StepTyped == TypeOK /\ [Next]_vars => TypeOK'
<1> SUFFICES ASSUME TypeOK, [Next]_vars PROVE TypeOK'
  OBVIOUS
<1> DEFINE Pass == [status: Statuses, seen: Statuses, upgraded: BOOLEAN, reported: BOOLEAN,
              failed: BOOLEAN]
<1> USE DEF bounds, cache
<1>a. NoPass \in Pass
  <2>1. {} \in {Entry(v) : v \in {None} \cup Versions}
    BY DEF Entry
  <2> QED
    BY <2>1 DEF NoPass, Unset, Statuses
<1>f. Fault => faults' \in 0..MaxFaults
  <2>1. faults \in 0..MaxFaults
    BY DEF TypeOK
  <2> QED
    BY <2>1, LimitsOK DEF Fault
<1>1. ASSUME NEW v \in {None} \cup Versions, PlatformSets(v) PROVE TypeOK'
  <2>1. updates \in 0..MaxUpdates /\ updates < MaxUpdates
    BY <1>1 DEF PlatformSets, TypeOK
  <2>2. updates + 1 \in 0..MaxUpdates
    BY <2>1, LimitsOK
  <2> QED
    BY <1>1, <2>2 DEF PlatformSets, TypeOK
<1>2. CASE OtherEvent
  BY <1>2 DEF OtherEvent, TypeOK
<1>3. CASE Deliver
  <2>1. inFlight \in Seq(Statuses) /\ inFlight # <<>>
    BY <1>3 DEF Deliver, TypeOK
  <2>2. Head(inFlight) \in Statuses /\ Tail(inFlight) \in Seq(Statuses)
    BY <2>1
  <2> QED
    BY <1>3, <2>2 DEF Deliver, TypeOK
<1>4. CASE Begin
  <2>1. rr' \in Pass
    BY <1>4, <1>a DEF Begin, NoPass, TypeOK
  <2> QED
    BY <1>4, <2>1 DEF Begin, TypeOK, Labels
<1>5. CASE Proceed
  <2>1. pc' \in Labels
    BY <1>5 DEF Proceed, After, Labels
  <2> QED
    BY <1>5, <2>1 DEF Proceed, TypeOK
<1>6. CASE UpgradeIfNeeded
  <2>1. UpgradeNeeded(rr.status.module) \in BOOLEAN
    BY DEF UpgradeNeeded
  <2> QED
    BY <1>6, <2>1 DEF UpgradeIfNeeded, TypeOK, Labels
<1>7. CASE ListReleases
  <2>1. Preserved(Relisted(rr.status), rr.status.platform) \in Statuses
    BY ReleasesTyped DEF TypeOK, None
  <2> QED
    BY <1>7, <2>1 DEF ListReleases, TypeOK, Labels
<1>8. ASSUME NEW read \in {None} \cup Versions, Report(read), misreads' \in 0..MaxMisreads
      PROVE  TypeOK'
  <2>1. Reported(rr.status, read) \in Statuses
    BY ReleasesTyped DEF TypeOK
  <2> QED
    BY <1>8, <2>1 DEF Report, TypeOK, Labels
<1>9. CASE ReportStatus
  BY <1>8, <1>9 DEF ReportStatus, TypeOK
<1>10. CASE ReportStatusMisreads
  <2>1. misreads \in 0..MaxMisreads /\ misreads < MaxMisreads
    BY <1>10 DEF ReportStatusMisreads, TypeOK
  <2>2. misreads' \in 0..MaxMisreads
    BY <1>10, <2>1, LimitsOK DEF ReportStatusMisreads
  <2> QED
    BY <1>8, <1>10, <2>2 DEF ReportStatusMisreads
<1>11. CASE Patch
  <2>1. status' \in Statuses /\ cached' \in Statuses /\ inFlight' \in Seq(Statuses)
    BY <1>11, WriteStatusTyped DEF Patch, TypeOK
  <2> QED
    BY <1>11, <1>a, <2>1 DEF Patch, TypeOK, Labels
<1>12. CASE PassFails
  BY <1>12, <1>f DEF PassFails, TypeOK, Labels
<1>13. CASE ListReleasesFails
  <2>1. PICK s \in {rr.status, Relisted(rr.status)} :
          rr' = [rr EXCEPT !.status = Preserved(s, @.platform), !.failed = TRUE]
    BY <1>13 DEF ListReleasesFails
  <2>2. s \in Statuses
    BY <2>1, ReleasesTyped DEF TypeOK, None
  <2>3. Preserved(s, rr.status.platform) \in Statuses
    BY <2>2, ReleasesTyped DEF None
  <2> QED
    BY <1>13, <1>f, <2>1, <2>3 DEF ListReleasesFails, TypeOK, Labels
<1>14. CASE PatchFails
  BY <1>14, <1>a, <1>f DEF PatchFails, TypeOK, Labels
<1>15. CASE Restart
  BY <1>15, <1>a, <1>f DEF Restart, TypeOK, Labels
<1>16. CASE UNCHANGED vars
  BY <1>16 DEF vars, TypeOK
<1> QED
  BY <1>1, <1>2, <1>3, <1>4, <1>5, <1>6, <1>7, <1>9, <1>10, <1>11, <1>12, <1>13,
     <1>14, <1>15, <1>16
  DEF Next, PassStep, FaultStep

\* Type correctness: in every environment the state stays in its range; the
\* platform entry never lacks a version (setPlatformRelease, clearPlatformRelease).
THEOREM PlatformTypeCorrect == Spec => []TypeOK
<1> QED
  BY InitTyped, StepTyped, PTL DEF Spec

---------------------------------------------------------------------------
(* A quiet operator has answered, whatever lags, as long as the ConfigMap  *)
(* could be read.                                                          *)

Answer == [platform |-> Entry(config), module |-> binary, listed |-> TRUE]

\* Unless another event is queued, a pass past the releases action has listed
\* them, one past reportStatus holds the answer, and a finished one has given it.
Answering ==
  /\ rr.failed => pc = "patch"
  /\ pc \in {"deploy", "report"} => rr.status.listed
  /\ misreads = 0 =>
       /\ ~pending /\ ~rr.failed /\ pc \in {"gc", "patch"} => rr.status = Answer
       /\ ~pending /\ pc = "idle" => status = Answer

\* Every step keeps Answering.
LEMMA StepAnswering ==
  ASSUME TypeOK, Answering, [Next]_vars PROVE Answering'
<1> USE DEF Answering, Answer, bounds, cache
<1>1. ASSUME NEW v \in {None} \cup Versions, PlatformSets(v) PROVE Answering'
  BY <1>1 DEF PlatformSets
<1>2. CASE OtherEvent
  BY <1>2 DEF OtherEvent
<1>3. CASE Deliver
  BY <1>3 DEF Deliver
<1>4. CASE Begin
  BY <1>4 DEF Begin, NoPass
<1>5. CASE Proceed
  <2>0. UNCHANGED <<config, binary, status, pending, misreads, rr>>
    BY <1>5 DEF Proceed
  <2>1. pc \in {"prepare", "deploy", "gc"} /\ pc' = After[pc]
    BY <1>5 DEF Proceed, After
  <2>2. CASE pc = "prepare"
    BY <2>0, <2>1, <2>2 DEF After
  <2>3. CASE pc = "deploy"
    BY <2>0, <2>1, <2>3 DEF After
  <2>4. CASE pc = "gc"
    BY <2>0, <2>1, <2>4 DEF After
  <2> QED
    BY <2>1, <2>2, <2>3, <2>4
<1>6. CASE UpgradeIfNeeded
  BY <1>6 DEF UpgradeIfNeeded, TypeOK
<1>7. CASE ListReleases
  <2>1. Preserved(Relisted(rr.status), rr.status.platform).listed
    BY DEF Preserved, Relisted, TypeOK, Statuses
  <2>2. rr'.status.listed /\ rr'.failed = rr.failed
    BY <1>7, <2>1 DEF ListReleases, TypeOK
  <2> QED
    BY <1>7, <2>2 DEF ListReleases
<1>8. CASE ReportStatus
  <2>1. rr.status.listed /\ ~rr.failed /\ pc = "report" /\ pc' = "gc"
    BY <1>8 DEF ReportStatus, Report
  <2>2. Reported(rr.status, config) = Answer
    <3>1. rr.status.listed = TRUE
      BY <2>1 DEF TypeOK, Statuses
    <3> QED
      BY <3>1 DEF Reported
  <2>3. rr'.status = Answer /\ rr'.failed = rr.failed
    BY <1>8, <2>2 DEF ReportStatus, Report, TypeOK
  <2>4. Answer' = Answer
    BY <1>8 DEF ReportStatus, Report
  <2> QED
    BY <2>1, <2>3, <2>4
<1>9. CASE ReportStatusMisreads
  <2>1. misreads \in Nat /\ misreads' = misreads + 1
    BY <1>9, LimitsOK DEF ReportStatusMisreads, TypeOK
  <2>2. misreads' # 0
    BY <2>1
  <2>3. pc' = "gc" /\ rr'.failed = rr.failed /\ pc = "report"
    BY <1>9 DEF ReportStatusMisreads, Report, TypeOK
  <2> QED
    BY <2>2, <2>3
<1>10. CASE Patch
  BY <1>10 DEF Patch, WriteStatus, NoPass, TypeOK
<1>11. CASE PassFails
  <2>1. rr'.failed /\ pc' = "patch"
    BY <1>11 DEF PassFails, TypeOK
  <2> QED
    BY <2>1
<1>12. CASE ListReleasesFails
  <2>1. rr'.failed /\ pc' = "patch"
    BY <1>12 DEF ListReleasesFails, TypeOK
  <2> QED
    BY <2>1
<1>13. CASE PatchFails
  BY <1>13 DEF PatchFails, NoPass
<1>14. CASE Restart
  BY <1>14 DEF Restart, NoPass
<1>15. CASE UNCHANGED vars
  BY <1>15 DEF vars
<1> QED
  BY <1>1, <1>2, <1>3, <1>4, <1>5, <1>6, <1>7, <1>8, <1>9, <1>10, <1>11, <1>12,
     <1>13, <1>14, <1>15
  DEF Next, PassStep, FaultStep

\* With the work queue empty, status.releases and status.module say what the
\* platform asked for and who answered, however far the informer lags, unless a
\* read of the ConfigMap failed (reportStatus, NewReconciler's watch).
THEOREM EchoSettles == Spec => []SettledEcho
<1>1. Init => Answering
  BY DEF Init, Answering, NoPass
<1>2. TypeOK /\ Answering /\ [Next]_vars => Answering'
  BY StepAnswering
<1>3. Answering => SettledEcho
  BY DEF Answering, Answer, SettledEcho, Quiet, Answered
<1> QED
  BY <1>1, <1>2, <1>3, PlatformTypeCorrect, PTL DEF Spec

---------------------------------------------------------------------------
(* What a pass takes over from the status it began from.                   *)

InPass == pc # "idle"

\* Up to reportStatus, a pass carries the platform entry and the module it read.
Carried ==
  InPass /\ ~rr.reported => /\ rr.status.platform = rr.seen.platform
                            /\ rr.status.module = rr.seen.module

\* reportStatus records the running operator, whose upgrade this pass has run.
Recorded ==
  /\ pc \in {"prepare", "upgrade", "releases", "deploy", "report"} => ~rr.reported
  /\ InPass /\ rr.reported => rr.status.module = binary
  /\ pc \in {"releases", "deploy", "report"} =>
       rr.upgraded = UpgradeNeeded(rr.seen.module)
  /\ InPass /\ rr.reported => rr.upgraded = UpgradeNeeded(rr.seen.module)

StatusInv == Carried /\ Recorded

\* Relisting and preserving put the platform entry back and keep the module.
LEMMA PreservedCarries ==
  ASSUME NEW s \in Statuses, NEW t \in {s, Relisted(s)}
  PROVE  /\ Preserved(t, s.platform).platform = s.platform
         /\ Preserved(t, s.platform).module = s.module
<1>1. t \in Statuses /\ t.module = s.module /\ (s.platform = {} => t.platform = {})
  <2>1. CASE t = s
    BY <2>1
  <2>2. CASE t = Relisted(s)
    <3>1. {} \in {Entry(v) : v \in {None} \cup Versions}
      BY DEF Entry
    <3>2. t.platform = {} /\ t.module = s.module
      BY <2>2 DEF Relisted, Statuses
    <3>3. t \in Statuses
      BY <2>2, <3>1 DEF Relisted, Statuses
    <3> QED
      BY <3>2, <3>3
  <2> QED
    BY <2>1, <2>2
<1>2. CASE s.platform = {}
  BY <1>1, <1>2 DEF Preserved
<1>3. CASE s.platform # {}
  <2> DEFINE e == [t EXCEPT !.platform = s.platform]
  <2>1. Preserved(t, s.platform) = e
    BY <1>3 DEF Preserved
  <2>2. e.platform = s.platform /\ e.module = t.module
    BY <1>1 DEF Statuses
  <2> HIDE DEF e
  <2> QED
    BY <1>1, <2>1, <2>2
<1> QED
  BY <1>2, <1>3

\* Every step keeps what the pass carries and records.
LEMMA StepStatusInv ==
  ASSUME TypeOK, StatusInv, [Next]_vars PROVE StatusInv'
<1> USE DEF StatusInv, Carried, Recorded, InPass, bounds, cache, UpgradeNeeded
<1>1. ASSUME NEW v \in {None} \cup Versions, PlatformSets(v) PROVE StatusInv'
  BY <1>1 DEF PlatformSets
<1>2. CASE OtherEvent
  BY <1>2 DEF OtherEvent
<1>3. CASE Deliver
  BY <1>3 DEF Deliver
<1>4. CASE Begin
  BY <1>4 DEF Begin, NoPass
<1>5. CASE Proceed
  <2>0. UNCHANGED <<binary, rr>>
    BY <1>5 DEF Proceed
  <2>1. pc \in {"prepare", "deploy", "gc"} /\ pc' = After[pc]
    BY <1>5 DEF Proceed, After
  <2>2. CASE pc = "prepare"
    BY <2>0, <2>1, <2>2 DEF After
  <2>3. CASE pc = "deploy"
    BY <2>0, <2>1, <2>3 DEF After
  <2>4. CASE pc = "gc"
    BY <2>0, <2>1, <2>4 DEF After
  <2> QED
    BY <2>1, <2>2, <2>3, <2>4
<1>6. CASE UpgradeIfNeeded
  <2> HIDE DEF UpgradeNeeded
  <2>1. /\ pc = "upgrade" /\ pc' = "releases" /\ UNCHANGED binary
        /\ rr'.upgraded = UpgradeNeeded(rr.status.module) /\ rr'.seen = rr.seen
        /\ rr'.status = rr.status /\ rr'.reported = rr.reported
    BY <1>6 DEF UpgradeIfNeeded, TypeOK
  <2>2. UpgradeNeeded(rr.seen.module)' = UpgradeNeeded(rr.seen.module)
    BY <2>1 DEF UpgradeNeeded
  <2>3. ~rr.reported
    BY <2>1
  <2> QED
    BY <2>1, <2>2, <2>3
<1>7. CASE ListReleases
  <2>1. /\ pc = "releases" /\ pc' = "deploy" /\ UNCHANGED binary /\ rr'.seen = rr.seen
        /\ rr'.reported = rr.reported /\ rr'.upgraded = rr.upgraded
        /\ rr'.status = Preserved(Relisted(rr.status), rr.status.platform)
    BY <1>7 DEF ListReleases, TypeOK
  <2>2. /\ rr'.status.platform = rr.status.platform
        /\ rr'.status.module = rr.status.module
    BY <2>1, PreservedCarries DEF TypeOK
  <2> QED
    BY <2>1, <2>2
<1>8. ASSUME NEW read, Report(read) PROVE StatusInv'
  BY <1>8 DEF Report, Reported, TypeOK
<1>9. CASE Patch
  BY <1>9 DEF Patch, NoPass
<1>10. CASE PassFails
  BY <1>10 DEF PassFails, TypeOK
<1>11. CASE ListReleasesFails
  <2>1. PICK s \in {rr.status, Relisted(rr.status)} :
          rr' = [rr EXCEPT !.status = Preserved(s, @.platform), !.failed = TRUE]
    BY <1>11 DEF ListReleasesFails
  <2>2. /\ pc = "releases" /\ pc' = "patch" /\ UNCHANGED binary /\ rr'.seen = rr.seen
        /\ rr'.reported = rr.reported /\ rr'.upgraded = rr.upgraded
        /\ rr'.status = Preserved(s, rr.status.platform)
    BY <1>11, <2>1 DEF ListReleasesFails, TypeOK
  <2>3. /\ rr'.status.platform = rr.status.platform
        /\ rr'.status.module = rr.status.module
    BY <2>2, PreservedCarries DEF TypeOK
  <2> QED
    BY <2>2, <2>3
<1>12. CASE PatchFails
  BY <1>12 DEF PatchFails, NoPass
<1>13. CASE Restart
  BY <1>13 DEF Restart, NoPass
<1>14. CASE UNCHANGED vars
  BY <1>14 DEF vars
<1> QED
  BY <1>1, <1>2, <1>3, <1>4, <1>5, <1>6, <1>7, <1>8, <1>9, <1>10, <1>11, <1>12,
     <1>13, <1>14
  DEF Next, PassStep, FaultStep, ReportStatus, ReportStatusMisreads

\* StatusInv holds throughout, whatever lags.
LEMMA StatusInvariance == Spec => [](TypeOK /\ StatusInv)
<1>1. Init => TypeOK /\ StatusInv
  BY InitTyped DEF Init, StatusInv, Carried, Recorded, InPass, NoPass
<1>2. TypeOK /\ StatusInv /\ [Next]_vars => (TypeOK /\ StatusInv)'
  BY StepTyped, StepStatusInv
<1> QED
  BY <1>1, <1>2, PTL DEF Spec

\* Only Patch writes the status.
LEMMA OnlyPatchWrites ==
  ASSUME [Next]_vars, status' # status PROVE Patch
  BY DEF Next, PassStep, FaultStep, vars, PlatformSets, OtherEvent, Deliver, Begin,
     Proceed, UpgradeIfNeeded, ListReleases, ReportStatus, ReportStatusMisreads,
     Report, PassFails, ListReleasesFails, PatchFails, Restart

\* A pass that fails before reportStatus leaves the platform entry alone, if it
\* began from the status last patched (withPreservedPlatformRelease).
THEOREM FailureKeeps == Spec => FailureKeepsEntry
<1>1. ASSUME TypeOK, StatusInv, [Next]_vars, rr.failed, ~rr.reported, rr.seen = status
      PROVE  status'.platform = status.platform
  <2>1. CASE status' = status
    BY <2>1
  <2>2. CASE status' # status
    <3>1. Patch
      BY <1>1, <2>2, OnlyPatchWrites
    <3>2. status' = rr.status /\ pc = "patch"
      BY <3>1 DEF Patch, WriteStatus
    <3> QED
      BY <1>1, <3>2 DEF StatusInv, Carried, InPass
  <2> QED
    BY <2>1, <2>2
<1>2. TypeOK /\ StatusInv /\ [Next]_vars =>
        [rr.failed /\ ~rr.reported /\ rr.seen = status =>
           status'.platform = status.platform]_vars
  BY <1>1
<1> QED
  BY <1>2, StatusInvariance, PTL DEF Spec, FailureKeepsEntry

\* A newer operator is never recorded by a pass that did not run its upgrade, if
\* passes begin from the status last patched (upgradeIfNeeded, reportStatus).
THEOREM UpgradeFirst == Spec => UpgradedBeforeRecorded
<1>1. ASSUME TypeOK, StatusInv, [Next]_vars, rr.seen = status,
             status.module # None, status'.module > status.module
      PROVE  rr.upgraded
  <2>0. status.module \in Nat /\ binary \in Nat
    BY <1>1, SizesOK DEF TypeOK, Statuses, Binaries, None
  <2>1. Patch
    <3>1. status' # status
      BY <1>1, <2>0
    <3> QED
      BY <1>1, <3>1, OnlyPatchWrites
  <2>2. status' = rr.status /\ pc = "patch"
    BY <2>1 DEF Patch, WriteStatus
  <2>3. rr.reported
    BY <1>1, <2>0, <2>2 DEF StatusInv, Carried, InPass
  <2> QED
    BY <1>1, <2>2, <2>3 DEF StatusInv, Recorded, InPass, UpgradeNeeded
<1>2. TypeOK /\ StatusInv /\ [Next]_vars =>
        [status.module # None /\ status'.module > status.module /\ rr.seen = status =>
           rr.upgraded]_vars
  BY <1>1
<1> QED
  BY <1>2, StatusInvariance, PTL DEF Spec, UpgradedBeforeRecorded

---------------------------------------------------------------------------
(* While the platform only moves forward.                                  *)

\* Statuses whose platform entry is not ahead of version v.
Behind(v) == {s \in Statuses : \A e \in s.platform : e <= v}

Forward ==
  misreads = 0 /\ ~withdrawn =>
    /\ status \in Behind(config) /\ cached \in Behind(config)
    /\ inFlight \in Seq(Behind(config))
    /\ InPass => rr.seen \in Behind(config)
    /\ InPass /\ rr.reported =>
         /\ rr.status \in Behind(config)
         /\ \A v \in status.platform : \E w \in rr.status.platform : w >= v

\* An entry holds nothing but versions, which are positive numbers.
LEMMA EntriesAreVersions ==
  ASSUME NEW s \in Statuses, NEW v \in s.platform
  PROVE  v \in Nat /\ v > 0
<1>1. PICK u \in {None} \cup Versions : s.platform = Entry(u)
  BY DEF Statuses
<1> QED
  BY <1>1, SizesOK DEF Entry, None, Versions

\* What is behind a version is behind every later one.
LEMMA BehindGrows ==
  ASSUME NEW v \in Nat, NEW w \in Nat, v <= w
  PROVE  /\ Behind(v) \subseteq Behind(w)
         /\ Seq(Behind(v)) \subseteq Seq(Behind(w))
<1>1. Behind(v) \subseteq Behind(w)
  <2> SUFFICES ASSUME NEW s \in Behind(v), NEW e \in s.platform PROVE e <= w
    BY DEF Behind
  <2>1. e \in Nat /\ e <= v
    BY EntriesAreVersions DEF Behind
  <2> QED
    BY <2>1
<1>2. Seq(Behind(v)) \subseteq Seq(Behind(w))
  <2> SUFFICES ASSUME NEW q \in Seq(Behind(v)) PROVE q \in Seq(Behind(w))
    OBVIOUS
  <2> QED
    BY <1>1
<1> QED
  BY <1>1, <1>2

\* What a pass is about to patch is behind the ConfigMap, reported or not.
LEMMA PatchedBehind ==
  ASSUME TypeOK, StatusInv, Forward, InPass, misreads = 0, ~withdrawn
  PROVE  rr.status \in Behind(config)
<1>1. rr.status \in Statuses
  BY DEF TypeOK
<1>2. CASE rr.reported
  BY <1>2 DEF Forward
<1>3. CASE ~rr.reported
  BY <1>1, <1>3 DEF Forward, Behind, StatusInv, Carried
<1> QED
  BY <1>2, <1>3

\* The entries of all statuses stay behind the ConfigMap, and that of a pass which
\* has reported ahead of the one in the API server.
LEMMA StepForward ==
  ASSUME TypeOK, StatusInv, Forward, [Next]_vars PROVE Forward'
<1> SUFFICES ASSUME misreads' = 0, ~withdrawn' PROVE Forward'
  BY DEF Forward
<1> USE DEF InPass, bounds, cache
<1> DEFINE B == Behind(config)
<1>0. /\ config \in Nat /\ status \in Statuses /\ cached \in Statuses
      /\ rr.status \in Statuses /\ misreads \in Nat
  BY SizesOK, LimitsOK DEF TypeOK, None, Versions
<1>n. misreads = 0 /\ ~withdrawn
  <2>1. misreads' = misreads \/ misreads' = misreads + 1
    BY DEF Next, PassStep, FaultStep, vars, PlatformSets, OtherEvent, Deliver, Begin,
       Proceed, UpgradeIfNeeded, ListReleases, ReportStatus, ReportStatusMisreads, Report,
       Patch, PassFails, ListReleasesFails, PatchFails, Restart
  <2>2. withdrawn => withdrawn'
    BY Zenon DEF Next, PassStep, FaultStep, vars, PlatformSets, OtherEvent, Deliver, Begin,
       Proceed, UpgradeIfNeeded, ListReleases, ReportStatus, ReportStatusMisreads, Report,
       Patch, PassFails, ListReleasesFails, PatchFails, Restart
  <2> QED
    BY <1>0, <2>1, <2>2
<1>f. /\ status \in B /\ cached \in B /\ inFlight \in Seq(B)
      /\ pc # "idle" => rr.seen \in B
      /\ pc # "idle" /\ rr.reported =>
           rr.status \in B /\ \A v \in status.platform : \E w \in rr.status.platform : w >= v
  BY <1>n DEF Forward
<1>p. pc # "idle" => rr.status \in B
  BY <1>n, PatchedBehind
<1>e. \A v \in status.platform : v \in Nat /\ v > 0 /\ v <= config
  BY <1>0, <1>f, EntriesAreVersions DEF Behind
<1> HIDE DEF B
<1>s. ASSUME config' = config, status' \in B, cached' \in B, inFlight' \in Seq(B),
             pc' # "idle" => rr'.seen \in B,
             pc' # "idle" /\ rr'.reported =>
               /\ rr'.status \in B
               /\ \A v \in status'.platform : \E w \in rr'.status.platform : w >= v
      PROVE  Forward'
  <2>1. Behind(config)' = B
    BY <1>s DEF B, Behind
  <2> QED
    BY <1>s, <2>1 DEF Forward
<1>1. ASSUME NEW v \in {None} \cup Versions, PlatformSets(v) PROVE Forward'
  <2>1. v \in Nat /\ config' = v /\ UNCHANGED <<status, cached, inFlight, pc, rr>>
    BY <1>1, SizesOK DEF PlatformSets, None, Versions
  <2>2. ~(v < config)
    BY <1>1 DEF PlatformSets
  <2>3. Behind(config) \subseteq Behind(v) /\ Seq(Behind(config)) \subseteq Seq(Behind(v))
    BY <1>0, <2>1, <2>2, BehindGrows
  <2>4. Behind(config)' = Behind(v)
    BY <2>1 DEF Behind
  <2> QED
    BY <1>f, <2>1, <2>3, <2>4 DEF Forward, B
<1>2. CASE ReportStatus
  <2>1. /\ pc = "report" /\ UNCHANGED <<config, status, cached, inFlight>>
        /\ rr'.seen = rr.seen /\ rr'.status = Reported(rr.status, config)
    BY <1>2 DEF ReportStatus, Report, TypeOK
  <2>2. rr'.status \in Statuses
    <3>1. config \in {None} \cup Versions
      BY DEF TypeOK
    <3> QED
      BY <1>0, <2>1, <3>1, ReleasesTyped
  <2>3. rr'.status.platform = Entry(config)
    BY <2>1 DEF Reported
  <2>4. rr'.status \in B
    <3>1. \A w \in Entry(config) : w <= config
      BY <1>0 DEF Entry
    <3> QED
      BY <2>2, <2>3, <3>1 DEF B, Behind
  <2>5. ASSUME NEW v \in status.platform PROVE \E w \in Entry(config) : w >= v
    <3>1. v \in Nat /\ v > 0 /\ v <= config
      BY <1>e
    <3>2. Entry(config) = {config}
      BY <1>0, <3>1 DEF Entry, None
    <3> QED
      BY <1>0, <3>1, <3>2
  <2>6. \A v \in status'.platform : \E w \in rr'.status.platform : w >= v
    BY <2>1, <2>3, <2>5, Zenon
  <2> QED
    BY <1>f, <1>s, <2>1, <2>4, <2>6
<1>3. CASE Patch
  <2>1. /\ WriteStatus(rr.status) /\ pc = "patch" /\ pc' = "idle" /\ config' = config
        /\ rr.status \in B
    BY <1>3, <1>p DEF Patch
  <2>2. status' \in B /\ cached' \in B /\ inFlight' \in Seq(B)
    BY <1>f, <2>1, WriteStatusKeeps
  <2> QED
    BY <1>s, <2>1, <2>2
<1>4. CASE Begin
  <2>1. /\ UNCHANGED <<config, status, cached, inFlight>>
        /\ rr'.reported = FALSE /\ rr'.seen = cached
    BY <1>4 DEF Begin, NoPass
  <2> QED
    BY <1>f, <1>s, <2>1
<1>5. CASE PatchFails \/ Restart
  <2>1. /\ pc' = "idle" /\ UNCHANGED <<config, status>>
        /\ cached' \in {cached, status} /\ inFlight' \in {inFlight, <<>>}
    <3>1. CASE PatchFails
      BY <3>1 DEF PatchFails
    <3>2. CASE Restart
      BY <3>2 DEF Restart
    <3> QED
      BY <1>5, <3>1, <3>2
  <2>2. <<>> \in Seq(B)
    OBVIOUS
  <2>3. status' \in B /\ cached' \in B /\ inFlight' \in Seq(B)
    BY <1>f, <2>1, <2>2
  <2> QED
    BY <1>s, <2>1, <2>3
<1>6. CASE ListReleases \/ ListReleasesFails \/ UpgradeIfNeeded
  <2>1. /\ UNCHANGED <<config, status, cached, inFlight>> /\ pc # "idle" /\ rr'.seen = rr.seen
        /\ rr'.reported = rr.reported /\ pc \in {"releases", "upgrade"}
    BY <1>6 DEF ListReleases, ListReleasesFails, UpgradeIfNeeded, TypeOK
  <2>2. ~rr'.reported
    BY <2>1 DEF StatusInv, Recorded
  <2> QED
    BY <1>f, <1>s, <2>1, <2>2
<1>7. CASE PassFails
  <2>1. /\ UNCHANGED <<config, status, cached, inFlight>> /\ rr'.reported = rr.reported
        /\ rr'.status = rr.status /\ rr'.seen = rr.seen /\ pc # "idle"
    BY <1>7 DEF PassFails, TypeOK
  <2> QED
    BY <1>f, <1>s, <2>1
<1>8. CASE Proceed
  <2>1. UNCHANGED <<config, status, cached, inFlight, rr>> /\ pc # "idle"
    BY <1>8 DEF Proceed, After
  <2> QED
    BY <1>f, <1>s, <2>1
<1>9. CASE Deliver
  <2>1. /\ UNCHANGED <<config, status, pc, rr>> /\ inFlight # <<>>
        /\ cached' = Head(inFlight) /\ inFlight' = Tail(inFlight)
    BY <1>9 DEF Deliver
  <2>2. cached' \in B /\ inFlight' \in Seq(B)
    BY <1>f, <2>1
  <2> QED
    BY <1>f, <1>s, <2>1, <2>2
<1>10. CASE OtherEvent \/ UNCHANGED vars
  <2>1. UNCHANGED <<config, status, cached, inFlight, pc, rr>>
    BY <1>10 DEF OtherEvent, vars
  <2> QED
    BY <1>f, <1>s, <2>1
<1>11. CASE ReportStatusMisreads
  <2>1. misreads' = misreads + 1
    BY <1>11 DEF ReportStatusMisreads
  <2> QED
    BY <1>0, <2>1
<1> QED
  BY <1>1, <1>2, <1>3, <1>4, <1>5, <1>6, <1>7, <1>8, <1>9, <1>10, <1>11
  DEF Next, PassStep, FaultStep

\* The echo never goes back while the platform only moves forward and its ConfigMap
\* can be read, with any lag: not by a pass that reports, nor by one that fails and
\* began from the status last patched (reportStatus, withPreservedPlatformRelease).
THEOREM EchoForward == Spec => EchoNeverRegresses
<1>1. Init => Forward
  <2> SUFFICES ASSUME Init PROVE Forward
    OBVIOUS
  <2>1. config \in Nat /\ status \in Statuses
    BY InitTyped, SizesOK DEF Init, None, Versions, TypeOK
  <2>2. \A v \in status.platform : v <= config
    BY <2>1 DEF Init, Unset, Entry
  <2>3. status \in Behind(config)
    BY <2>1, <2>2 DEF Behind
  <2>4. inFlight \in Seq(Behind(config))
    BY DEF Init
  <2> QED
    BY <2>3, <2>4 DEF Init, Forward, InPass
<1>2. TypeOK /\ StatusInv /\ Forward /\ [Next]_vars => Forward'
  BY StepForward
<1>3. ASSUME TypeOK, StatusInv, Forward, [Next]_vars, misreads = 0, ~withdrawn,
             rr.seen = status \/ rr.reported
      PROVE  \A v \in status.platform : \E w \in status'.platform : w >= v
  <2>0. \A v \in status.platform : v >= v
    BY <1>3, EntriesAreVersions DEF TypeOK
  <2>1. CASE status' = status
    BY <2>0, <2>1
  <2>2. CASE status' # status
    <3>1. Patch
      BY <1>3, <2>2, OnlyPatchWrites
    <3>2. status' = rr.status /\ pc = "patch"
      BY <3>1 DEF Patch, WriteStatus
    <3>3. CASE rr.reported
      BY <1>3, <3>2, <3>3 DEF Forward, InPass
    <3>4. CASE ~rr.reported
      <4>1. status'.platform = status.platform
        BY <1>3, <3>2, <3>4 DEF StatusInv, Carried, InPass
      <4> QED
        BY <2>0, <4>1
    <3> QED
      BY <3>3, <3>4
  <2> QED
    BY <2>1, <2>2
<1>4. TypeOK /\ StatusInv /\ Forward /\ [Next]_vars =>
        [misreads = 0 /\ ~withdrawn /\ (rr.seen = status \/ rr.reported) =>
           \A v \in status.platform : \E w \in status'.platform : w >= v]_vars
  BY <1>3
<1> QED
  BY <1>1, <1>2, <1>4, StatusInvariance, PTL DEF Spec, EchoNeverRegresses
=============================================================================
