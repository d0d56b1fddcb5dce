------------------------- MODULE PlatformHandshake -------------------------
(***************************************************************************)
(* The upgrade handshake with the platform: the operator echoes the        *)
(* platformVersion of a ConfigMap into status.releases at the end of a     *)
(* reconcile pass, and its own version into status.module, while passes    *)
(* fail half-way, the cached AIGateway lags behind the one just patched    *)
(* and the operator is restarted or replaced by another version.           *)
(*                                                                         *)
(* The instance a pass reads is also where the pass writes its status: the *)
(* framework patches rr.status whether the pass succeeded or not.          *)
(***************************************************************************)
EXTENDS Naturals, Sequences

CONSTANTS
  MaxVersion,   \* platform versions the ConfigMap may carry: 1..MaxVersion
  MaxBinary,    \* operator versions that may run: 1..MaxBinary
  Withdrawals,  \* may the platform remove the key, or go back to an older version?
  MaxUpdates,   \* bound: changes of the ConfigMap
  MaxFaults,    \* bound: failed passes, failed patches and restarts
  MaxMisreads,  \* bound: failed reads of the ConfigMap
  MaxLag        \* bound: versions of the status the informer may still owe

ASSUME SizesOK == MaxVersion \in Nat \ {0} /\ MaxBinary \in Nat \ {0}

ASSUME LimitsOK == /\ MaxUpdates \in Nat /\ MaxFaults \in Nat
                   /\ MaxMisreads \in Nat /\ MaxLag \in Nat

ASSUME WithdrawalsOK == Withdrawals \in BOOLEAN

VARIABLES
  config,    \* data.platformVersion in the API server; None when absent
  binary,    \* m.version of the running operator
  status,    \* the AIGateway's status in the API server
  cached,    \* the operator's informer copy of status
  inFlight,  \* versions of status the informer has still to deliver
  pending,   \* is the AIGateway key in the work queue?
  withdrawn, \* has the platform ever gone back? (an auxiliary record)
  updates, faults, misreads,   \* counters of the bounded events
  pc, rr     \* the action about to run, and the ReconciliationRequest

bounds == <<withdrawn, updates, faults, misreads>>
cache  == <<cached, inFlight>>
vars   == <<config, binary, status, cached, inFlight, pending, withdrawn,
            updates, faults, misreads, pc, rr>>

None     == 0
Versions == 1..MaxVersion
Binaries == 1..MaxBinary

\* What a ConfigMap, or the platform entry of status.releases, says: entry {}
\* is no entry, entry {None} one without a version.
Entry(v) == IF v = None THEN {} ELSE {v}

\* platform: the platform entry of status.releases; listed: are the component's
\* own releases in the list?; module: status.module.version.
Statuses == [platform: {Entry(v) : v \in {None} \cup Versions},
             module: {None} \cup Binaries, listed: BOOLEAN]

Unset == [platform |-> {}, module |-> None, listed |-> FALSE]

\* rr.status is the status of the instance; seen, the one the pass read, is an
\* auxiliary record for the properties.
NoPass == [status |-> Unset, seen |-> Unset, upgraded |-> FALSE,
           reported |-> FALSE, failed |-> FALSE]

\* The pipeline, with the actions that do not touch the status taken together:
\* prepare (initialize, infra), deploy (kustomize ... overWriteCondition) and gc.
After == [prepare |-> "upgrade", deploy |-> "report", gc |-> "patch"]
Labels == {"idle", "prepare", "upgrade", "releases", "deploy", "report", "gc", "patch"}

---------------------------------------------------------------------------
WriteStatus(s) ==
  LET owed == Append(inFlight, s) IN
  /\ status' = s
  /\ IF s = status THEN UNCHANGED cache
     ELSE IF Len(owed) > MaxLag THEN cached' = Head(owed) /\ inFlight' = Tail(owed)
     ELSE inFlight' = owed /\ UNCHANGED cached

\* A delivered status does not enqueue: only a new generation would.
Deliver ==
  /\ inFlight # <<>>
  /\ cached' = Head(inFlight) /\ inFlight' = Tail(inFlight)
  /\ UNCHANGED <<config, binary, status, pending, bounds, pc, rr>>

Init ==
  /\ config \in {None} \cup Versions
  /\ binary \in Binaries
  /\ status \in {Unset} \cup {[platform |-> Entry(config), module |-> b, listed |-> TRUE] : b \in Binaries}
  /\ cached = status /\ inFlight = <<>>
  /\ pending = TRUE
  /\ withdrawn = FALSE /\ updates = 0 /\ faults = 0 /\ misreads = 0
  /\ pc = "idle" /\ rr = NoPass

\* The platform writes the ConfigMap, which is watched.
PlatformSets(v) ==
  /\ updates < MaxUpdates /\ updates' = updates + 1
  /\ v # config /\ (Withdrawals \/ v > config)
  /\ config' = v
  /\ withdrawn' = (withdrawn \/ v < config)
  /\ pending' = TRUE
  /\ UNCHANGED <<binary, status, cache, faults, misreads, pc, rr>>

\* Any other watched object changes.
OtherEvent ==
  /\ pending' = TRUE
  /\ UNCHANGED <<config, binary, status, cache, bounds, pc, rr>>

---------------------------------------------------------------------------
(* The reconcile pass.                                                     *)

Begin ==
  /\ pc = "idle" /\ pending
  /\ pending' = FALSE
  /\ rr' = [NoPass EXCEPT !.status = cached, !.seen = cached]
  /\ pc' = "prepare"
  /\ UNCHANGED <<config, binary, status, cache, bounds>>

Proceed ==
  /\ pc \in DOMAIN After
  /\ pc' = After[pc]
  /\ UNCHANGED <<config, binary, status, cache, pending, bounds, rr>>

UpgradeNeeded_Swapped(prev) == prev # None /\ prev > binary

\* moduleVersionChanged
UpgradeNeeded(prev) == prev # None /\ binary > prev

UpgradeIfNeeded ==
  /\ pc = "upgrade"
  /\ pc' = "releases"
  /\ rr' = [rr EXCEPT !.upgraded = UpgradeNeeded(rr.status.module)]
  /\ UNCHANGED <<config, binary, status, cache, pending, bounds>>

\* The releases action replaces the whole list.
Relisted(s) == [s EXCEPT !.platform = {}, !.listed = TRUE]

Preserved_NoReattach(s, prev) == s

Preserved_EvenUnset(s, prev) ==
  [s EXCEPT !.platform = IF prev = {} THEN {None} ELSE prev]

\* withPreservedPlatformRelease, after the action it wraps.
Preserved(s, prev) == IF prev = {} THEN s ELSE [s EXCEPT !.platform = prev]

ListReleases ==
  /\ pc = "releases"
  /\ pc' = "deploy"
  /\ rr' = [rr EXCEPT !.status = Preserved(Relisted(@), @.platform)]
  /\ UNCHANGED <<config, binary, status, cache, pending, bounds>>

Reported_NeverClears(s, read) ==
  [s EXCEPT !.platform = IF read = None THEN @ ELSE {read}, !.module = binary]

Reported_KeepsModule(s, read) ==
  [s EXCEPT !.platform = Entry(read), !.module = IF @ = None THEN binary ELSE @]

\* reportStatus: set or clear the platform entry, record the module.
Reported(s, read) ==
  [platform |-> Entry(read), module |-> binary, listed |-> s.listed]

Report(read) ==
  /\ pc = "report"
  /\ pc' = "gc"
  /\ rr' = [rr EXCEPT !.status = Reported(@, read), !.reported = TRUE]
  /\ UNCHANGED <<config, binary, status, cache, pending, withdrawn, updates, faults>>

ReportStatus == Report(config) /\ UNCHANGED misreads

\* getPlatformVersion returns "" when the ConfigMap cannot be read.
ReportStatusMisreads ==
  /\ misreads < MaxMisreads /\ misreads' = misreads + 1
  /\ Report(None)

\* A failed pass is patched too, and requeued.
Patch ==
  /\ pc = "patch"
  /\ WriteStatus(rr.status)
  /\ pending' = (pending \/ rr.failed)
  /\ pc' = "idle" /\ rr' = NoPass
  /\ UNCHANGED <<config, binary, bounds>>

---------------------------------------------------------------------------
(* Failures.                                                               *)

Fault == faults < MaxFaults /\ faults' = faults + 1

PassFails ==
  /\ Fault /\ pc \in {"prepare", "upgrade", "deploy", "gc"}
  /\ rr' = [rr EXCEPT !.failed = TRUE]
  /\ pc' = "patch"
  /\ UNCHANGED <<config, binary, status, cache, pending, withdrawn, updates, misreads>>

\* The releases action fails before or after it has replaced the list.
ListReleasesFails ==
  /\ Fault /\ pc = "releases"
  /\ \E s \in {rr.status, Relisted(rr.status)} :
       rr' = [rr EXCEPT !.status = Preserved(s, @.platform), !.failed = TRUE]
  /\ pc' = "patch"
  /\ UNCHANGED <<config, binary, status, cache, pending, withdrawn, updates, misreads>>

PatchFails ==
  /\ Fault /\ pc = "patch"
  /\ pending' = TRUE
  /\ pc' = "idle" /\ rr' = NoPass
  /\ UNCHANGED <<config, binary, status, cache, withdrawn, updates, misreads>>

\* The same version starts again, or another one is rolled out (or back).
Restart ==
  /\ Fault
  /\ binary' \in Binaries
  /\ cached' = status /\ inFlight' = <<>>
  /\ pending' = TRUE
  /\ pc' = "idle" /\ rr' = NoPass
  /\ UNCHANGED <<config, status, withdrawn, updates, misreads>>

PassStep == \/ Begin \/ Proceed \/ UpgradeIfNeeded \/ ListReleases
            \/ ReportStatus \/ ReportStatusMisreads \/ Patch

FaultStep == PassFails \/ ListReleasesFails \/ PatchFails \/ Restart

Next == \/ \E v \in {None} \cup Versions : PlatformSets(v)
        \/ OtherEvent \/ Deliver \/ PassStep \/ FaultStep

Spec == Init /\ [][Next]_vars

\* The worker runs while its queue is not empty.
FairSpec == Spec /\ WF_vars(PassStep)

---------------------------------------------------------------------------
(* Properties.                                                             *)

\* Every variable stays in its range; in particular the platform entry, where
\* there is one, has a version (setPlatformRelease, clearPlatformRelease).
TypeOK ==
  /\ config \in {None} \cup Versions
  /\ binary \in Binaries
  /\ status \in Statuses /\ cached \in Statuses /\ inFlight \in Seq(Statuses)
  /\ pending \in BOOLEAN /\ withdrawn \in BOOLEAN
  /\ updates \in 0..MaxUpdates /\ faults \in 0..MaxFaults /\ misreads \in 0..MaxMisreads
  /\ pc \in Labels
  /\ rr \in [status: Statuses, seen: Statuses, upgraded: BOOLEAN, reported: BOOLEAN,
             failed: BOOLEAN]

Quiet == pc = "idle" /\ ~pending

Answered == status = [platform |-> Entry(config), module |-> binary, listed |-> TRUE]

(* With nothing left to do, the status says what the platform asked for    *)
(* and which operator answered, as long as the ConfigMap could be read     *)
(* (reportStatus, the ConfigMap watch of NewReconciler).                   *)
SettledEcho == Quiet /\ misreads = 0 => Answered

(* A pass that fails before reportStatus leaves the platform entry as it   *)
(* was, if the status it began from is still the one in the API server     *)
(* (withPreservedPlatformRelease).                                         *)
FailureKeepsEntry ==
  [][rr.failed /\ ~rr.reported /\ rr.seen = status =>
       status'.platform = status.platform]_vars

(* A newer operator is not recorded before its upgrade has run, whatever   *)
(* failed in between (upgradeIfNeeded, reportStatus).                      *)
UpgradedBeforeRecorded ==
  [][status.module # None /\ status'.module > status.module /\ rr.seen = status =>
       rr.upgraded]_vars

(* A version the platform stays with is eventually the echoed one, and a   *)
(* withdrawn one eventually gone (the handshake's purpose).                *)
EchoConverges ==
  \A v \in {None} \cup Versions :
    <>[](config = v /\ misreads = 0) => <>[](status.platform = Entry(v))

(* While the platform only moves forward, so does the echo: no repeated,   *)
(* overtaken or failed pass takes an answer back, be its cache stale or    *)
(* not, but for one that began from a stale status and failed before       *)
(* reportStatus (reportStatus, withPreservedPlatformRelease).              *)
EchoNeverRegresses ==
  [][misreads = 0 /\ ~withdrawn /\ (rr.seen = status \/ rr.reported) =>
       \A v \in status.platform : \E w \in status'.platform : w >= v]_vars

(* "Watch the platform-managed ConfigMap so changes to platformVersion     *)
(* trigger a reconcile and status.releases[platform].version stays         *)
(* current" (NewReconciler).                                               *)
EchoStaysCurrent == Quiet => Answered
=============================================================================
