---------------------------- MODULE TLSBootstrap ----------------------------
(***************************************************************************)
(* The TLS profile the operator serves with: read from the cluster's       *)
(* APIServer object at start-up, in two reads that may fail or see two     *)
(* versions of it, and reloaded by restarting the process when a watcher   *)
(* finds the object different from what was read.                          *)
(***************************************************************************)
EXTENDS Naturals

CONSTANTS
  Profiles,   \* TLS profiles the APIServer may ask for
  Unusable,   \* those no supported cipher suite, or no known version, is left of
  MaxEdits,   \* bound: changes of the APIServer object
  MaxFaults   \* bound: failed reads and crashes

ASSUME ProfilesOK == "Intermediate" \in Profiles /\ Unusable \subseteq Profiles \ {"Intermediate"}
ASSUME LimitsOK   == MaxEdits \in Nat /\ MaxFaults \in Nat

VARIABLES
  apiserver,  \* the APIServer object, or why there is none
  pc,         \* where the process is
  result,     \* tls.Result, as far as Resolve has come
  served,     \* profile the endpoints are served with; "none" before they are
  watched,    \* what the watcher compares the object with
  notified,   \* has the watcher a reconcile queued?
  edits, faults,  \* counters of the bounded events
  restarts        \* processes ended by their watcher or by a crash (auxiliary)

vars == <<apiserver, pc, result, served, watched, notified, edits, faults, restarts>>

MaxRestarts == MaxEdits + MaxFaults + 1   \* bound: restarts is not counted further

\* The policies of today, and one a later OpenShift may add.
NoOpinion == "NoOpinion"
Policies  == {NoOpinion, "LegacyAdheringComponentsOnly", "StrictAllComponents", "aLaterPolicy"}
Servers   == [profile: Profiles, adherence: Policies]

\* Not an OpenShift cluster, or one whose object has not been created yet.
NoMatch  == [profile |-> "none", adherence |-> "noMatch"]
NotFound == [profile |-> "none", adherence |-> "notFound"]

Labels == {"exited", "profile", "adherence", "apply", "start", "serving", "stopping"}

\* expired: bootstrapTimeout has run out; absent: the object was not there to be
\* read (an auxiliary record for the properties).
NoResult == [profile |-> "Intermediate", profileFetched |-> FALSE,
             adherence |-> NoOpinion, adherenceFetched |-> FALSE,
             expired |-> FALSE, absent |-> FALSE]

NoWatch == [profile |-> "none", adherence |-> "none"]

Init ==
  /\ apiserver \in Servers \cup {NoMatch, NotFound}
  /\ pc = "exited" /\ result = NoResult
  /\ served = "none" /\ watched = NoWatch /\ notified = FALSE
  /\ edits = 0 /\ faults = 0 /\ restarts = 0

Watching == watched # NoWatch

\* The administrator changes the object, or creates it; it is never deleted.
ClusterSets(s) ==
  /\ edits < MaxEdits /\ edits' = edits + 1
  /\ apiserver \notin {NoMatch, s}
  /\ apiserver' = s
  /\ notified' = (notified \/ Watching)
  /\ UNCHANGED <<pc, result, served, watched, faults, restarts>>

Fault == faults < MaxFaults /\ faults' = faults + 1

---------------------------------------------------------------------------
(* Start-up.                                                               *)

\* The kubelet starts the container (again).
Boot ==
  /\ pc = "exited" /\ pc' = "profile"
  /\ UNCHANGED <<apiserver, result, served, watched, notified, edits, faults, restarts>>

\* One of the two reads of Resolve, with what it leaves in the result.
Reads(label, r, next) ==
  /\ pc = label /\ pc' = next
  /\ result' = r
  /\ UNCHANGED <<apiserver, served, watched, notified, edits, restarts>>

FetchProfile ==
  /\ Reads("profile",
           IF apiserver \in Servers
           THEN [result EXCEPT !.profile = apiserver.profile, !.profileFetched = TRUE]
           ELSE [result EXCEPT !.absent = TRUE],
           "adherence")
  /\ UNCHANGED faults

AfterTransient_Unwatched(r, expired) == [r EXCEPT !.expired = expired]

\* A transient error: the defaults for now, and the watcher for later.
AfterTransient(r, expired) == [r EXCEPT !.profileFetched = TRUE, !.expired = expired]

FetchProfileTransient ==
  /\ Fault
  /\ \E expired \in BOOLEAN :
       Reads("profile", AfterTransient(result, expired), "adherence")

FetchAdherence ==
  /\ ~result.expired
  /\ Reads("adherence",
           IF apiserver \in Servers
           THEN [result EXCEPT !.adherence = apiserver.adherence, !.adherenceFetched = TRUE]
           ELSE result,
           "apply")
  /\ UNCHANGED faults

\* The time the two reads share may already be over.
FetchAdherenceTransient ==
  /\ IF result.expired THEN UNCHANGED faults ELSE Fault
  /\ Reads("adherence", [result EXCEPT !.adherenceFetched = TRUE], "apply")

\* Two policies keep a component to its own default, every other one asks it to
\* follow the cluster's profile; an object that is not there asks for nothing.
KeepsDefault == {NoOpinion, "LegacyAdheringComponentsOnly"}
Absences     == {NoMatch.adherence, NotFound.adherence}

Effective(s) == IF s.adherence \in KeepsDefault \cup Absences THEN "Intermediate" ELSE s.profile

Exit ==
  /\ pc' = "exited" /\ result' = NoResult
  /\ served' = "none" /\ watched' = NoWatch /\ notified' = FALSE
  /\ UNCHANGED <<apiserver, edits>>

Usable_NoCipherCheck(p) == TRUE

Usable(p) == p \notin Unusable

Apply ==
  /\ pc = "apply" /\ Usable(Effective(result))
  /\ pc' = "start"
  /\ UNCHANGED <<apiserver, result, served, watched, notified, edits, faults, restarts>>

ApplyFails ==
  /\ pc = "apply" /\ ~Usable(Effective(result))
  /\ Exit /\ UNCHANGED <<faults, restarts>>

Watched_Effective(r) ==
  IF r.profileFetched
  THEN [profile |-> Effective(r), adherence |-> IF r.adherenceFetched THEN r.adherence ELSE "unwatched"]
  ELSE NoWatch

\* SetupWatcher
Watched(r) ==
  IF r.profileFetched
  THEN [profile |-> r.profile, adherence |-> IF r.adherenceFetched THEN r.adherence ELSE "unwatched"]
  ELSE NoWatch

\* The manager serves, and the watcher's informer lists the object.
Start ==
  /\ pc = "start" /\ pc' = "serving"
  /\ served' = Effective(result)
  /\ watched' = Watched(result)
  /\ notified' = (watched' # NoWatch /\ apiserver \in Servers)
  /\ UNCHANGED <<apiserver, result, edits, faults, restarts>>

---------------------------------------------------------------------------
(* While the process serves.                                               *)

Changed(s) == s.profile # watched.profile \/ watched.adherence \notin {s.adherence, "unwatched"}

CountRestart == restarts' = IF restarts < MaxRestarts THEN restarts + 1 ELSE restarts

StoppedByWatcher == pc' = "stopping" /\ CountRestart

\* The watcher cancels the manager's context when the object has changed.
WatcherReconcile ==
  /\ pc = "serving" /\ notified
  /\ notified' = FALSE
  /\ IF Changed(apiserver) THEN StoppedByWatcher ELSE UNCHANGED <<pc, restarts>>
  /\ UNCHANGED <<apiserver, result, served, watched, edits, faults>>

\* An informer of a kind the cluster does not have never syncs, and the manager
\* gives up.
WatcherNeverSyncs ==
  /\ pc = "serving" /\ Watching /\ apiserver = NoMatch
  /\ StoppedByWatcher
  /\ UNCHANGED <<apiserver, result, served, watched, notified, edits, faults>>

Stop == pc = "stopping" /\ Exit /\ UNCHANGED <<faults, restarts>>

\* Any other error of a read, of the manager or of the node.
Crash == Fault /\ pc # "exited" /\ Exit /\ CountRestart

ProcessStep ==
  \/ Boot \/ FetchProfile \/ FetchAdherence \/ Apply \/ ApplyFails \/ Start
  \/ WatcherReconcile \/ WatcherNeverSyncs \/ Stop

Next ==
  \/ \E s \in Servers : ClusterSets(s)
  \/ ProcessStep \/ FetchProfileTransient \/ FetchAdherenceTransient \/ Crash

Spec == Init /\ [][Next]_vars

\* The kubelet restarts the container, the process and its watcher run.
FairSpec == Spec /\ WF_vars(ProcessStep \/ FetchAdherenceTransient)

---------------------------------------------------------------------------
(* Properties.                                                             *)

\* Every variable stays in its range; nothing unusable is ever served (Resolve).
TypeOK ==
  /\ apiserver \in Servers \cup {NoMatch, NotFound}
  /\ pc \in Labels
  /\ result \in [profile: Profiles, profileFetched: BOOLEAN, adherence: Policies,
                 adherenceFetched: BOOLEAN, expired: BOOLEAN, absent: BOOLEAN]
  /\ served \in {"none"} \cup (Profiles \ Unusable)
  /\ watched \in {NoWatch} \cup [profile: Profiles, adherence: Policies \cup {"unwatched"}]
  /\ notified \in BOOLEAN
  /\ edits \in 0..MaxEdits /\ faults \in 0..MaxFaults
  /\ restarts \in 0..MaxRestarts

(* "The watcher will detect the real profile on first reconcile" (Resolve): *)
(* whatever the two reads saw or missed, a process with nothing left to     *)
(* look at serves what the APIServer asks for now - unless there was none   *)
(* to read when it started.                                                 *)
SettledProfile ==
  pc = "serving" /\ ~notified /\ ~result.absent => served = Effective(apiserver)

(* No restart without a cause of its own: a process that can serve ends    *)
(* once for every change of the APIServer object, failed read and crash,   *)
(* never for what the next process would find again (SetupWatcher,         *)
(* Resolve).                                                               *)
RestartsHaveCause == restarts <= edits + faults

(* The profile a cluster stays with is eventually served, without a        *)
(* restart loop, if it can be (Resolve, SetupWatcher).                     *)
ProfileConverges ==
  \A s \in Servers \cup {NoMatch, NotFound} :
    Usable(Effective(s)) /\ <>[](apiserver = s)
      => <>[](pc = "serving" /\ (result.absent \/ served = Effective(s)))
=============================================================================
