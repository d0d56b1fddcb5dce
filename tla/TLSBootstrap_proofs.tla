------------------------- MODULE TLSBootstrap_proofs -------------------------
(***************************************************************************)
(* Proofs about TLSBootstrap, for every set of profiles and all bounds.    *)
(***************************************************************************)
EXTENDS TLSBootstrap, TLAPS

Results == [profile: Profiles, profileFetched: BOOLEAN, adherence: Policies,
            adherenceFetched: BOOLEAN, expired: BOOLEAN, absent: BOOLEAN]

Watches == {NoWatch} \cup [profile: Profiles, adherence: Policies \cup {"unwatched"}]

---------------------------------------------------------------------------
(* The invariant.                                                          *)

\* What Resolve has read: a profile that was neither there nor out of reach was
\* fetched, and only the default stands in for one that was not read.
Resolved ==
  pc \in {"adherence", "apply", "start", "serving", "stopping"} =>
    /\ result.profileFetched <=> ~result.absent

\* Without the policy Resolve has the default profile, or the object was there
\* and the policy could be fetched too.
DefaultUnlessRead ==
  pc \in {"apply", "start", "serving", "stopping"} /\ ~result.adherenceFetched =>
    result.profile = "Intermediate"

\* An object that was read is still there when the policy is read.
NeverDeleted ==
  result.profile # "Intermediate" => apiserver \in Servers

UsableLater ==
  pc = "start" => Usable(Effective(result))

\* What is served and watched is what Resolve returned.
ServesResult ==
  pc \in {"serving", "stopping"} => served = Effective(result) /\ watched = Watched(result)

IdleBefore ==
  /\ pc \notin {"serving", "stopping"} => served = "none" /\ watched = NoWatch /\ ~notified
  /\ pc \in {"exited", "profile"} => result = NoResult

\* With nothing queued, the watcher has nothing to find.
NothingMissed ==
  pc = "serving" /\ ~notified /\ Watching /\ apiserver \in Servers => ~Changed(apiserver)

\* Only a watcher has reconciles queued.
WatchersOnly == notified => Watching

IInv == /\ TypeOK /\ Resolved /\ DefaultUnlessRead /\ NeverDeleted /\ UsableLater
        /\ ServesResult /\ IdleBefore /\ NothingMissed /\ WatchersOnly

---------------------------------------------------------------------------
\* The records of a resolution, and what the watcher is given, are well typed.
LEMMA NoResultTyped == NoResult \in Results
BY ProfilesOK DEF NoResult, Results, Policies, NoOpinion

LEMMA WatchedTyped ==
  ASSUME NEW r \in Results
  PROVE  Watched(r) \in Watches /\ (Watched(r) # NoWatch <=> r.profileFetched)
BY DEF Results, Watches, Watched, NoWatch, Policies, NoOpinion

LEMMA EffectiveTyped ==
  ASSUME NEW r \in Results
  PROVE  Effective(r) \in Profiles
BY ProfilesOK DEF Results, Effective, Policies, KeepsDefault, Absences, NoMatch, NotFound, NoOpinion

\* A restart that is counted, or not, keeps the count in its range.
LEMMA CountTyped ==
  ASSUME restarts \in 0..MaxRestarts, CountRestart \/ UNCHANGED restarts
  PROVE  restarts' \in 0..MaxRestarts
BY LimitsOK DEF MaxRestarts, CountRestart

\* Leaving the process forgets everything it had read.
LEMMA ExitPreserves ==
  ASSUME IInv, Exit, faults' \in 0..MaxFaults, CountRestart \/ UNCHANGED restarts
  PROVE  IInv'
<1>1. NoResult \in Results
  BY NoResultTyped
<1>2. restarts' \in 0..MaxRestarts
  BY CountTyped DEF IInv, TypeOK
<1>3. TypeOK'
  BY <1>1, <1>2 DEF IInv, TypeOK, Exit, Results, Labels
<1> QED
  BY <1>3 DEF IInv, Exit, Resolved, DefaultUnlessRead, NeverDeleted, UsableLater, ServesResult,
              IdleBefore, NothingMissed, WatchersOnly, NoResult

LEMMA InitInv == Init => IInv
<1> SUFFICES ASSUME Init PROVE IInv
  OBVIOUS
<1>1. TypeOK
  <2>1. result \in Results
    BY NoResultTyped DEF Init
  <2>2. edits \in 0..MaxEdits /\ faults \in 0..MaxFaults /\ restarts \in 0..MaxRestarts
    BY LimitsOK DEF Init, MaxRestarts
  <2>3. watched \in Watches
    BY DEF Init, Watches
  <2> QED
    BY <2>1, <2>2, <2>3 DEF Init, TypeOK, Results, Watches, Labels
<1>2. NeverDeleted
  BY DEF Init, NeverDeleted, NoResult
<1>3. pc = "exited" /\ served = "none" /\ watched = NoWatch /\ notified = FALSE /\ result = NoResult
  BY DEF Init
<1>4. /\ Resolved /\ DefaultUnlessRead /\ UsableLater /\ ServesResult /\ NothingMissed
      /\ WatchersOnly
  BY <1>3 DEF Resolved, DefaultUnlessRead, UsableLater, ServesResult, NothingMissed, WatchersOnly
<1>5. IdleBefore
  BY <1>3, Zenon DEF IdleBefore
<1> QED
  BY <1>1, <1>2, <1>4, <1>5 DEF IInv

\* Every step preserves the invariant.
LEMMA StepIInv == IInv /\ [Next]_vars => IInv'
<1> SUFFICES ASSUME IInv, [Next]_vars PROVE IInv'
  OBVIOUS
<1> DEFINE Parts == /\ Resolved' /\ DefaultUnlessRead' /\ NeverDeleted' /\ UsableLater'
                    /\ ServesResult' /\ IdleBefore' /\ NothingMissed' /\ WatchersOnly'
<1> USE DEF Resolved, DefaultUnlessRead, NeverDeleted, UsableLater, ServesResult, IdleBefore,
            NothingMissed, WatchersOnly, Watching
<1>a. result \in Results /\ TypeOK
  BY DEF IInv, TypeOK, Results
<1>b. apiserver \in Servers => apiserver.profile \in Profiles /\ apiserver.adherence \in Policies
  BY DEF Servers
<1>d. CountRestart => restarts' \in 0..MaxRestarts
  BY <1>a, CountTyped DEF TypeOK
<1>c. Fault => faults' \in 0..MaxFaults
  BY <1>a, LimitsOK DEF Fault, TypeOK
<1>1. ASSUME NEW s \in Servers, ClusterSets(s) PROVE IInv'
  <2>1. edits' \in 0..MaxEdits
    BY <1>1, <1>a, LimitsOK DEF ClusterSets, TypeOK
  <2>2. TypeOK'
    BY <1>1, <1>a, <2>1 DEF ClusterSets, TypeOK
  <2>3. Parts
    BY <1>1 DEF ClusterSets, IInv, Watching
  <2> QED
    BY <2>2, <2>3 DEF IInv
<1>2. CASE Boot
  BY <1>2, <1>a DEF Boot, IInv, TypeOK, Labels, NoResult
<1>3. ASSUME NEW label \in {"profile", "adherence"}, NEW r \in Results,
             NEW next \in {"adherence", "apply"}, Reads(label, r, next),
             faults' \in 0..MaxFaults,
             r.profileFetched <=> ~r.absent,
             next = "apply" /\ ~r.adherenceFetched => r.profile = "Intermediate",
             r.profile # "Intermediate" => apiserver \in Servers
      PROVE  IInv'
  <2>1. TypeOK'
    BY <1>3, <1>a DEF Reads, TypeOK, Results, Labels
  <2>2. Parts
    BY <1>3 DEF Reads, IInv
  <2> QED
    BY <2>1, <2>2 DEF IInv
<1>4. CASE FetchProfile
  <2> DEFINE r == IF apiserver \in Servers
                  THEN [result EXCEPT !.profile = apiserver.profile, !.profileFetched = TRUE]
                  ELSE [result EXCEPT !.absent = TRUE]
  <2>1. result = NoResult
    BY <1>4 DEF FetchProfile, Reads, IInv
  <2>2. r \in Results
    BY <1>a, <1>b DEF Results
  <2>3. r.profileFetched <=> ~r.absent
    BY <2>1 DEF NoResult
  <2>4. r.profile # "Intermediate" => apiserver \in Servers
    BY <2>1 DEF NoResult
  <2>5. Reads("profile", r, "adherence") /\ faults' \in 0..MaxFaults
    BY <1>4, <1>a DEF FetchProfile, TypeOK
  <2> HIDE DEF r
  <2> QED
    BY <2>2, <2>3, <2>4, <2>5, <1>3
<1>5. CASE FetchProfileTransient
  <2>1. PICK expired \in BOOLEAN : Reads("profile", AfterTransient(result, expired), "adherence")
    BY <1>5 DEF FetchProfileTransient
  <2> DEFINE r == AfterTransient(result, expired)
  <2>2. result = NoResult
    BY <2>1 DEF Reads, IInv
  <2>3. r \in Results
    BY <1>a DEF Results, AfterTransient
  <2>4. (r.profileFetched <=> ~r.absent) /\ r.profile = "Intermediate"
    BY <2>2 DEF NoResult, AfterTransient
  <2>5. faults' \in 0..MaxFaults
    BY <1>5, <1>c DEF FetchProfileTransient
  <2> HIDE DEF r
  <2> QED
    BY <2>1, <2>3, <2>4, <2>5, <1>3 DEF r
<1>6. CASE FetchAdherence
  <2> DEFINE r == IF apiserver \in Servers
                  THEN [result EXCEPT !.adherence = apiserver.adherence,
                                      !.adherenceFetched = TRUE]
                  ELSE result
  <2>1. pc = "adherence" /\ Reads("adherence", r, "apply") /\ faults' \in 0..MaxFaults
    BY <1>6, <1>a DEF FetchAdherence, Reads, TypeOK
  <2>2. r \in Results
    BY <1>a, <1>b DEF Results
  <2>3. /\ r.profileFetched = result.profileFetched /\ r.absent = result.absent
        /\ r.profile = result.profile /\ (apiserver \in Servers => r.adherenceFetched)
    BY <1>a DEF Results
  <2> HIDE DEF r
  <2>4. /\ r.profileFetched <=> ~r.absent
        /\ r.profile # "Intermediate" => apiserver \in Servers
    BY <2>1, <2>3 DEF IInv
  <2> QED
    BY <2>1, <2>2, <2>3, <2>4, <1>3
<1>7. CASE FetchAdherenceTransient
  <2> DEFINE r == [result EXCEPT !.adherenceFetched = TRUE]
  <2>1. pc = "adherence" /\ Reads("adherence", r, "apply") /\ faults' \in 0..MaxFaults
    BY <1>7, <1>a, <1>c DEF FetchAdherenceTransient, Reads, TypeOK
  <2>2. r \in Results
    BY <1>a DEF Results
  <2>3. /\ r.profileFetched = result.profileFetched /\ r.absent = result.absent
        /\ r.profile = result.profile /\ r.adherenceFetched
    BY <1>a DEF Results
  <2> HIDE DEF r
  <2>4. /\ r.profileFetched <=> ~r.absent
        /\ r.profile # "Intermediate" => apiserver \in Servers
    BY <2>1, <2>3 DEF IInv
  <2> QED
    BY <2>1, <2>2, <2>3, <2>4, <1>3
<1>8. CASE Apply
  BY <1>8, <1>a DEF Apply, IInv, TypeOK, Labels
<1>9. CASE ApplyFails
  BY <1>9, <1>a, ExitPreserves DEF ApplyFails, TypeOK
<1>10. CASE Start
  <2>1. /\ pc = "start" /\ pc' = "serving" /\ served' = Effective(result)
        /\ watched' = Watched(result)
        /\ UNCHANGED <<apiserver, result, edits, faults, restarts>>
        /\ notified' = (watched' # NoWatch /\ apiserver \in Servers)
    BY <1>10 DEF Start
  <2>2. served' \in Profiles \ Unusable
    BY <2>1, <1>a, EffectiveTyped DEF IInv, Usable
  <2>3. watched' \in Watches
    BY <2>1, <1>a, WatchedTyped
  <2>4. TypeOK'
    BY <2>1, <2>2, <2>3, <1>a DEF TypeOK, Watches, Labels
  <2>5. Effective(result)' = Effective(result) /\ Watched(result)' = Watched(result)
    BY <2>1 DEF Effective, Watched
  <2>6. Parts
    BY <2>1, <2>5 DEF IInv, Watching
  <2> QED
    BY <2>4, <2>6 DEF IInv
<1>11. CASE WatcherReconcile
  <2>0. restarts' \in 0..MaxRestarts
    BY <1>11, <1>a, <1>d DEF WatcherReconcile, StoppedByWatcher, TypeOK
  <2>1. TypeOK'
    BY <1>11, <1>a, <2>0 DEF WatcherReconcile, StoppedByWatcher, TypeOK, Labels
  <2>2. /\ pc = "serving" /\ notified' = FALSE
        /\ UNCHANGED <<apiserver, result, served, watched>>
        /\ pc' = IF Changed(apiserver) THEN "stopping" ELSE "serving"
    BY <1>11 DEF WatcherReconcile, StoppedByWatcher
  <2>3. Changed(apiserver)' = Changed(apiserver)
    BY <2>2 DEF Changed
  <2>4. Parts
    BY <2>2, <2>3 DEF IInv, Watching
  <2> QED
    BY <2>1, <2>4 DEF IInv
<1>12. CASE WatcherNeverSyncs
  BY <1>12, <1>a, <1>d DEF WatcherNeverSyncs, StoppedByWatcher, IInv, TypeOK, Labels
<1>13. CASE Stop
  BY <1>13, <1>a, ExitPreserves DEF Stop, TypeOK
<1>14. CASE Crash
  BY <1>14, <1>c, ExitPreserves DEF Crash
<1>15. CASE UNCHANGED vars
  <2>1. Changed(apiserver)' = Changed(apiserver)
    BY <1>15 DEF vars, Changed
  <2> QED
    BY <1>15, <2>1, <1>a DEF vars, IInv, TypeOK, Watching
<1> QED
  BY <1>1, <1>2, <1>4, <1>5, <1>6, <1>7, <1>8, <1>9, <1>10, <1>11, <1>12, <1>13, <1>14,
     <1>15 DEF Next, ProcessStep

---------------------------------------------------------------------------
(* Type correctness; in particular, no profile without a usable cipher     *)
(* suite is ever served (Resolve).                                         *)
THEOREM TLSTypeCorrect == Spec => []TypeOK
<1>1. IInv => TypeOK
  BY DEF IInv
<1> QED
  BY <1>1, InitInv, StepIInv, PTL DEF Spec

(* A process that has nothing left to look at serves what the APIServer    *)
(* asks for, whatever the two reads of Resolve saw or missed.              *)
THEOREM ProfileSettles == Spec => []SettledProfile
<1>1. IInv => SettledProfile
  <2> SUFFICES ASSUME IInv, pc = "serving", ~notified, ~result.absent
               PROVE  served = Effective(apiserver)
    BY DEF SettledProfile
  <2>1. /\ result \in Results /\ result.profileFetched
        /\ served = Effective(result) /\ watched = Watched(result)
    BY DEF IInv, TypeOK, Results, Resolved, ServesResult
  <2>2. Watching
    BY <2>1, WatchedTyped DEF Watching
  <2>3. /\ watched.profile = result.profile
        /\ watched.adherence = IF result.adherenceFetched THEN result.adherence ELSE "unwatched"
    BY <2>1 DEF Watched
  <2>4. ~result.adherenceFetched => result.profile = "Intermediate"
    BY DEF IInv, DefaultUnlessRead
  <2>5. CASE apiserver \in Servers
    <3>1. ~Changed(apiserver)
      BY <2>2, <2>5 DEF IInv, NothingMissed
    <3>2. apiserver.profile = result.profile
      BY <3>1, <2>3 DEF Changed
    <3>3. CASE result.adherenceFetched
      <4>1. result.adherence # "unwatched"
        BY <2>1 DEF Results, Policies, NoOpinion
      <4>2. apiserver.adherence = result.adherence
        BY <3>1, <3>3, <4>1, <2>3 DEF Changed
      <4> QED
        BY <3>2, <4>2, <2>1 DEF Effective, KeepsDefault, Absences, Results, Servers, Policies, NoMatch, NotFound, NoOpinion
    <3>4. CASE ~result.adherenceFetched
      BY <3>2, <3>4, <2>1, <2>4 DEF Effective, KeepsDefault, Absences, Results, Servers, Policies, NoMatch, NotFound, NoOpinion
    <3> QED
      BY <3>3, <3>4
  <2>6. CASE apiserver \notin Servers
    <3>1. result.profile = "Intermediate"
      BY <2>6 DEF IInv, NeverDeleted
    <3>2. apiserver \in {NoMatch, NotFound}
      BY <2>6 DEF IInv, TypeOK
    <3> QED
      BY <3>1, <3>2, <2>1 DEF Effective, KeepsDefault, Absences, NoMatch, NotFound
  <2> QED
    BY <2>5, <2>6
<1> QED
  BY <1>1, InitInv, StepIInv, PTL DEF Spec

---------------------------------------------------------------------------
(* No restart loop.                                                        *)

\* What this process has read is not, or may not become, what the APIServer asks
\* for: the watcher, if there is one, will end it.
Mistaken ==
  /\ pc \in {"adherence", "apply", "start", "serving"} /\ result.profileFetched
  /\ \/ result.expired \/ apiserver \notin Servers
     \/ result.profile # apiserver.profile
     \/ result.adherenceFetched /\ result.adherence # apiserver.adherence

\* The restart a mistaken process is in for has been paid for already.
Budget == /\ restarts <= edits + faults
          /\ Mistaken => restarts + 1 <= edits + faults

\* A step either costs something, and then ends the process or not, or it does not
\* make a process mistaken, and ends it only if it was.
LEMMA StepCost ==
  ASSUME IInv, [Next]_vars
  PROVE  \/ /\ edits' + faults' = edits + faults + 1
            /\ UNCHANGED restarts \/ (CountRestart /\ ~Mistaken')
         \/ /\ edits' + faults' = edits + faults
            /\ \/ UNCHANGED restarts /\ (Mistaken' => Mistaken)
               \/ CountRestart /\ Mistaken /\ ~Mistaken'
<1> DEFINE Same == edits' + faults' = edits + faults
           More == edits' + faults' = edits + faults + 1
           Goal == \/ More /\ (UNCHANGED restarts \/ (CountRestart /\ ~Mistaken'))
                   \/ /\ Same
                      /\ \/ UNCHANGED restarts /\ (Mistaken' => Mistaken)
                         \/ CountRestart /\ Mistaken /\ ~Mistaken'
<1>a. result \in Results /\ edits \in Nat /\ faults \in Nat
  BY LimitsOK DEF IInv, TypeOK, Results
<1>b. Fault /\ UNCHANGED edits => More
  BY <1>a DEF Fault
<1>c. UNCHANGED <<edits, faults>> => Same
  OBVIOUS
<1> SUFFICES Goal
  OBVIOUS
<1> HIDE DEF Same, More
<1>1. ASSUME NEW s \in Servers, ClusterSets(s) PROVE Goal
  <2>1. More
    BY <1>1, <1>a DEF ClusterSets, More
  <2> QED
    BY <1>1, <2>1 DEF ClusterSets
<1>2. CASE Boot \/ ApplyFails \/ Stop
  <2>1. UNCHANGED <<edits, faults, restarts>> /\ pc' \in {"exited", "profile"}
    BY <1>2 DEF Boot, ApplyFails, Stop, Exit
  <2> QED
    BY <2>1, <1>c DEF Mistaken
<1>3. CASE FetchProfile
  <2>1. UNCHANGED <<apiserver, edits, faults, restarts>> /\ pc = "profile" /\ result = NoResult
    BY <1>3 DEF FetchProfile, Reads, IInv, IdleBefore
  <2>2. apiserver \in Servers =>
          /\ result'.profile = apiserver.profile /\ ~result'.expired /\ ~result'.adherenceFetched
    BY <1>3, <2>1 DEF FetchProfile, Reads, NoResult
  <2>3. apiserver \notin Servers => ~result'.profileFetched
    BY <1>3, <2>1 DEF FetchProfile, Reads, NoResult
  <2>4. ~Mistaken'
    BY <2>1, <2>2, <2>3 DEF Mistaken
  <2> QED
    BY <2>1, <2>4, <1>c
<1>4. CASE FetchProfileTransient
  BY <1>4, <1>b DEF FetchProfileTransient, Reads
<1>5. CASE FetchAdherence
  <2>1. /\ UNCHANGED <<apiserver, edits, faults, restarts>> /\ pc = "adherence"
        /\ result' = IF apiserver \in Servers
                     THEN [result EXCEPT !.adherence = apiserver.adherence,
                                         !.adherenceFetched = TRUE]
                     ELSE result
    BY <1>5 DEF FetchAdherence, Reads
  <2>2. /\ result'.profileFetched = result.profileFetched /\ result'.expired = result.expired
        /\ result'.profile = result.profile
        /\ apiserver \in Servers => result'.adherence = apiserver.adherence
    BY <2>1, <1>a DEF Results
  <2>3. Mistaken' => Mistaken
    BY <2>1, <2>2 DEF Mistaken
  <2> QED
    BY <2>1, <2>3, <1>c
<1>6. CASE FetchAdherenceTransient /\ ~result.expired
  BY <1>6, <1>b DEF FetchAdherenceTransient, Reads
<1>7. CASE FetchAdherenceTransient /\ result.expired
  <2>1. /\ UNCHANGED <<apiserver, edits, faults, restarts>> /\ pc = "adherence"
        /\ result' = [result EXCEPT !.adherenceFetched = TRUE]
    BY <1>7 DEF FetchAdherenceTransient, Reads
  <2>2. result'.profileFetched = result.profileFetched
    BY <2>1, <1>a DEF Results
  <2>3. Mistaken' => Mistaken
    BY <2>1, <2>2, <1>7 DEF Mistaken
  <2> QED
    BY <2>1, <2>3, <1>c
<1>8. CASE Apply \/ Start
  <2>1. /\ UNCHANGED <<apiserver, result, edits, faults, restarts>>
        /\ pc \in {"apply", "start"}
    BY <1>8 DEF Apply, Start
  <2>2. Mistaken' => Mistaken
    BY <2>1 DEF Mistaken
  <2> QED
    BY <2>1, <2>2, <1>c
<1>9. CASE WatcherReconcile
  <2>1. pc = "serving" /\ UNCHANGED <<apiserver, result, edits, faults>>
    BY <1>9 DEF WatcherReconcile
  <2>2. CASE ~Changed(apiserver)
    <3>1. pc' = pc /\ UNCHANGED restarts
      BY <1>9, <2>2 DEF WatcherReconcile
    <3>2. Mistaken' => Mistaken
      BY <2>1, <3>1 DEF Mistaken
    <3> QED
      BY <2>1, <3>1, <3>2, <1>c
  <2>3. CASE Changed(apiserver)
    <3>1. pc' = "stopping" /\ CountRestart
      BY <1>9, <2>3 DEF WatcherReconcile, StoppedByWatcher
    <3>2. Watching /\ watched = Watched(result)
      BY <1>9, <2>1 DEF WatcherReconcile, IInv, ServesResult, WatchersOnly
    <3>3. /\ result.profileFetched /\ watched.profile = result.profile
          /\ watched.adherence = IF result.adherenceFetched THEN result.adherence ELSE "unwatched"
      BY <3>2 DEF Watching, Watched
    <3>4. Mistaken
      BY <2>1, <2>3, <3>3 DEF Changed, Mistaken
    <3>5. ~Mistaken'
      BY <3>1 DEF Mistaken
    <3> QED
      BY <2>1, <3>1, <3>4, <3>5, <1>c
  <2> QED
    BY <2>2, <2>3
<1>10. CASE WatcherNeverSyncs
  <2>1. /\ pc = "serving" /\ Watching /\ apiserver = NoMatch /\ pc' = "stopping" /\ CountRestart
        /\ UNCHANGED <<edits, faults>>
    BY <1>10 DEF WatcherNeverSyncs, StoppedByWatcher
  <2>2. result.profileFetched
    BY <2>1, <1>a, WatchedTyped DEF Watching, IInv, ServesResult
  <2>3. NoMatch \notin Servers
    BY DEF NoMatch, Servers, Policies, NoOpinion
  <2>4. Mistaken /\ ~Mistaken'
    BY <2>1, <2>2, <2>3 DEF Mistaken
  <2> QED
    BY <2>1, <2>4, <1>c
<1>11. CASE Crash
  <2>1. More /\ CountRestart /\ pc' = "exited"
    BY <1>11, <1>b DEF Crash, Exit
  <2> QED
    BY <2>1 DEF Mistaken
<1>12. CASE UNCHANGED vars
  <2>1. Mistaken' <=> Mistaken
    BY <1>12 DEF vars, Mistaken
  <2> QED
    BY <1>12, <2>1, <1>c DEF vars
<1> QED
  BY <1>1, <1>2, <1>3, <1>4, <1>5, <1>6, <1>7, <1>8, <1>9, <1>10, <1>11, <1>12
  DEF Next, ProcessStep

\* The arithmetic of the budget: r restarts and cost c before a step, q and d after.
LEMMA Balance ==
  ASSUME NEW r \in Nat, NEW q \in Nat, NEW c \in Nat, NEW d \in Nat, r <= c
  PROVE  /\ d = c + 1 /\ q = r => q <= d /\ q + 1 <= d
         /\ d = c + 1 /\ q <= r + 1 => q <= d
         /\ d = c /\ r + 1 <= c /\ q <= r + 1 => q <= d
OBVIOUS

\* The budget is kept, whatever the APIServer asks for and whichever reads fail.
LEMMA StepBudget == IInv /\ Budget /\ [Next]_vars => Budget'
<1> SUFFICES ASSUME IInv, Budget, [Next]_vars PROVE Budget'
  OBVIOUS
<1> DEFINE c == edits + faults
           d == edits' + faults'
<1>1. restarts \in Nat /\ c \in Nat /\ MaxRestarts \in Nat
  BY LimitsOK DEF IInv, TypeOK, MaxRestarts
<1>2. IInv'
  BY StepIInv
<1>3. restarts' \in Nat /\ d \in Nat
  <2>1. edits' \in Nat /\ faults' \in Nat /\ restarts' \in Nat
    BY <1>2, LimitsOK DEF IInv, TypeOK, MaxRestarts
  <2>2. \A m, n \in Nat : m + n \in Nat
    OBVIOUS
  <2> QED
    BY <2>1, <2>2, Zenon
<1>4. CountRestart => restarts' <= restarts + 1
  BY <1>1 DEF CountRestart
<1>5. restarts <= c /\ (Mistaken => restarts + 1 <= c)
  BY Zenon DEF Budget
<1>6. \/ d = c + 1 /\ (UNCHANGED restarts \/ (CountRestart /\ ~Mistaken'))
      \/ /\ d = c
         /\ \/ UNCHANGED restarts /\ (Mistaken' => Mistaken)
            \/ CountRestart /\ Mistaken /\ ~Mistaken'
  BY StepCost, Zenon
<1>7. SUFFICES restarts' <= d /\ (Mistaken' => restarts' + 1 <= d)
  BY Zenon DEF Budget
<1> HIDE DEF c, d
<1>8. /\ d = c + 1 /\ restarts' = restarts => restarts' <= d /\ restarts' + 1 <= d
      /\ d = c + 1 /\ restarts' <= restarts + 1 => restarts' <= d
      /\ d = c /\ restarts + 1 <= c /\ restarts' <= restarts + 1 => restarts' <= d
  BY <1>1, <1>3, <1>5, Balance
<1> QED
  BY <1>4, <1>5, <1>6, <1>8, Zenon

(* No restart loop, the part of ProfileConverges that is safety: however    *)
(* long the operator runs, no more of its processes are ended by their     *)
(* watcher or a crash than there were changes of the APIServer object,     *)
(* failed reads and crashes (SetupWatcher, Resolve).                       *)
THEOREM NoRestartLoop == Spec => []RestartsHaveCause
<1>1. Init => Budget
  BY DEF Init, Budget, Mistaken
<1>2. IInv /\ Budget => RestartsHaveCause
  <2> SUFFICES ASSUME IInv, Budget PROVE RestartsHaveCause
    OBVIOUS
  <2>1. restarts \in Nat /\ edits \in Nat /\ faults \in Nat
    BY LimitsOK DEF IInv, TypeOK, MaxRestarts
  <2> QED
    BY <2>1 DEF Budget, RestartsHaveCause
<1> QED
  BY <1>1, <1>2, InitInv, StepIInv, StepBudget, PTL DEF Spec
=============================================================================
