-------------------------- MODULE InfraRBAC_proofs --------------------------
(***************************************************************************)
(* Proofs about InfraRBAC, for whatever was in the cluster before and all  *)
(* bounds.                                                                 *)
(***************************************************************************)
EXTENDS InfraRBAC, TLAPS

---------------------------------------------------------------------------
(* The invariant.                                                          *)

\* A copy that has not been overtaken is the live object.
CopiesTrue ==
  /\ \A o \in Objects : o \notin stale => cached[o] = live[o]
  /\ pc \in Objects /\ rr.fresh => rr.copy = live[pc]
  /\ pc \in Objects => rr.copy \in StatesOf(pc) \cup {Absent}
  /\ pc = "dispatch" => ~rr.got /\ rr.copy = Absent /\ ~rr.fresh

Unlabelled(v) == v = Absent \/ ~v.labelled

\* A namespace that lacks its labels has lacked them in every copy, unless someone
\* took them away.
LackIsSeen ==
  \A n \in Namespaces :
    n \notin drifted /\ Unlabelled(live[n]) =>
      Unlabelled(cached[n]) /\ (pc = n /\ rr.got => Unlabelled(rr.copy))

\* As long as nothing is queued, a pass works on what the user wants now.
PassCurrent == pc # "idle" /\ ~pending => rr.maas = maas /\ rr.grid = grid

Kept(o) == o \in drifted \/ Ensured(o)
Gone(o) == o \in drifted \/ live[o] = Absent

Wanted   == InfraSeparate /\ maas = "Managed"
Unwanted == InfraSeparate /\ maas = "Removed" /\ completed

\* ... and what it has dealt with so far is as it should be.
DoneSoFar ==
  ~pending =>
    /\ grid /\ pc # "grid" => Kept("grid")
    /\ Wanted /\ pc \in {"Role", "RoleBinding", "rest", "idle"} => Kept("infra")
    /\ Wanted /\ pc \in {"RoleBinding", "rest", "idle"} => Kept("Role")
    /\ Wanted /\ pc \in {"rest", "idle"} => Kept("RoleBinding")
    /\ Unwanted /\ pc \in {"dropRoleBinding", "rest", "idle"} => Gone("Role")
    /\ Unwanted /\ pc \in {"rest", "idle"} => Gone("RoleBinding")

IInv == TypeOK /\ CopiesTrue /\ LackIsSeen /\ PassCurrent /\ DoneSoFar

---------------------------------------------------------------------------
\* The order of the objects in a pass, and what is in a namespace.
LEMMA Four ==
  /\ Objects = {"grid", "infra", "Role", "RoleBinding"}
  /\ \A o \in Objects : o \in Labels /\ StatesOf(o) \subseteq Copies
  /\ Absent \in Copies
  /\ \A o \in Objects : StatesOf(o) \cup {Absent} \subseteq Copies
BY DEF Objects, Namespaces, RBAC, Labels, StatesOf, Copies

\* What the operator creates has the shape of the object.
LEMMA CreatedTyped ==
  ASSUME NEW o
  PROVE  Created(o) \in StatesOf(o) /\ Created(o) # Absent
<1>1. CASE o \in Namespaces
  <2>1. Created(o) \in StatesOf(o) /\ StatesOf(o) = NamespaceStates
    BY <1>1 DEF Created, StatesOf, NamespaceStates
  <2> QED
    BY <2>1, AbsentOK
<1>2. CASE o \notin Namespaces
  <2>1. Created(o) \in StatesOf(o) /\ StatesOf(o) = RBACStates
    BY <1>2 DEF Created, StatesOf, RBACStates
  <2> QED
    BY <2>1, AbsentOK
<1> QED
  BY <1>1, <1>2

\* What the operator writes has the shape of the object, and is what it wants.
LEMMA WrittenTyped ==
  ASSUME NEW o \in Objects, NEW v \in StatesOf(o)
  PROVE  /\ Created(o) \in StatesOf(o) /\ Updated(o, v) \in StatesOf(o)
         /\ Created(o) # Absent /\ Updated(o, v) # Absent
         /\ o \in Namespaces => Created(o).labelled /\ Updated(o, v).labelled
         /\ o \in Namespaces => (v.others => Updated(o, v).others)
         /\ o \in RBAC => /\ Created(o).right /\ Created(o).owned
                           /\ Updated(o, v).right /\ Updated(o, v).owned
<1>1. CASE o \in Namespaces
  <2>1. v \in NamespaceStates /\ o \notin RBAC
    BY <1>1 DEF StatesOf, Namespaces, RBAC
  <2>2. StatesOf(o) = NamespaceStates /\ Absent \notin NamespaceStates
    BY <1>1, AbsentOK DEF StatesOf
  <2>3. /\ Created(o) = [labelled |-> TRUE, others |-> FALSE]
        /\ Updated(o, v) = [v EXCEPT !.labelled = TRUE]
    BY <1>1 DEF Created, Updated
  <2>4. Created(o) \in NamespaceStates /\ Updated(o, v) \in NamespaceStates
    <3>1. [labelled |-> TRUE, others |-> FALSE] \in NamespaceStates
      BY DEF NamespaceStates
    <3>2. [v EXCEPT !.labelled = TRUE] \in NamespaceStates
      BY <2>1 DEF NamespaceStates
    <3> QED
      BY <2>3, <3>1, <3>2
  <2>5. /\ Created(o).labelled /\ Updated(o, v).labelled
        /\ v.others => Updated(o, v).others
    BY <2>1, <2>3 DEF NamespaceStates
  <2> QED
    BY <2>1, <2>2, <2>4, <2>5
<1>2. CASE o \in RBAC
  <2>1. o \notin Namespaces
    BY <1>2 DEF Namespaces, RBAC
  <2>2. StatesOf(o) = RBACStates /\ Absent \notin RBACStates
    BY <2>1, AbsentOK DEF StatesOf
  <2>3. /\ Created(o) = [right |-> TRUE, owned |-> TRUE]
        /\ Updated(o, v) = [right |-> TRUE, owned |-> TRUE]
    BY <2>1 DEF Created, Updated
  <2>4. [right |-> TRUE, owned |-> TRUE] \in RBACStates
    BY DEF RBACStates
  <2>5. /\ Created(o).right /\ Created(o).owned
        /\ Updated(o, v).right /\ Updated(o, v).owned
    BY <2>3
  <2>6. Created(o) \in RBACStates /\ Updated(o, v) \in RBACStates
    BY <2>3, <2>4
  <2> QED
    BY <2>1, <2>2, <2>5, <2>6
<1> QED
  BY <1>1, <1>2 DEF Objects

\* The bound on events is kept.
LEMMA EventsTyped ==
  ASSUME TypeOK, Event
  PROVE  events' \in 0..MaxEvents
<1>1. events \in 0..MaxEvents
  BY DEF TypeOK
<1> QED
  BY <1>1, LimitsOK DEF Event

\* The invariant holds initially.
LEMMA InitInv == Init => IInv
<1> SUFFICES ASSUME Init PROVE IInv
  OBVIOUS
<1>1. /\ live \in [Objects -> Copies] /\ cached = live
      /\ \A o \in Objects : live[o] \in StatesOf(o) \cup {Absent}
  BY BeginningsOK DEF Init, Copies
<1>2. rr \in [maas: MaaSStates \cup {""}, grid: BOOLEAN, got: BOOLEAN, copy: Copies, fresh: BOOLEAN]
  BY DEF Init, NoPass, Copies
<1>3. events \in 0..MaxEvents /\ faults \in 0..MaxFaults
  BY LimitsOK DEF Init
<1>4. TypeOK
  BY <1>1, <1>2, <1>3, SettingsOK DEF Init, TypeOK, Labels, Objects, Namespaces, RBAC
<1>5. CopiesTrue /\ LackIsSeen /\ PassCurrent /\ DoneSoFar
  BY <1>1 DEF Init, CopiesTrue, LackIsSeen, PassCurrent, DoneSoFar, Objects, Namespaces, RBAC
<1> QED
  BY <1>4, <1>5 DEF IInv

---------------------------------------------------------------------------
(* Others act.                                                             *)

Results == [maas: MaaSStates \cup {""}, grid: BOOLEAN, got: BOOLEAN, copy: Copies, fresh: BOOLEAN]

\* Whatever enqueues the AIGateway leaves nothing to be shown.
LEMMA EnqueuedPreserves ==
  ASSUME IInv, Enqueued, maas' \in MaaSStates, grid' \in GridStates, completed' \in BOOLEAN
  PROVE  IInv'
<1>1. events' \in 0..MaxEvents
  BY EventsTyped DEF IInv, Enqueued
<1>2. TypeOK'
  BY <1>1 DEF IInv, TypeOK, Enqueued, objVars
<1>3. CopiesTrue' /\ LackIsSeen'
  BY DEF IInv, CopiesTrue, LackIsSeen, Enqueued, objVars
<1>4. PassCurrent' /\ DoneSoFar'
  BY DEF PassCurrent, DoneSoFar, Enqueued
<1> QED
  BY <1>2, <1>3, <1>4 DEF IInv

\* Other writers touch some objects, which they mark as drifted and overtaken.
LEMMA OthersPreserve ==
  ASSUME IInv, NEW S \in SUBSET Objects,
         live' \in [Objects -> Copies],
         \A o \in Objects : live'[o] \in StatesOf(o) \cup {Absent},
         \A o \in Objects \ S : live'[o] = live[o],
         \A o \in S : o \notin stale' => live'[o] = live[o],
         stale \subseteq stale', stale' \subseteq Objects,
         drifted' = drifted \cup S,
         rr' = [rr EXCEPT !.fresh = @ /\ pc \notin S],
         Event, UNCHANGED <<specVars, cached, pending, pc, faults>>
  PROVE  IInv'
<1>1. events' \in 0..MaxEvents
  BY EventsTyped DEF IInv
<1>2. rr \in Results
  BY DEF IInv, TypeOK, Results
<1>3. /\ rr' \in Results /\ rr'.maas = rr.maas /\ rr'.grid = rr.grid /\ rr'.got = rr.got
      /\ rr'.copy = rr.copy /\ (rr'.fresh => rr.fresh /\ pc \notin S)
  BY <1>2 DEF Results
<1>4. TypeOK'
  BY <1>1, <1>3 DEF IInv, TypeOK, Results, specVars
<1>5. CopiesTrue'
  BY <1>3 DEF IInv, TypeOK, CopiesTrue
<1>6. LackIsSeen'
  BY <1>3 DEF IInv, LackIsSeen, Objects, Unlabelled
<1>7. PassCurrent'
  BY <1>3 DEF IInv, PassCurrent, specVars
<1>8. \A o \in Objects : (Kept(o) => Kept(o)') /\ (Gone(o) => Gone(o)')
  BY DEF Kept, Gone, Ensured
<1>9. DoneSoFar'
  BY <1>8, Four DEF IInv, DoneSoFar, specVars, Wanted, Unwanted
<1> QED
  BY <1>4, <1>5, <1>6, <1>7, <1>9 DEF IInv

---------------------------------------------------------------------------
(* The pass.                                                               *)

\* Where a pass may go next.
Leads(l) ==
  /\ l \in Labels \ {"idle"} /\ l # "grid"
  /\ l \in RBAC \cup {"infra"} => InfraSeparate /\ rr.maas = "Managed"
  /\ l \in {"dropRole", "dropRoleBinding"} => InfraSeparate /\ rr.maas = "Removed"

\* Going on to the next object forgets the copy of the last one.
LEMMA ProceedTyped ==
  ASSUME TypeOK, NEW l, Proceed(l)
  PROVE  /\ rr' \in Results /\ rr'.maas = rr.maas /\ rr'.grid = rr.grid
         /\ ~rr'.got /\ rr'.copy = Absent /\ ~rr'.fresh /\ pc' = l
<1>1. rr \in Results
  BY DEF TypeOK, Results
<1> QED
  BY <1>1, Four DEF Proceed, Results

\* A failed pass leaves its key in the queue, so there is nothing to show of it.
LEMMA FailPreserves ==
  ASSUME IInv, Fail, UNCHANGED <<specVars, objVars, events>>, faults' \in 0..MaxFaults
  PROVE  IInv'
<1>1. NoPass \in Results
  BY Four DEF NoPass, Results
<1>2. TypeOK'
  BY <1>1 DEF IInv, TypeOK, Fail, Results, specVars, objVars, Labels, RBAC
<1>3. CopiesTrue' /\ LackIsSeen'
  BY DEF IInv, CopiesTrue, LackIsSeen, Fail, objVars, Objects, Namespaces, RBAC
<1>4. PassCurrent' /\ DoneSoFar'
  BY DEF PassCurrent, DoneSoFar, Fail
<1> QED
  BY <1>2, <1>3, <1>4 DEF IInv

\* Writing an object in the course of a pass: all but DoneSoFar, which depends on
\* which object it was.
LEMMA WriteProceeds ==
  ASSUME IInv, pc # "idle", NEW o \in Objects, NEW v \in StatesOf(o) \cup {Absent},
         o \in Namespaces => ~Unlabelled(v),
         Write(o, v), NEW l, Leads(l), Proceed(l),
         UNCHANGED <<specVars, pending, events, faults>>
  PROVE  /\ TypeOK' /\ CopiesTrue' /\ LackIsSeen' /\ PassCurrent'
         /\ \A p \in Objects \ {o} : (Kept(p) => Kept(p)') /\ (Gone(p) => Gone(p)')
         /\ live'[o] = v
<1>1. /\ live' \in [Objects -> Copies] /\ live'[o] = v
      /\ \A p \in Objects : live'[p] \in StatesOf(p) \cup {Absent}
      /\ \A p \in Objects \ {o} : live'[p] = live[p]
  BY Four DEF IInv, TypeOK, Write
<1>2. /\ stale' \subseteq Objects /\ stale \subseteq stale' /\ drifted' = drifted \ {o}
      /\ o \notin stale' => v = live[o]
      /\ \A p \in Objects \ {o} : p \in stale' <=> p \in stale
      /\ cached' = cached
  BY DEF IInv, TypeOK, Write
<1>3. /\ rr' \in Results /\ rr'.maas = rr.maas /\ rr'.grid = rr.grid
      /\ ~rr'.got /\ rr'.copy = Absent /\ ~rr'.fresh /\ pc' = l
  BY ProceedTyped DEF IInv
<1>4. TypeOK'
  <2>1. drifted' \subseteq Objects
    BY <1>2 DEF IInv, TypeOK
  <2>2. /\ pc' \in Labels /\ pc' # "grid"
        /\ pc' \in RBAC \cup {"infra"} => InfraSeparate /\ rr'.maas = "Managed"
        /\ pc' \in {"dropRole", "dropRoleBinding"} => InfraSeparate /\ rr'.maas = "Removed"
    BY <1>3 DEF Leads
  <2> QED
    BY <1>1, <1>2, <1>3, <2>1, <2>2 DEF IInv, TypeOK, Results, specVars
<1>5. CopiesTrue'
  BY <1>1, <1>2, <1>3, Four DEF IInv, CopiesTrue
<1>6. LackIsSeen'
  BY <1>1, <1>2, <1>3 DEF IInv, LackIsSeen, Objects, Unlabelled
<1>7. PassCurrent'
  BY <1>3 DEF IInv, PassCurrent, specVars
<1>8. \A p \in Objects \ {o} : (Kept(p) => Kept(p)') /\ (Gone(p) => Gone(p)')
  BY <1>1, <1>2 DEF Kept, Gone, Ensured
<1> QED
  BY <1>1, <1>4, <1>5, <1>6, <1>7, <1>8

\* Where a pass stands with the object it has just ensured.
LEMMA AfterEnsured ==
  ASSUME IInv, NEW o \in Objects, pc = o, pc' = After(o),
         \A p \in Objects \ {o} : Kept(p) => Kept(p)',
         Kept(o)', UNCHANGED <<specVars, pending>>
  PROVE  DoneSoFar'
<1>1. pc \in {"grid", "infra", "Role", "RoleBinding"}
  BY Four
<1>2. pc \in RBAC \cup {"infra"} => rr.maas = "Managed"
  BY DEF IInv, TypeOK
<1>3. pc \in RBAC \cup {"infra"} /\ ~pending => maas = "Managed"
  BY <1>2 DEF IInv, PassCurrent, RBAC
<1>4. /\ maas' = maas /\ grid' = grid /\ pending' = pending
      /\ (Wanted' <=> Wanted) /\ (Unwanted' <=> Unwanted)
  BY DEF specVars, Wanted, Unwanted
<1>5. CASE pc = "grid"
  <2>1. pc' = "dispatch" /\ Kept("grid")'
    BY <1>5 DEF After, Kept, Ensured
  <2> QED
    BY <2>1, <1>4 DEF DoneSoFar
<1>6. CASE pc = "infra"
  <2>1. pc' = "Role" /\ Kept("infra")' /\ (Kept("grid") => Kept("grid")')
    BY <1>6, Four DEF After, Kept, Ensured
  <2> QED
    BY <2>1, <1>3, <1>4, <1>6 DEF IInv, DoneSoFar
<1>7. CASE pc = "Role"
  <2>1. /\ pc' = "RoleBinding" /\ Kept("Role")'
        /\ (Kept("grid") => Kept("grid")') /\ (Kept("infra") => Kept("infra")')
    BY <1>7, Four DEF After, Kept, Ensured
  <2> QED
    BY <2>1, <1>3, <1>4, <1>7 DEF IInv, DoneSoFar
<1>8. CASE pc = "RoleBinding"
  <2>1. /\ pc' = "rest" /\ Kept("RoleBinding")'
        /\ (Kept("grid") => Kept("grid")') /\ (Kept("infra") => Kept("infra")')
        /\ (Kept("Role") => Kept("Role")')
    BY <1>8, Four DEF After, Kept, Ensured
  <2>2. ~pending => ~Unwanted
    BY <1>3, <1>8 DEF Unwanted, RBAC
  <2> QED
    BY <2>1, <2>2, <1>4, <1>8 DEF IInv, DoneSoFar
<1> QED
  BY <1>1, <1>5, <1>6, <1>7, <1>8

\* The next stage of a pass that deals with an object is one it may be at.
LEMMA AfterLeads ==
  ASSUME IInv, pc \in Objects
  PROVE  Leads(After(pc))
<1>1. pc \in {"grid", "infra", "Role", "RoleBinding"}
  BY Four
<1>2. pc \in RBAC \cup {"infra"} => InfraSeparate /\ rr.maas = "Managed"
  BY DEF IInv, TypeOK
<1> QED
  BY <1>1, <1>2 DEF Leads, After, Labels, Objects, Namespaces, RBAC

\* An object that was created or updated is as it should be.
LEMMA EnsuredStep ==
  ASSUME IInv, NEW o \in Objects, pc = o, NEW v \in StatesOf(o),
         v = Created(o) \/ \E c \in StatesOf(o) : v = Updated(o, c),
         Write(o, v), Proceed(After(o)), UNCHANGED <<specVars, pending, events, faults>>
  PROVE  IInv'
<1>1. /\ v # Absent
      /\ o \in Namespaces => v.labelled
      /\ o \in RBAC => v.right /\ v.owned
  BY WrittenTyped
<1>2. pc # "idle" /\ Leads(After(o))
  BY AfterLeads, Four
<1>3. /\ TypeOK' /\ CopiesTrue' /\ LackIsSeen' /\ PassCurrent'
      /\ \A p \in Objects \ {o} : (Kept(p) => Kept(p)') /\ (Gone(p) => Gone(p)')
      /\ live'[o] = v
  BY <1>1, <1>2, WriteProceeds DEF Unlabelled
<1>4. Kept(o)'
  BY <1>1, <1>3 DEF Kept, Ensured, Objects
<1>5. DoneSoFar'
  BY <1>3, <1>4, AfterEnsured DEF Proceed
<1> QED
  BY <1>3, <1>5 DEF IInv

\* So is a namespace that was found as it should be.
LEMMA LeaveAlonePreserves ==
  ASSUME IInv, LeaveAlone
  PROVE  IInv'
<1> PICK o \in Objects : o = pc
  BY DEF LeaveAlone
<1>1. o \in Namespaces /\ rr.copy # Absent /\ rr.copy.labelled /\ rr.got
  BY DEF LeaveAlone, NeedsUpdate
<1>2. /\ rr' \in Results /\ rr'.maas = rr.maas /\ rr'.grid = rr.grid
      /\ ~rr'.got /\ rr'.copy = Absent /\ ~rr'.fresh /\ pc' = After(o)
  BY ProceedTyped DEF IInv, LeaveAlone
<1>3. Leads(After(o))
  BY AfterLeads
<1>4. o \in drifted \/ ~Unlabelled(live[o])
  BY <1>1 DEF IInv, LackIsSeen, Unlabelled
<1>5. o \notin drifted' => ~Unlabelled(live[o])
  BY <1>1, <1>4 DEF IInv, CopiesTrue, LeaveAlone, Unlabelled
<1>6. drifted' \subseteq drifted /\ (\A p \in Objects \ {o} : p \in drifted <=> p \in drifted')
  BY DEF LeaveAlone
<1>7. /\ pc' \in Labels /\ pc' # "grid" /\ pc' # "idle"
      /\ pc' \in RBAC \cup {"infra"} => InfraSeparate /\ rr'.maas = "Managed"
      /\ pc' \in {"dropRole", "dropRoleBinding"} => InfraSeparate /\ rr'.maas = "Removed"
  BY <1>2, <1>3 DEF Leads
<1>8. TypeOK'
  <2>1. drifted' \subseteq Objects
    BY <1>6 DEF IInv, TypeOK
  <2> QED
    BY <1>2, <1>7, <2>1 DEF IInv, TypeOK, Results, LeaveAlone, specVars
<1>9. CopiesTrue'
  BY <1>2 DEF IInv, CopiesTrue, LeaveAlone
<1>10. LackIsSeen'
  BY <1>2, <1>5, <1>6 DEF IInv, LackIsSeen, LeaveAlone, Unlabelled
<1>11. PassCurrent'
  BY <1>2, Four DEF IInv, PassCurrent, LeaveAlone, specVars
<1>12. \A p \in Objects \ {o} : Kept(p) => Kept(p)'
  BY <1>6 DEF Kept, Ensured, LeaveAlone
<1>13. Kept(o)'
  BY <1>1, <1>5 DEF Kept, Ensured, LeaveAlone, Unlabelled
<1>14. DoneSoFar'
  BY <1>2, <1>12, <1>13, AfterEnsured DEF LeaveAlone
<1> QED
  BY <1>8, <1>9, <1>10, <1>11, <1>14 DEF IInv

\* Once the teardown is complete the Role goes, then the RoleBinding.
LEMMA DropPreserves ==
  ASSUME IInv, DropRole \/ DropRoleBinding
  PROVE  IInv'
<1>0. Absent \notin NamespaceStates /\ "Role" \in Objects \ Namespaces /\ "RoleBinding" \in Objects \ Namespaces
  BY AbsentOK, Four DEF Namespaces
<1>1. CASE DropRole
  <2>1. pc = "dropRole" /\ rr.maas = "Removed" /\ InfraSeparate
    BY <1>1 DEF DropRole, Drop, IInv, TypeOK
  <2>2. Leads("dropRoleBinding")
    BY <2>1 DEF Leads, Labels, RBAC
  <2>3. /\ TypeOK' /\ CopiesTrue' /\ LackIsSeen' /\ PassCurrent'
        /\ \A p \in Objects \ {"Role"} : (Kept(p) => Kept(p)') /\ (Gone(p) => Gone(p)')
        /\ live'["Role"] = Absent
    BY <1>0, <1>1, <2>1, <2>2, WriteProceeds DEF DropRole, Drop
  <2>4. Gone("Role")' /\ (Kept("grid") => Kept("grid")')
    BY <2>3, <1>0, Four DEF Gone, Kept, Ensured
  <2>5. pc' = "dropRoleBinding" /\ UNCHANGED <<specVars, pending>>
    BY <1>1 DEF DropRole, Drop, Proceed
  <2>6. DoneSoFar'
    BY <2>1, <2>4, <2>5 DEF IInv, DoneSoFar, PassCurrent, specVars
  <2> QED
    BY <2>3, <2>6 DEF IInv
<1>2. CASE DropRoleBinding
  <2>1. pc = "dropRoleBinding" /\ rr.maas = "Removed" /\ InfraSeparate
    BY <1>2 DEF DropRoleBinding, Drop, IInv, TypeOK
  <2>2. Leads("rest")
    BY DEF Leads, Labels, RBAC, Objects, Namespaces
  <2>3. /\ TypeOK' /\ CopiesTrue' /\ LackIsSeen' /\ PassCurrent'
        /\ \A p \in Objects \ {"RoleBinding"} : (Kept(p) => Kept(p)') /\ (Gone(p) => Gone(p)')
        /\ live'["RoleBinding"] = Absent
    BY <1>0, <1>2, <2>1, <2>2, WriteProceeds DEF DropRoleBinding, Drop
  <2>4. /\ Gone("RoleBinding")' /\ (Kept("grid") => Kept("grid")')
        /\ Gone("Role") => Gone("Role")'
    BY <2>3, <1>0, Four DEF Gone, Kept, Ensured
  <2>5. pc' = "rest" /\ UNCHANGED <<specVars, pending>>
    BY <1>2 DEF DropRoleBinding, Drop, Proceed
  <2>6. ~pending => rr.maas = maas
    BY <2>1 DEF IInv, PassCurrent
  <2>7. ~pending => ~Wanted /\ (Wanted' <=> Wanted) /\ (Unwanted' <=> Unwanted)
    BY <2>1, <2>5, <2>6 DEF Wanted, Unwanted, specVars
  <2>8. DoneSoFar'
    BY <2>1, <2>4, <2>5, <2>7 DEF IInv, DoneSoFar, specVars
  <2> QED
    BY <2>3, <2>8 DEF IInv
<1> QED
  BY <1>1, <1>2

---------------------------------------------------------------------------
\* One step per action.
LEMMA StepInv ==
  ASSUME IInv, [Next]_vars
  PROVE  IInv'
<1>1. ASSUME NEW m \in MaaSStates, NEW g \in GridStates, UserSets(m, g)
      PROVE  IInv'
  BY <1>1, EnqueuedPreserves DEF UserSets, IInv, TypeOK
<1>2. CASE DeploymentChanges
  BY <1>2, EnqueuedPreserves DEF DeploymentChanges, IInv, TypeOK
<1>3. ASSUME NEW o \in Objects, NEW v \in StatesOf(o), OthersSet(o, v)
      PROVE  IInv'
  <2>1. /\ {o} \in SUBSET Objects /\ pc # o <=> pc \notin {o}
        /\ live' = [live EXCEPT ![o] = v] /\ v \in Copies
        /\ stale' = stale \cup {o} /\ drifted' = drifted \cup {o}
        /\ Event /\ UNCHANGED <<specVars, cached, pending, pc, faults>>
    BY <1>3, Four DEF OthersSet
  <2>2. rr' = [rr EXCEPT !.fresh = @ /\ pc \notin {o}]
    BY <1>3, <2>1 DEF OthersSet
  <2>3. /\ live' \in [Objects -> Copies]
        /\ \A p \in Objects : live'[p] \in StatesOf(p) \cup {Absent}
        /\ \A p \in Objects \ {o} : live'[p] = live[p]
    BY <2>1 DEF IInv, TypeOK
  <2>4. stale \subseteq stale' /\ stale' \subseteq Objects /\ o \in stale'
    BY <2>1 DEF IInv, TypeOK
  <2> QED
    BY <2>1, <2>2, <2>3, <2>4, OthersPreserve
<1>4. ASSUME NEW o \in Objects, OthersDelete(o)
      PROVE  IInv'
  <2> DEFINE S == Contents(o)
  <2>1. S \in SUBSET Objects
    BY DEF Contents, Objects
  <2>2. /\ live' = [p \in Objects |-> IF p \in S THEN Absent ELSE live[p]]
        /\ stale' = stale \cup {p \in S : live[p] # Absent} /\ drifted' = drifted \cup S
        /\ rr' = [rr EXCEPT !.fresh = @ /\ pc \notin S]
        /\ Event /\ UNCHANGED <<specVars, cached, pending, pc, faults>>
    BY <1>4 DEF OthersDelete
  <2> HIDE DEF S
  <2>3. /\ live' \in [Objects -> Copies]
        /\ \A p \in Objects : live'[p] \in StatesOf(p) \cup {Absent}
        /\ \A p \in Objects \ S : live'[p] = live[p]
        /\ \A p \in S : p \notin stale' => live'[p] = live[p]
    BY <2>1, <2>2, Four DEF IInv, TypeOK
  <2>4. stale \subseteq stale' /\ stale' \subseteq Objects
    BY <2>1, <2>2 DEF IInv, TypeOK
  <2> QED
    BY <2>1, <2>2, <2>3, <2>4, OthersPreserve
<1>5. ASSUME NEW o \in Objects, Deliver(o)
      PROVE  IInv'
  <2>1. TypeOK'
    BY <1>5 DEF Deliver, IInv, TypeOK, specVars
  <2>2. CopiesTrue'
    BY <1>5 DEF Deliver, IInv, TypeOK, CopiesTrue, specVars
  <2>3. LackIsSeen'
    BY <1>5 DEF Deliver, IInv, TypeOK, LackIsSeen, specVars, Objects
  <2>4. /\ UNCHANGED <<maas, grid, completed, live, drifted, pc, rr>>
        /\ ~pending' => ~pending
    BY <1>5 DEF Deliver, specVars
  <2>5. PassCurrent' /\ DoneSoFar'
    BY <2>4 DEF IInv, PassCurrent, DoneSoFar, Kept, Gone, Ensured, Wanted, Unwanted
  <2> QED
    BY <2>1, <2>2, <2>3, <2>5 DEF IInv
<1>6. CASE Begin
  <2>1. /\ rr' \in Results /\ rr'.maas = maas /\ rr'.grid = grid
        /\ ~rr'.got /\ rr'.copy = Absent /\ ~rr'.fresh
    <3>1. rr' = [maas |-> maas, grid |-> grid, got |-> FALSE, copy |-> Absent, fresh |-> FALSE]
      BY <1>6 DEF Begin, NoPass
    <3>2. maas \in MaaSStates /\ grid \in BOOLEAN
      BY SettingsOK DEF IInv, TypeOK
    <3> QED
      BY <3>1, <3>2, Four DEF Results
  <2>2. pc' \in {"grid", "dispatch"} /\ (pc' = "grid" <=> grid)
    BY <1>6 DEF Begin
  <2>3. TypeOK'
    BY <1>6, <2>1, <2>2, Four DEF Begin, IInv, TypeOK, Results, specVars, objVars, RBAC, Labels
  <2>4. CopiesTrue' /\ LackIsSeen'
    BY <1>6, <2>1 DEF Begin, IInv, CopiesTrue, LackIsSeen, objVars, Unlabelled
  <2>5. PassCurrent' /\ DoneSoFar'
    BY <1>6, <2>1, <2>2 DEF Begin, PassCurrent, DoneSoFar, specVars
  <2> QED
    BY <2>3, <2>4, <2>5 DEF IInv
<1>7. CASE Dispatch
  <2>1. /\ pc = "dispatch" /\ pc' \in {"infra", "dropRole", "rest"}
        /\ pc' = "infra" => InfraSeparate /\ rr.maas = "Managed"
        /\ pc' = "dropRole" => InfraSeparate /\ rr.maas = "Removed"
        /\ pc' = "rest" => /\ ~(InfraSeparate /\ rr.maas = "Managed")
                           /\ ~(InfraSeparate /\ rr.maas = "Removed" /\ completed)
    BY <1>7 DEF Dispatch
  <2>2. TypeOK'
    BY <1>7, <2>1, Four DEF Dispatch, IInv, TypeOK, specVars, objVars, RBAC, Labels
  <2>3. ~rr.got /\ rr.copy = Absent /\ ~rr.fresh /\ UNCHANGED <<specVars, objVars, pending, rr>>
    BY <1>7, <2>1 DEF Dispatch, IInv, CopiesTrue
  <2>4. CopiesTrue'
    BY <2>1, <2>3 DEF IInv, CopiesTrue, objVars
  <2>5. LackIsSeen'
    BY <2>3 DEF IInv, LackIsSeen, objVars
  <2>6. PassCurrent'
    BY <2>1, <2>3 DEF IInv, PassCurrent, specVars
  <2>7. DoneSoFar'
    <3>1. \A o \in Objects : (Kept(o) => Kept(o)') /\ (Gone(o) => Gone(o)')
      BY <2>3 DEF Kept, Gone, Ensured, objVars
    <3>2. ~pending /\ grid => Kept("grid")'
      BY <2>1, <3>1, Four DEF IInv, DoneSoFar
    <3>3. ~pending /\ pc' = "rest" => ~Wanted /\ ~Unwanted
      BY <2>1 DEF IInv, PassCurrent, Wanted, Unwanted
    <3> QED
      BY <2>1, <2>3, <3>2, <3>3 DEF DoneSoFar, Wanted, Unwanted, specVars
  <2> QED
    BY <2>2, <2>4, <2>5, <2>6, <2>7 DEF IInv
<1>8. CASE Get
  <2>1. /\ rr' \in Results /\ rr'.maas = rr.maas /\ rr'.grid = rr.grid
        /\ rr'.copy = cached[pc] /\ (rr'.fresh <=> pc \notin stale)
    BY <1>8, Four DEF Get, Results, IInv, TypeOK
  <2>2. TypeOK'
    BY <1>8, <2>1 DEF Get, Results, IInv, TypeOK, specVars, objVars
  <2>3. CopiesTrue'
    BY <1>8, <2>1 DEF Get, IInv, TypeOK, CopiesTrue, objVars, Objects, Namespaces, RBAC
  <2>4. LackIsSeen'
    BY <1>8, <2>1 DEF Get, IInv, LackIsSeen, objVars
  <2>5. PassCurrent' /\ DoneSoFar'
    BY <1>8, <2>1 DEF Get, IInv, PassCurrent, DoneSoFar, Kept, Gone, Ensured, Wanted, Unwanted, specVars, objVars
  <2> QED
    BY <2>2, <2>3, <2>4, <2>5 DEF IInv
<1>9. CASE Create
  <2> PICK o \in Objects : o = pc
    BY <1>9 DEF Create
  <2>1. Created(o) \in StatesOf(o)
    BY CreatedTyped
  <2>2. Write(o, Created(o)) /\ Proceed(After(o)) /\ UNCHANGED <<specVars, pending, events, faults>>
    BY <1>9 DEF Create
  <2> QED
    BY <2>1, <2>2, EnsuredStep
<1>10. CASE Update
  <2> PICK o \in Objects : o = pc
    BY <1>10 DEF Update
  <2>1. rr.copy \in StatesOf(o)
    BY <1>10 DEF Update, IInv, CopiesTrue
  <2>2. Updated(o, rr.copy) \in StatesOf(o)
    BY <2>1, WrittenTyped
  <2>3. /\ Write(o, Updated(o, rr.copy)) /\ Proceed(After(o))
        /\ UNCHANGED <<specVars, pending, events, faults>>
    BY <1>10 DEF Update
  <2> QED
    BY <2>1, <2>2, <2>3, EnsuredStep
<1>11. CASE LeaveAlone
  BY <1>11, LeaveAlonePreserves
<1>12. CASE DropRole \/ DropRoleBinding
  BY <1>12, DropPreserves
<1>13. CASE EndPass
  <2>1. NoPass \in Results /\ rr' = NoPass /\ pc = "rest" /\ pc' = "idle"
    BY <1>13, Four DEF EndPass, NoPass, Results
  <2>2. UNCHANGED <<specVars, objVars, pending, events, faults>>
    BY <1>13 DEF EndPass
  <2>3. TypeOK'
    BY <2>1, <2>2 DEF IInv, TypeOK, Results, specVars, objVars, RBAC, Labels
  <2>4. CopiesTrue' /\ LackIsSeen'
    BY <2>1, <2>2 DEF IInv, CopiesTrue, LackIsSeen, objVars, Objects, Namespaces, RBAC
  <2>5. \A o \in Objects : (Kept(o) => Kept(o)') /\ (Gone(o) => Gone(o)')
    BY <2>2 DEF Kept, Gone, Ensured, objVars
  <2>6. PassCurrent' /\ DoneSoFar'
    BY <2>1, <2>2, <2>5, Four DEF IInv, PassCurrent, DoneSoFar, Wanted, Unwanted, specVars
  <2> QED
    BY <2>3, <2>4, <2>6 DEF IInv
<1>14. CASE CreateRefused \/ UpdateRefused
  <2>1. Fail /\ UNCHANGED <<specVars, objVars, events, faults>>
    BY <1>14 DEF CreateRefused, UpdateRefused
  <2>2. faults' \in 0..MaxFaults
    BY <2>1 DEF IInv, TypeOK
  <2> QED
    BY <2>1, <2>2, FailPreserves
<1>15. CASE PassFails
  <2>1. faults \in 0..MaxFaults
    BY DEF IInv, TypeOK
  <2>2. faults' \in 0..MaxFaults
    BY <1>15, <2>1, LimitsOK DEF PassFails, Fault
  <2> QED
    BY <1>15, <2>2, FailPreserves DEF PassFails
<1>16. CASE UNCHANGED vars
  <2>1. /\ UNCHANGED <<maas, grid, completed, live, cached, stale, drifted>>
        /\ UNCHANGED <<pending, pc, rr, events, faults>>
    BY <1>16 DEF vars
  <2>2. TypeOK' /\ CopiesTrue' /\ LackIsSeen' /\ PassCurrent'
    BY <2>1 DEF IInv, TypeOK, CopiesTrue, LackIsSeen, PassCurrent
  <2>3. DoneSoFar'
    BY <2>1 DEF IInv, DoneSoFar, Kept, Gone, Ensured, Wanted, Unwanted
  <2> QED
    BY <2>2, <2>3 DEF IInv
<1> QED
  BY <1>1, <1>2, <1>3, <1>4, <1>5, <1>6, <1>7, <1>8, <1>9, <1>10, <1>11, <1>12,
     <1>13, <1>14, <1>15, <1>16 DEF Next, OthersStep, PassStep

\* What all the invariants below rest on.
LEMMA AlwaysIInv == Spec => []IInv
BY InitInv, StepInv, PTL DEF Spec

---------------------------------------------------------------------------
(* The properties.                                                         *)

(* Every variable stays in its range, and a pass only creates what the     *)
(* state it saw asks for and only deletes what that state gives up         *)
(* (ensureInfraSecretMigrationRBAC).                                       *)
THEOREM InfraTypeCorrect == Spec => []TypeOK
<1>1. IInv => TypeOK
  BY DEF IInv
<1> QED
  BY <1>1, AlwaysIInv, PTL

(* Whatever was in the cluster, whatever copies were out of date and       *)
(* whatever calls were refused: an operator with nothing left in its queue *)
(* has given maas-controller its rights while Managed, and taken them back *)
(* after the teardown (ensureInfraSecretMigrationRBAC).                    *)
THEOREM RightsSettle == Spec => []SettledRights
<1>1. IInv => SettledRights
  BY DEF IInv, DoneSoFar, SettledRights, Quiet, Wanted, Unwanted, Kept, Gone, RBAC
<1> QED
  BY <1>1, AlwaysIInv, PTL

(* The namespaces are there and carry their labels, though a namespace     *)
(* that has them in the cache is not written at all (ensureNamespace).     *)
THEOREM NamespacesSettle == Spec => []SettledNamespaces
<1>1. IInv => SettledNamespaces
  BY DEF IInv, DoneSoFar, SettledNamespaces, Quiet, Wanted, Kept
<1> QED
  BY <1>1, AlwaysIInv, PTL

\* Only the operator's writes put others' labels at risk, and they are the copy's.
LEMMA WriteKeepsOthers ==
  ASSUME IInv, NEW n \in Namespaces, Next,
         live[n] # Absent, live[n].others, live'[n] # Absent
  PROVE  live'[n].others
<1>0. n \in Objects /\ n # "Role" /\ n # "RoleBinding" /\ live \in [Objects -> Copies]
  BY DEF IInv, TypeOK, Objects, Namespaces, RBAC
<1>1. ASSUME NEW o \in Objects, NEW v \in StatesOf(o), OthersSet(o, v)
      PROVE  live'[n].others
  BY <1>0, <1>1 DEF OthersSet
<1>2. ASSUME NEW o \in Objects, OthersDelete(o)
      PROVE  live'[n].others
  BY <1>0, <1>2 DEF OthersDelete
<1>3. CASE Create
  BY <1>0, <1>3 DEF Create, CreateAccepted, Write
<1>4. CASE Update
  <2>1. CASE pc # n
    BY <1>0, <1>4, <2>1 DEF Update, Write
  <2>2. CASE pc = n
    <3>1. rr.copy = live[n] /\ rr.copy \in StatesOf(n)
      BY <1>0, <1>4, <2>2 DEF IInv, CopiesTrue, Update, UpdateAccepted
    <3>2. live'[n] = Updated(n, rr.copy)
      BY <1>0, <1>4, <2>2 DEF Update, Write
    <3> QED
      BY <1>0, <3>1, <3>2, WrittenTyped
  <2> QED
    BY <2>1, <2>2
<1>5. CASE DropRole \/ DropRoleBinding
  BY <1>0, <1>5 DEF DropRole, DropRoleBinding, Drop, Write
<1>6. ASSUME UNCHANGED live
      PROVE  live'[n].others
  BY <1>6
<1> QED
  BY <1>1, <1>2, <1>3, <1>4, <1>5, <1>6
  DEF Next, OthersStep, UserSets, DeploymentChanges, Enqueued, Deliver, PassStep, Begin,
      Dispatch, Get, LeaveAlone, EndPass, CreateRefused, UpdateRefused, PassFails, objVars

(* A label another writer put on a namespace survives every update of the  *)
(* operator, although it sends the whole object back: an update of a copy  *)
(* that has been overtaken is refused (ensureNamespace).                   *)
THEOREM OthersLabelsStay == Spec => OthersLabelsKept
<1>1. IInv /\ [Next]_vars =>
        [\A n \in Namespaces :
           live[n] # Absent /\ live[n].others /\ live'[n] # Absent => live'[n].others]_vars
  BY WriteKeepsOthers
<1> QED
  BY <1>1, AlwaysIInv, PTL DEF Spec, OthersLabelsKept

---------------------------------------------------------------------------
(* What is left to do.  PassesStop needs fairness to reach its end, but    *)
(* not to get nearer: Work and Steps measure the way.                      *)

\* Something a pass that sees the spec as it is would write.
Lacking(o) ==
  IF o \in Namespaces THEN ~Ensured(o)
  ELSE \/ Wanted /\ ~Ensured(o)
       \/ Unwanted /\ live[o] # Absent

WillEnsure(o) ==
  /\ InfraSeparate /\ rr.maas = "Managed"
  /\ \/ pc \in {"grid", "dispatch", "infra", "Role"}
     \/ pc = "RoleBinding" /\ o = "RoleBinding"

WillDrop(o) ==
  \/ InfraSeparate /\ rr.maas = "Removed" /\ completed /\ pc \in {"grid", "dispatch"}
  \/ pc = "dropRole"
  \/ pc = "dropRoleBinding" /\ o = "RoleBinding"

\* What the running pass is about to do to an object is not what the spec asks any more.
Stray(o) ==
  o \in RBAC /\ ((WillEnsure(o) /\ ~Wanted) \/ (WillDrop(o) /\ ~Unwanted))

\* A write leaves a delivery behind, and a stray one another write.
Todo(o) == (IF o \in stale THEN 1 ELSE 0) + (IF Lacking(o) THEN 2 ELSE 0)
             + (IF Stray(o) THEN 4 ELSE 0)

\* Writes that change something, and deliveries, up to the next event: never over 28.
Work == Todo("grid") + Todo("infra") + Todo("Role") + Todo("RoleBinding")

Rank(l) == CASE l = "idle"            -> 0
             [] l = "rest"            -> 1
             [] l = "dropRoleBinding" -> 2
             [] l = "dropRole"        -> 3
             [] l = "RoleBinding"     -> 3
             [] l = "Role"            -> 5
             [] l = "infra"           -> 7
             [] l = "dispatch"        -> 8
             [] l = "grid"            -> 10

HasCopy == pc \in Objects /\ rr.got

\* The pass will be refused a write, or may be: its copy has been overtaken, or the
\* namespace it writes into is gone.
Doomed ==
  \/ HasCopy /\ ~rr.fresh
  \/ pc \in RBAC /\ live["infra"] = Absent

\* Steps of the pass under way and of those to come, if nothing is written any more.
Steps == Rank(pc) - (IF HasCopy THEN 1 ELSE 0)
           + 11 * ((IF pending THEN 1 ELSE 0) + (IF Doomed THEN 1 ELSE 0))

Nearer ==
  \/ Work' < Work
  \/ Work' = Work /\ UNCHANGED <<live, stale>> /\ (stale = {} => Steps' < Steps)

---------------------------------------------------------------------------
\* The parts of Todo, now and after a step.
LEMMA TodoParts ==
  ASSUME NEW o
  PROVE  /\ \E s \in {0, 1}, l \in {0, 2}, t \in {0, 4} :
              /\ Todo(o) = s + l + t
              /\ (s = 1 <=> o \in stale) /\ (l = 2 <=> Lacking(o)) /\ (t = 4 <=> Stray(o))
         /\ \E s \in {0, 1}, l \in {0, 2}, t \in {0, 4} :
              /\ Todo(o)' = s + l + t
              /\ (s = 1 <=> o \in stale') /\ (l = 2 <=> Lacking(o)') /\ (t = 4 <=> Stray(o)')
<1> DEFINE s == IF o \in stale THEN 1 ELSE 0
           l == IF Lacking(o) THEN 2 ELSE 0
           t == IF Stray(o) THEN 4 ELSE 0
<1>0. 0 # 1 /\ 0 # 2 /\ 0 # 4
  OBVIOUS
<1>1. /\ s \in {0, 1} /\ l \in {0, 2} /\ t \in {0, 4}
      /\ (s = 1 <=> o \in stale) /\ (l = 2 <=> Lacking(o)) /\ (t = 4 <=> Stray(o))
  BY <1>0, Zenon
<1>2. /\ s' \in {0, 1} /\ l' \in {0, 2} /\ t' \in {0, 4}
      /\ (s' = 1 <=> o \in stale') /\ (l' = 2 <=> Lacking(o)') /\ (t' = 4 <=> Stray(o)')
  BY <1>0, Zenon
<1>3. Todo(o) = s + l + t /\ Todo(o)' = s' + l' + t'
  BY DEF Todo
<1> HIDE DEF s, l, t
<1> QED
  BY <1>1, <1>2, <1>3, Zenon

\* Numbers only.
LEMMA PartsCompared ==
  ASSUME NEW s \in {0, 1}, NEW l \in {0, 2}, NEW t \in {0, 4},
         NEW s1 \in {0, 1}, NEW l1 \in {0, 2}, NEW t1 \in {0, 4}
  PROVE  /\ s + l + t \in Nat /\ s1 + l1 + t1 \in Nat
         /\ (s1 = 1 => s = 1) /\ (l1 = 2 => l = 2) /\ (t1 = 4 => t = 4)
              => s1 + l1 + t1 <= s + l + t
         /\ s = 1 /\ s1 # 1 /\ (l1 = 2 => l = 2) /\ (t1 = 4 => t = 4)
              => s1 + l1 + t1 < s + l + t
         /\ (t = 4 \/ l = 2) /\ t1 # 4 /\ (l1 = 2 => t = 4)
              => s1 + l1 + t1 < s + l + t
OBVIOUS

\* How an object's share changes with what it is made of.
LEMMA TodoCompared ==
  ASSUME NEW o
  PROVE  /\ Todo(o) \in Nat /\ Todo(o)' \in Nat
         /\ (o \in stale' => o \in stale) /\ (Lacking(o)' => Lacking(o)) /\ (Stray(o)' => Stray(o))
              => Todo(o)' <= Todo(o)
         /\ o \in stale /\ o \notin stale' /\ (Lacking(o)' => Lacking(o)) /\ (Stray(o)' => Stray(o))
              => Todo(o)' < Todo(o)
         /\ (Stray(o) \/ Lacking(o)) /\ ~Stray(o)' /\ (Lacking(o)' => Stray(o))
              => Todo(o)' < Todo(o)
<1>1. PICK s \in {0, 1}, l \in {0, 2}, t \in {0, 4} :
        /\ Todo(o) = s + l + t
        /\ (s = 1 <=> o \in stale) /\ (l = 2 <=> Lacking(o)) /\ (t = 4 <=> Stray(o))
  BY TodoParts, Zenon
<1>2. PICK s1 \in {0, 1}, l1 \in {0, 2}, t1 \in {0, 4} :
        /\ Todo(o)' = s1 + l1 + t1
        /\ (s1 = 1 <=> o \in stale') /\ (l1 = 2 <=> Lacking(o)') /\ (t1 = 4 <=> Stray(o)')
  BY TodoParts, Zenon
<1>3. /\ s + l + t \in Nat /\ s1 + l1 + t1 \in Nat
      /\ (s1 = 1 => s = 1) /\ (l1 = 2 => l = 2) /\ (t1 = 4 => t = 4)
           => s1 + l1 + t1 <= s + l + t
      /\ s = 1 /\ s1 # 1 /\ (l1 = 2 => l = 2) /\ (t1 = 4 => t = 4)
           => s1 + l1 + t1 < s + l + t
      /\ (t = 4 \/ l = 2) /\ t1 # 4 /\ (l1 = 2 => t = 4)
           => s1 + l1 + t1 < s + l + t
  BY PartsCompared
<1> QED
  BY <1>1, <1>2, <1>3, Zenon

\* Numbers only.
LEMMA FourCompared ==
  ASSUME NEW a \in Nat, NEW b \in Nat, NEW c \in Nat, NEW d \in Nat,
         NEW a1 \in Nat, NEW b1 \in Nat, NEW c1 \in Nat, NEW d1 \in Nat,
         a1 <= a, b1 <= b, c1 <= c, d1 <= d
  PROVE  /\ a1 + b1 + c1 + d1 < a + b + c + d \/ a1 + b1 + c1 + d1 = a + b + c + d
         /\ a1 < a \/ b1 < b \/ c1 < c \/ d1 < d => a1 + b1 + c1 + d1 < a + b + c + d
OBVIOUS

\* If no object's share grows, the work does not, and one that shrinks is enough.
LEMMA WorkCompared ==
  ASSUME \A o \in Objects : Todo(o)' <= Todo(o)
  PROVE  /\ Work' < Work \/ Work' = Work
         /\ \A o \in Objects : Todo(o)' < Todo(o) => Work' < Work
<1>1. /\ Todo("grid") \in Nat /\ Todo("infra") \in Nat
      /\ Todo("Role") \in Nat /\ Todo("RoleBinding") \in Nat
      /\ Todo("grid")' \in Nat /\ Todo("infra")' \in Nat
      /\ Todo("Role")' \in Nat /\ Todo("RoleBinding")' \in Nat
  BY TodoCompared, Zenon
<1>2. /\ Todo("grid")' <= Todo("grid") /\ Todo("infra")' <= Todo("infra")
      /\ Todo("Role")' <= Todo("Role") /\ Todo("RoleBinding")' <= Todo("RoleBinding")
  BY Four, Zenon
<1>3. /\ Work' < Work \/ Work' = Work
      /\ Todo("grid")' < Todo("grid") => Work' < Work
      /\ Todo("infra")' < Todo("infra") => Work' < Work
      /\ Todo("Role")' < Todo("Role") => Work' < Work
      /\ Todo("RoleBinding")' < Todo("RoleBinding") => Work' < Work
  BY <1>1, <1>2, FourCompared DEF Work
<1>4. ASSUME NEW o \in Objects, Todo(o)' < Todo(o) PROVE Work' < Work
  <2>1. o = "grid" \/ o = "infra" \/ o = "Role" \/ o = "RoleBinding"
    BY Four
  <2> QED
    BY <1>3, <1>4, <2>1, Zenon
<1> QED
  BY <1>3, <1>4

\* What an object lacks depends on the spec, the teardown and itself.
LEMMA LackKept ==
  ASSUME NEW o, UNCHANGED specVars, live'[o] = live[o]
  PROVE  Lacking(o)' => Lacking(o)
BY DEF Lacking, Ensured, Wanted, Unwanted, specVars

\* A step that writes nothing new and takes the pass on brings its end nearer.
LEMMA NothingWritten ==
  ASSUME UNCHANGED <<specVars, live, stale>>,
         \A o \in Objects : Stray(o)' => Stray(o),
         stale = {} => Steps' < Steps
  PROVE  Nearer
<1>1. \A o \in Objects : Todo(o)' <= Todo(o)
  <2> SUFFICES ASSUME NEW o \in Objects PROVE Todo(o)' <= Todo(o)
    OBVIOUS
  <2>1. (Lacking(o)' => Lacking(o)) /\ (Stray(o)' => Stray(o)) /\ (o \in stale' => o \in stale)
    BY LackKept
  <2> QED
    BY <2>1, TodoCompared, Zenon
<1>2. Work' < Work \/ Work' = Work
  BY <1>1, WorkCompared, Zenon
<1> QED
  BY <1>2, Zenon DEF Nearer

\* So does a write that makes an object what the spec asks for, or is the last stray
\* one of it; a write that changes nothing is none.
LEMMA Written ==
  ASSUME IInv, NEW o \in Objects, NEW v, Write(o, v), UNCHANGED specVars,
         \A p \in Objects : Stray(p)' => Stray(p),
         ~Stray(o)',
         v # live[o] => Stray(o) \/ Lacking(o),
         Lacking(o)' => Stray(o),
         v = live[o] /\ stale = {} => Steps' < Steps
  PROVE  Nearer
<1>0. live \in [Objects -> Copies] /\ live' = [live EXCEPT ![o] = v]
  BY DEF IInv, TypeOK, Write
<1>1. CASE v = live[o]
  <2>1. live' = live /\ stale' = stale
    BY <1>0, <1>1 DEF Write
  <2> QED
    BY <1>1, <2>1, NothingWritten
<1>2. CASE v # live[o]
  <2>1. Todo(o)' < Todo(o) /\ Todo(o) \in Nat /\ Todo(o)' \in Nat
    BY <1>2, TodoCompared, Zenon
  <2>2. ASSUME NEW p \in Objects PROVE Todo(p)' <= Todo(p)
    <3>1. CASE p = o
      BY <2>1, <3>1
    <3>2. CASE p # o
      <4>1. live'[p] = live[p] /\ (p \in stale' => p \in stale)
        BY <1>0, <3>2 DEF Write
      <4>2. Lacking(p)' => Lacking(p)
        BY <4>1, LackKept
      <4> QED
        BY <4>1, <4>2, TodoCompared, Zenon
    <3> QED
      BY <3>1, <3>2
  <2>3. Work' < Work
    BY <2>1, <2>2, WorkCompared, Zenon
  <2> QED
    BY <2>3 DEF Nearer
<1> QED
  BY <1>1, <1>2

\* A pass on its way leaves what it might do to an object behind.
LEMMA OnTheWay ==
  ASSUME UNCHANGED specVars, rr'.maas = rr.maas,
         \/ pc' = pc
         \/ pc' = "idle"
         \/ pc \in Objects /\ pc' = After(pc)
         \/ pc = "dispatch" /\ rr.maas = "Managed" /\ pc' = "infra"
         \/ pc = "dispatch" /\ InfraSeparate /\ rr.maas = "Removed" /\ completed /\ pc' = "dropRole"
         \/ pc = "dropRole" /\ pc' = "dropRoleBinding"
         \/ pc' = "rest"
  PROVE  /\ \A o \in Objects : Stray(o)' => Stray(o)
         /\ \A o \in Objects : pc = o /\ pc' = After(o) => ~Stray(o)'
         /\ pc' = "dropRoleBinding" => ~Stray("Role")'
         /\ pc' \in {"rest", "idle"} => \A o \in Objects : ~Stray(o)'
<1>1. /\ Wanted' <=> Wanted
      /\ Unwanted' <=> Unwanted
  BY DEF Wanted, Unwanted, specVars
<1>2. ASSUME NEW o PROVE (WillEnsure(o)' => WillEnsure(o)) /\ (WillDrop(o)' => WillDrop(o))
  BY Four DEF WillEnsure, WillDrop, After, specVars
<1>3. \A o \in Objects : Stray(o)' => Stray(o)
  BY <1>1, <1>2 DEF Stray
<1>4. ASSUME pc' \in {"rest", "idle"}, NEW o PROVE ~Stray(o)'
  BY <1>4 DEF Stray, WillEnsure, WillDrop
<1>5. ASSUME pc' = "dropRoleBinding" PROVE ~Stray("Role")'
  BY <1>5 DEF Stray, WillEnsure, WillDrop
<1>6. ASSUME NEW o \in Objects, pc = o, pc' = After(o) PROVE ~Stray(o)'
  BY <1>6, Four DEF Stray, WillEnsure, WillDrop, After, RBAC
<1> QED
  BY <1>3, <1>4, <1>5, <1>6

---------------------------------------------------------------------------
\* Where a pass is, as a number.
LEMMA Ranks ==
  /\ Rank("idle") = 0 /\ Rank("rest") = 1 /\ Rank("dropRoleBinding") = 2
  /\ Rank("dropRole") = 3 /\ Rank("RoleBinding") = 3 /\ Rank("Role") = 5
  /\ Rank("infra") = 7 /\ Rank("dispatch") = 8 /\ Rank("grid") = 10
BY DEF Rank

\* The parts of Steps, now and after a step.
LEMMA StepsParts ==
  /\ \E h \in {0, 1}, p \in {0, 1}, d \in {0, 1} :
       /\ Steps = Rank(pc) - h + 11 * (p + d)
       /\ (h = 1 <=> HasCopy) /\ (p = 1 <=> pending) /\ (d = 1 <=> Doomed)
  /\ \E h \in {0, 1}, p \in {0, 1}, d \in {0, 1} :
       /\ Steps' = Rank(pc') - h + 11 * (p + d)
       /\ (h = 1 <=> HasCopy') /\ (p = 1 <=> pending') /\ (d = 1 <=> Doomed')
<1> DEFINE h == IF HasCopy THEN 1 ELSE 0
           p == IF pending THEN 1 ELSE 0
           d == IF Doomed THEN 1 ELSE 0
<1>0. 0 # 1
  OBVIOUS
<1>1. /\ h \in {0, 1} /\ p \in {0, 1} /\ d \in {0, 1}
      /\ (h = 1 <=> HasCopy) /\ (p = 1 <=> pending) /\ (d = 1 <=> Doomed)
  BY <1>0, Zenon
<1>2. /\ h' \in {0, 1} /\ p' \in {0, 1} /\ d' \in {0, 1}
      /\ (h' = 1 <=> HasCopy') /\ (p' = 1 <=> pending') /\ (d' = 1 <=> Doomed')
  BY <1>0, Zenon
<1>3. Steps = Rank(pc) - h + 11 * (p + d) /\ Steps' = Rank(pc') - h' + 11 * (p' + d')
  BY Zenon DEF Steps, Rank
<1> HIDE DEF h, p, d
<1> QED
  BY <1>1, <1>2, <1>3, Zenon

\* Numbers only.
LEMMA StepsNumbers ==
  ASSUME NEW r \in Nat, NEW h \in {0, 1}, NEW p \in {0, 1}, NEW d \in {0, 1},
         NEW r1 \in Nat, NEW h1 \in {0, 1}, NEW p1 \in {0, 1}, NEW d1 \in {0, 1}
  PROVE  /\ p1 = p /\ (d1 = 1 => d = 1) /\ h1 # 1 /\ r1 < r /\ (h = 1 => r1 + 1 < r)
              => r1 - h1 + 11 * (p1 + d1) < r - h + 11 * (p + d)
         /\ p1 = p /\ (d1 = 1 => d = 1) /\ h1 = 1 /\ h # 1 /\ r1 = r
              => r1 - h1 + 11 * (p1 + d1) < r - h + 11 * (p + d)
         /\ p = 1 /\ p1 # 1 /\ d1 # 1 /\ h # 1 /\ r = 0 /\ r1 <= 10
              => r1 - h1 + 11 * (p1 + d1) < r - h + 11 * (p + d)
         /\ d = 1 /\ d1 # 1 /\ r >= 3 /\ r1 = 0
              => r1 - h1 + 11 * (p1 + d1) < r - h + 11 * (p + d)
OBVIOUS

\* The four kinds of steps of a pass: on, or with the object read, or begun, or refused.
LEMMA StepsCompared ==
  ASSUME Rank(pc) \in Nat, Rank(pc') \in Nat, pending \in BOOLEAN, pending' \in BOOLEAN
  PROVE  /\ /\ pending' = pending /\ (Doomed' => Doomed) /\ ~HasCopy'
            /\ Rank(pc') < Rank(pc) /\ (HasCopy => Rank(pc') + 1 < Rank(pc))
            => Steps' < Steps
         /\ /\ pending' = pending /\ (Doomed' => Doomed) /\ HasCopy' /\ ~HasCopy /\ pc' = pc
            => Steps' < Steps
         /\ /\ pending /\ ~pending' /\ ~Doomed' /\ ~HasCopy /\ Rank(pc) = 0 /\ Rank(pc') <= 10
            => Steps' < Steps
         /\ /\ Doomed /\ ~Doomed' /\ Rank(pc) >= 3 /\ Rank(pc') = 0
            => Steps' < Steps
<1>1. PICK h \in {0, 1}, p \in {0, 1}, d \in {0, 1} :
        /\ Steps = Rank(pc) - h + 11 * (p + d)
        /\ (h = 1 <=> HasCopy) /\ (p = 1 <=> pending) /\ (d = 1 <=> Doomed)
  BY StepsParts, Zenon
<1>2. PICK h1 \in {0, 1}, p1 \in {0, 1}, d1 \in {0, 1} :
        /\ Steps' = Rank(pc') - h1 + 11 * (p1 + d1)
        /\ (h1 = 1 <=> HasCopy') /\ (p1 = 1 <=> pending') /\ (d1 = 1 <=> Doomed')
  BY StepsParts, Zenon
<1>3. pending' = pending => p1 = p
  BY <1>1, <1>2
<1> DEFINE Less == Rank(pc') - h1 + 11 * (p1 + d1) < Rank(pc) - h + 11 * (p + d)
<1>4. /\ p1 = p /\ (d1 = 1 => d = 1) /\ h1 # 1 /\ Rank(pc') < Rank(pc)
           /\ (h = 1 => Rank(pc') + 1 < Rank(pc)) => Less
      /\ p1 = p /\ (d1 = 1 => d = 1) /\ h1 = 1 /\ h # 1 /\ Rank(pc') = Rank(pc) => Less
      /\ p = 1 /\ p1 # 1 /\ d1 # 1 /\ h # 1 /\ Rank(pc) = 0 /\ Rank(pc') <= 10 => Less
      /\ d = 1 /\ d1 # 1 /\ Rank(pc) >= 3 /\ Rank(pc') = 0 => Less
  BY StepsNumbers
<1>5. Steps' < Steps <=> Less
  BY <1>1, <1>2, Zenon
<1> HIDE DEF Less
<1> QED
  BY <1>1, <1>2, <1>3, <1>4, <1>5, Zenon

---------------------------------------------------------------------------
\* A pass on its way to the next object has no copy in hand.
LEMMA OnToNext ==
  ASSUME TypeOK, NEW l, Proceed(l)
  PROVE  rr'.maas = rr.maas /\ pc' = l /\ ~HasCopy'
BY ProceedTyped DEF HasCopy

\* Going on to the next object is a step towards the end, unless it makes things worse.
LEMMA NextObject ==
  ASSUME IInv, pc \in Objects, pc' = After(pc), ~HasCopy', pending' = pending,
         Doomed' => Doomed
  PROVE  Steps' < Steps
<1>1. \/ pc = "grid" /\ pc' = "dispatch"
      \/ pc = "infra" /\ pc' = "Role"
      \/ pc = "Role" /\ pc' = "RoleBinding"
      \/ pc = "RoleBinding" /\ pc' = "rest"
  BY Four DEF After
<1>2. /\ Rank(pc) \in Nat /\ Rank(pc') \in Nat
      /\ Rank(pc') < Rank(pc) /\ Rank(pc') + 1 < Rank(pc)
  BY <1>1, Ranks
<1>3. pending \in BOOLEAN /\ pending' \in BOOLEAN
  BY DEF IInv, TypeOK
<1> QED
  BY <1>2, <1>3, StepsCompared

\* An object that has just been dealt with, and found in no need of it, is no obstacle.
LEMMA NoNewObstacle ==
  ASSUME IInv, pc \in Objects, rr.got, pc' = After(pc), ~HasCopy',
         live'["infra"] = live["infra"],
         pc = "infra" /\ rr.fresh => live["infra"] # Absent
  PROVE  Doomed' => Doomed
<1>1. \/ pc = "grid" /\ pc' = "dispatch"
      \/ pc = "infra" /\ pc' = "Role"
      \/ pc = "Role" /\ pc' = "RoleBinding"
      \/ pc = "RoleBinding" /\ pc' = "rest"
  BY Four DEF After
<1> QED
  BY <1>1 DEF Doomed, HasCopy, RBAC

\* What the spec asks of an object that a pass is about to write.
LEMMA WriteNeeded ==
  ASSUME IInv, NEW o \in Objects, pc = o, ~Ensured(o)
  PROVE  Stray(o) \/ Lacking(o)
<1>1. CASE o \in Namespaces
  BY <1>1 DEF Lacking
<1>2. CASE o \in RBAC
  <2>1. o \notin Namespaces /\ InfraSeparate /\ rr.maas = "Managed"
    BY <1>2 DEF IInv, TypeOK, Namespaces, RBAC
  <2>2. WillEnsure(o)
    BY <1>2, <2>1 DEF WillEnsure, RBAC
  <2> QED
    BY <1>2, <2>1, <2>2 DEF Stray, Lacking
<1> QED
  BY <1>1, <1>2 DEF Objects

\* Writing what an object should be, by the spec or against it.
LEMMA EnsureNearer ==
  ASSUME IInv, NEW o \in Objects, pc = o, rr.got, NEW v \in StatesOf(o),
         v = Created(o) \/ \E c \in StatesOf(o) : v = Updated(o, c),
         Write(o, v), Proceed(After(o)), UNCHANGED <<specVars, pending>>,
         v # live[o] => ~Ensured(o),
         v = live[o] /\ pc = "infra" => live["infra"] # Absent
  PROVE  Nearer
<1>1. /\ v # Absent
      /\ o \in Namespaces => v.labelled
      /\ o \in RBAC => v.right /\ v.owned
  BY WrittenTyped
<1>2. live'[o] = v /\ (v = live[o] => live' = live)
  BY DEF IInv, TypeOK, Write
<1>3. Ensured(o)'
  BY <1>1, <1>2 DEF Ensured, Objects
<1>4. rr'.maas = rr.maas /\ pc' = After(o) /\ ~HasCopy'
  BY OnToNext DEF IInv
<1>5. (\A p \in Objects : Stray(p)' => Stray(p)) /\ ~Stray(o)'
  BY <1>4, OnTheWay
<1>6. v # live[o] => Stray(o) \/ Lacking(o)
  BY WriteNeeded
<1>7. Lacking(o)' => Stray(o)
  <2> SUFFICES ASSUME Lacking(o)' PROVE Stray(o)
    OBVIOUS
  <2>1. o \notin Namespaces /\ o \in RBAC /\ Unwanted'
    BY <1>3 DEF Lacking, Objects
  <2>2. ~Wanted /\ InfraSeparate /\ rr.maas = "Managed"
    BY <2>1 DEF IInv, TypeOK, Wanted, Unwanted, specVars
  <2>3. WillEnsure(o)
    BY <2>1, <2>2 DEF WillEnsure, RBAC
  <2> QED
    BY <2>1, <2>2, <2>3 DEF Stray
<1>8. ASSUME v = live[o] PROVE Steps' < Steps
  <2>1. live'["infra"] = live["infra"]
    BY <1>2, <1>8
  <2>2. Doomed' => Doomed
    BY <1>4, <1>8, <2>1, NoNewObstacle
  <2> QED
    BY <1>4, <2>2, NextObject
<1> QED
  BY <1>5, <1>6, <1>7, <1>8, Written

\* Withdrawing the rights, by the spec or against it.
LEMMA DropNearer ==
  ASSUME IInv, NEW l, NEW o, NEW next, Drop(l, o, next),
         \/ l = "dropRole" /\ o = "Role" /\ next = "dropRoleBinding"
         \/ l = "dropRoleBinding" /\ o = "RoleBinding" /\ next = "rest"
  PROVE  Nearer
<1>1. /\ pc = l /\ pc' = next /\ Write(o, Absent) /\ UNCHANGED <<specVars, pending>>
      /\ o \in Objects /\ o \in RBAC /\ o \notin Namespaces /\ rr.maas = "Removed" /\ InfraSeparate
      /\ rr'.maas = rr.maas /\ ~HasCopy'
  BY OnToNext, Four DEF Drop, Proceed, IInv, TypeOK, RBAC, Namespaces
<1>2. (\A p \in Objects : Stray(p)' => Stray(p)) /\ ~Stray(o)'
  BY <1>1, OnTheWay
<1>3. live'[o] = Absent
  BY <1>1 DEF IInv, TypeOK, Write
<1>4. WillDrop(o)
  BY <1>1 DEF WillDrop
<1>5. Absent # live[o] => Stray(o) \/ Lacking(o)
  BY <1>1, <1>4 DEF Stray, Lacking
<1>6. Lacking(o)' => Stray(o)
  <2> SUFFICES ASSUME Lacking(o)' PROVE Stray(o)
    OBVIOUS
  <2>1. Wanted'
    BY <1>1, <1>3 DEF Lacking
  <2>2. ~Unwanted
    BY <1>1, <2>1 DEF Wanted, Unwanted, specVars
  <2> QED
    BY <1>1, <1>4, <2>2 DEF Stray
<1>7. Steps' < Steps
  <2>1. Rank(pc) \in Nat /\ Rank(pc') \in Nat /\ Rank(pc') < Rank(pc)
    BY <1>1, Ranks
  <2>2. pending \in BOOLEAN /\ pending' = pending
    BY <1>1 DEF IInv, TypeOK
  <2>3. ~HasCopy /\ ~Doomed'
    BY <1>1, Four DEF HasCopy, Doomed, RBAC
  <2> QED
    BY <1>1, <2>1, <2>2, <2>3, StepsCompared
<1> QED
  BY <1>1, <1>2, <1>5, <1>6, <1>7, Written

\* A refused pass was doomed when it wrote, if not before.
LEMMA RefusedNearer ==
  ASSUME IInv, CreateRefused \/ UpdateRefused
  PROVE  Nearer
<1>1. /\ pc \in Objects /\ rr.got /\ pending' = TRUE /\ pc' = "idle" /\ rr' = NoPass
      /\ UNCHANGED <<specVars, objVars>>
  BY DEF CreateRefused, UpdateRefused, Fail
<1>2. Doomed
  <2>1. CASE CreateRefused
    <3>1. ASSUME rr.fresh PROVE pc \in RBAC /\ live["infra"] = Absent
      BY <2>1, <3>1 DEF CreateRefused, CreateAccepted, Room, IInv, CopiesTrue
    <3> QED
      BY <1>1, <3>1 DEF Doomed, HasCopy
  <2>2. CASE UpdateRefused
    BY <1>1, <2>2 DEF UpdateRefused, UpdateAccepted, Doomed, HasCopy
  <2> QED
    BY <2>1, <2>2
<1>3. ~Doomed'
  BY <1>1 DEF Doomed, HasCopy, NoPass, Objects, Namespaces, RBAC
<1>4. /\ Rank(pc) \in Nat /\ Rank(pc) >= 3 /\ Rank(pc') = 0 /\ Rank(pc') \in Nat
      /\ pending \in BOOLEAN /\ pending' \in BOOLEAN
  <2>1. pc \in {"grid", "infra", "Role", "RoleBinding"}
    BY <1>1, Four
  <2>2. pending \in BOOLEAN /\ pending' \in BOOLEAN
    BY <1>1 DEF IInv, TypeOK
  <2> QED
    BY <1>1, <2>1, <2>2, Ranks
<1>5. Steps' < Steps
  BY <1>2, <1>3, <1>4, StepsCompared
<1>6. \A o \in Objects : Stray(o)' => Stray(o)
  BY <1>1 DEF Stray, WillEnsure, WillDrop
<1> QED
  BY <1>1, <1>5, <1>6, NothingWritten DEF objVars

\* The informer's part: what it delivers was owed.
LEMMA DeliverNearer ==
  ASSUME IInv, NEW o \in Objects, Deliver(o)
  PROVE  Nearer
<1>1. /\ o \in stale /\ stale' = stale \ {o} /\ UNCHANGED <<specVars, live, pc, rr>>
  BY DEF Deliver
<1>2. ASSUME NEW p
      PROVE  (Lacking(p)' => Lacking(p)) /\ (Stray(p)' => Stray(p))
  BY <1>1, LackKept DEF Stray, WillEnsure, WillDrop, Wanted, Unwanted, specVars
<1>3. \A p \in Objects : Todo(p)' <= Todo(p)
  <2> SUFFICES ASSUME NEW p \in Objects PROVE Todo(p)' <= Todo(p)
    OBVIOUS
  <2>1. p \in stale' => p \in stale
    BY <1>1
  <2> QED
    BY <1>2, <2>1, TodoCompared, Zenon
<1>4. Todo(o)' < Todo(o)
  <2>1. o \notin stale'
    BY <1>1
  <2> QED
    BY <1>1, <1>2, <2>1, TodoCompared, Zenon
<1>5. Work' < Work
  BY <1>3, <1>4, WorkCompared, Zenon
<1> QED
  BY <1>5 DEF Nearer

\* One step per action.
LEMMA StepNearer ==
  ASSUME IInv, Next, UNCHANGED <<events, faults>>
  PROVE  Nearer
<1>0. events \in Nat /\ faults \in Nat /\ pending \in BOOLEAN
  <2>1. \A m \in Nat : \A n \in 0..m : n \in Nat
    OBVIOUS
  <2> QED
    BY <2>1, LimitsOK DEF IInv, TypeOK
<1>1. ~Event /\ ~Fault
  BY <1>0 DEF Event, Fault
<1>2. ASSUME NEW o \in Objects, Deliver(o) PROVE Nearer
  BY <1>2, DeliverNearer
<1>3. CASE Begin
  <2>1. /\ pc = "idle" /\ pending /\ pending' = FALSE /\ pc' \in {"grid", "dispatch"}
        /\ rr' = [maas |-> maas, grid |-> grid, got |-> FALSE, copy |-> Absent, fresh |-> FALSE]
        /\ UNCHANGED <<specVars, live, stale>>
    BY <1>3 DEF Begin, NoPass, objVars
  <2>2. ~HasCopy /\ ~Doomed'
    BY <2>1 DEF HasCopy, Doomed, Objects, Namespaces, RBAC
  <2>3. Rank(pc) = 0 /\ Rank(pc') \in Nat /\ Rank(pc') <= 10
    BY <2>1, Ranks
  <2>4. Steps' < Steps
    <3>1. Rank(pc) \in Nat
      BY <2>3
    <3>2. pending /\ ~pending' /\ pending' \in BOOLEAN
      BY <2>1, Zenon
    <3> QED
      BY <1>0, <2>2, <2>3, <3>1, <3>2, StepsCompared, Zenon
  <2>5. \A o \in Objects : ~Stray(o)'
    BY <2>1 DEF Stray, WillEnsure, WillDrop, Wanted, Unwanted, specVars
  <2> QED
    BY <2>1, <2>4, <2>5, NothingWritten
<1>4. CASE Dispatch
  <2>1. /\ pc = "dispatch" /\ UNCHANGED <<specVars, objVars, pending, rr>>
        /\ \/ pc' = "infra" /\ InfraSeparate /\ rr.maas = "Managed"
           \/ pc' = "dropRole" /\ InfraSeparate /\ rr.maas = "Removed" /\ completed
           \/ pc' = "rest"
    BY <1>4 DEF Dispatch
  <2>2. ~rr.got /\ ~HasCopy /\ ~HasCopy' /\ ~Doomed'
    BY <2>1 DEF IInv, CopiesTrue, HasCopy, Doomed, RBAC
  <2>3. Rank(pc) \in Nat /\ Rank(pc') \in Nat /\ Rank(pc') < Rank(pc)
    BY <2>1, Ranks
  <2>4. Steps' < Steps
    BY <1>0, <2>1, <2>2, <2>3, StepsCompared
  <2>5. \A o \in Objects : Stray(o)' => Stray(o)
    BY <2>1, OnTheWay
  <2> QED
    BY <2>1, <2>4, <2>5, NothingWritten DEF objVars
<1>5. CASE Get
  <2>1. /\ pc \in Objects /\ ~rr.got /\ pc' = pc /\ UNCHANGED <<specVars, objVars, pending>>
        /\ rr'.got /\ (rr'.fresh <=> pc \notin stale) /\ rr'.maas = rr.maas
    BY <1>5 DEF Get, IInv, TypeOK
  <2>2. ASSUME stale = {} PROVE Steps' < Steps
    <3>1. Doomed' => Doomed
      BY <2>1, <2>2 DEF Doomed, HasCopy, objVars
    <3>2. ~HasCopy /\ HasCopy' /\ Rank(pc) \in Nat /\ Rank(pc') \in Nat
      BY <2>1, Ranks, Four DEF HasCopy
    <3> QED
      BY <1>0, <2>1, <3>1, <3>2, StepsCompared
  <2>3. \A o \in Objects : Stray(o)' => Stray(o)
    BY <2>1, OnTheWay
  <2> QED
    BY <2>1, <2>2, <2>3, NothingWritten DEF objVars
<1>6. CASE Create
  <2> PICK o \in Objects : o = pc
    BY <1>6 DEF Create
  <2>1. /\ rr.got /\ live[o] = Absent /\ Write(o, Created(o)) /\ Proceed(After(o))
        /\ UNCHANGED <<specVars, pending>>
    BY <1>6 DEF Create, CreateAccepted
  <2>2. Created(o) \in StatesOf(o) /\ Created(o) # Absent
    BY CreatedTyped
  <2>3. ~Ensured(o)
    BY <2>1 DEF Ensured
  <2> QED
    BY <2>1, <2>2, <2>3, EnsureNearer
<1>7. CASE Update
  <2> PICK o \in Objects : o = pc
    BY <1>7 DEF Update
  <2>1. /\ rr.got /\ rr.copy # Absent /\ rr.fresh /\ NeedsUpdate(o, rr.copy)
        /\ Write(o, Updated(o, rr.copy)) /\ Proceed(After(o)) /\ UNCHANGED <<specVars, pending>>
    BY <1>7 DEF Update, UpdateAccepted
  <2>2. rr.copy = live[o] /\ rr.copy \in StatesOf(o)
    BY <2>1 DEF IInv, CopiesTrue
  <2>3. Updated(o, rr.copy) \in StatesOf(o)
    BY <2>2, WrittenTyped
  <2>4. Updated(o, rr.copy) # live[o] => ~Ensured(o)
    <3>1. CASE o \in Namespaces
      BY <2>1, <2>2, <3>1 DEF NeedsUpdate, Ensured
    <3>2. CASE o \notin Namespaces
      <4>1. live[o] \in RBACStates /\ Updated(o, rr.copy) = [right |-> TRUE, owned |-> TRUE]
        BY <2>2, <3>2 DEF StatesOf, Updated
      <4>2. \A x \in RBACStates : x.right /\ x.owned => x = [right |-> TRUE, owned |-> TRUE]
        BY DEF RBACStates
      <4> QED
        BY <3>2, <4>1, <4>2 DEF Ensured
    <3> QED
      BY <3>1, <3>2
  <2> QED
    BY <2>1, <2>2, <2>3, <2>4, EnsureNearer
<1>8. CASE LeaveAlone
  <2>1. /\ pc \in Objects /\ rr.got /\ rr.copy # Absent /\ pending' = pending
        /\ Proceed(After(pc)) /\ UNCHANGED <<specVars, live, stale>>
    BY <1>8 DEF LeaveAlone
  <2>2. rr'.maas = rr.maas /\ pc' = After(pc) /\ ~HasCopy'
    BY <2>1, OnToNext DEF IInv
  <2>3. pc = "infra" /\ rr.fresh => live["infra"] # Absent
    BY <2>1 DEF IInv, CopiesTrue
  <2>4. Steps' < Steps
    BY <2>1, <2>2, <2>3, NoNewObstacle, NextObject
  <2>5. \A o \in Objects : Stray(o)' => Stray(o)
    BY <2>1, <2>2, OnTheWay
  <2> QED
    BY <2>1, <2>4, <2>5, NothingWritten
<1>9. CASE DropRole
  BY <1>9, DropNearer DEF DropRole
<1>10. CASE DropRoleBinding
  BY <1>10, DropNearer DEF DropRoleBinding
<1>11. CASE EndPass
  <2>1. /\ pc = "rest" /\ pc' = "idle" /\ rr' = NoPass /\ UNCHANGED <<specVars, objVars, pending>>
    BY <1>11 DEF EndPass
  <2>2. ~HasCopy /\ ~HasCopy' /\ ~Doomed'
    BY <2>1 DEF HasCopy, Doomed, Objects, Namespaces, RBAC
  <2>3. Steps' < Steps
    BY <1>0, <2>1, <2>2, Ranks, StepsCompared
  <2>4. \A o \in Objects : Stray(o)' => Stray(o)
    BY <2>1 DEF Stray, WillEnsure, WillDrop
  <2> QED
    BY <2>1, <2>3, <2>4, NothingWritten DEF objVars
<1>12. CASE CreateRefused \/ UpdateRefused
  BY <1>12, RefusedNearer
<1> QED
  BY <1>1, <1>2, <1>3, <1>4, <1>5, <1>6, <1>7, <1>8, <1>9, <1>10, <1>11, <1>12
  DEF Next, OthersStep, OthersSet, OthersDelete, UserSets, DeploymentChanges, Enqueued,
      PassStep, PassFails

\* The measures cannot go down for ever.
LEMMA Measured == IInv => Work \in 0..28 /\ Steps \in 0..32
<1> SUFFICES ASSUME IInv PROVE Work \in 0..28 /\ Steps \in 0..32
  OBVIOUS
<1>1. ASSUME NEW o PROVE Todo(o) \in 0..7
  <2>1. PICK s \in {0, 1}, l \in {0, 2}, t \in {0, 4} : Todo(o) = s + l + t
    BY TodoParts, Zenon
  <2>2. s + l + t \in 0..7
    OBVIOUS
  <2> QED
    BY <2>1, <2>2, Zenon
<1>2. \A a, b, c, d \in 0..7 : a + b + c + d \in 0..28
  OBVIOUS
<1>3. Work \in 0..28
  BY <1>1, <1>2, Zenon DEF Work
<1>4. Rank(pc) \in 0..10 /\ (HasCopy => Rank(pc) >= 3)
  <2>1. pc \in {"idle", "rest", "dropRoleBinding", "dropRole", "dispatch"} \cup Objects
    BY Four DEF IInv, TypeOK, Labels
  <2> QED
    BY <2>1, Ranks, Four DEF HasCopy
<1>5. Steps \in 0..32
  <2>1. PICK h \in {0, 1}, p \in {0, 1}, d \in {0, 1} :
          Steps = Rank(pc) - h + 11 * (p + d) /\ (h = 1 <=> HasCopy)
    BY StepsParts, Zenon
  <2>2. \A r \in 0..10 : (h = 1 => r >= 3) => r - h + 11 * (p + d) \in 0..32
    OBVIOUS
  <2> QED
    BY <1>4, <2>1, <2>2, Zenon
<1> QED
  BY <1>3, <1>5

(* What PassesStop rests on: without events and faults, every step brings  *)
(* the end of the passes nearer, but for those made in vain with a copy    *)
(* that has been overtaken, and then the informer has something to         *)
(* deliver.  So between two events at most 28 writes change anything,      *)
(* though the Role and the RoleBinding are updated in every pass and a     *)
(* change of them asks for another (ensureSecretMigrateRole,               *)
(* ensureSecretMigrateRoleBinding).                                        *)
THEOREM PassesWindDown ==
  Spec => /\ [](Work \in 0..28 /\ Steps \in 0..32)
          /\ [][UNCHANGED <<events, faults>> => Nearer]_vars
<1>1. IInv /\ [Next]_vars => [UNCHANGED <<events, faults>> => Nearer]_vars
  BY StepNearer
<1> QED
  BY <1>1, Measured, AlwaysIInv, PTL DEF Spec
=============================================================================
