---------------------------- MODULE MCInfraRBAC -----------------------------
(***************************************************************************)
(* The TLC instance of InfraRBAC: the infrastructure namespace and a Role  *)
(* of that name were there before the operator, the other two were not, so *)
(* that every way an ensure function can go is taken from the start.       *)
(***************************************************************************)
EXTENDS InfraRBAC

Mixed ==
  {[o \in Objects |->
      CASE o = "infra" -> [labelled |-> FALSE, others |-> TRUE]
        [] o = "Role"  -> [right |-> FALSE, owned |-> FALSE]
        [] OTHER       -> Absent]}
=============================================================================
