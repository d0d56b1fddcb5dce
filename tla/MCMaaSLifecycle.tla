-------------------------- MODULE MCMaaSLifecycle --------------------------
(***************************************************************************)
(* TLC instances of MaaSLifecycle: one constant per environment the runs   *)
(* tell apart.                                                             *)
(***************************************************************************)
EXTENDS MaaSLifecycle

CONSTANTS rbac, gateway

\* maas-controller's own RBAC and CRDs; the ai-gateway-controller bundle.
MCCompanions == {rbac, gateway}
MCOneCompanion == {rbac}

UserStates == {"Managed", "Removed"}
AllStates  == {"Managed", "Removed", ""}
=============================================================================
