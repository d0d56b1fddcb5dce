------------------------- MODULE MCStatusConditions -------------------------
(* Instances of StatusConditions for TLC: which sub-modules the user       *)
(* switches, and what Config/default may say.                              *)
EXTENDS StatusConditions

MaaSOnly  == {"maas"}
MaaSGrid  == {"maas", "grid"}
BatchGrid == {"batch", "grid"}

\* Bootstrapping, healthy, and wrong in one respect each.
Serving1 == [ready |-> "True", tenants |-> "NoTenantsFound"]
FewOperands == {Missing, Serving1, [ready |-> "False", tenants |-> "unset"],
                [ready |-> "True", tenants |-> "TenantsBlocked"]}
NoOperands  == {Missing}
=============================================================================
