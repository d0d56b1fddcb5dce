-------------------------- MODULE MCOperatorConfig --------------------------
(***************************************************************************)
(* The TLC instance of OperatorConfig and DerivedNamespaces.  One key has  *)
(* no default, one can be given a value its field does not take.  Labels   *)
(* have up to 8 characters, the suffix and the hash have 2: names of up to *)
(* 6 characters fit, longer ones keep 3, of which two may be dashes.       *)
(***************************************************************************)
EXTENDS DerivedNamespaces, TLC

MCCharacters == {"a", "b", "g", "o", "t", "f", "m", "-"}
MCSuffix     == <<"-", "g">>
MCHash(n)    == IF Len(n) = 7 THEN <<"a", "b">> ELSE <<"b", "a">>

Platform == <<"o">>
MCPlatformNS   == {Platform}
MCPlatformGrid == Platform :> <<"o", "b">>

True == <<"t">>
False == <<"f">>
Maybe == <<"m">>
None  == <<>>
Six   == <<"a", "b", "-", "b", "b", "a">>
Seven == <<"a", "b", "-", "-", "b", "b", "a">>
Eight == <<"a", "-", "-", "b", "b", "a", "b", "b">>

MCKeys     == {"applications-namespace", "metrics-secure", "pprof-addr"}
MCValues   == {Platform, Six, Seven, Eight, True, False, Maybe, None}
MCDefaults == "applications-namespace" :> Platform @@ "metrics-secure" :> False
              @@ "pprof-addr" :> Nothing
MCUnfit    == [k \in MCKeys |->
                 IF k = "metrics-secure" THEN {Platform, Six, Seven, Eight, Maybe} ELSE {}]

Unset == [k \in MCKeys |-> Nothing]
MCEnvironments ==
  {Unset, [Unset EXCEPT !["applications-namespace"] = Eight, !["pprof-addr"] = Six],
          [Unset EXCEPT !["metrics-secure"] = True]}

\* A dot file, config.yaml, metrics-secure, and operator.yaml.
MCFiles   == 1..4
MCSkipped == {1}

\* The same keys in the same files twice, a file renamed, a value another file covers
\* up, one that none covers up, and a structured file that does not parse.
MCVolumes ==
  {<<Malformed, "applications-namespace" :> Six @@ "metrics-secure" :> True,
     "metrics-secure" :> False, Absent>>,
   <<Malformed, "applications-namespace" :> Seven @@ "metrics-secure" :> Maybe,
     "metrics-secure" :> True, Absent>>,
   <<Absent, Absent, "metrics-secure" :> False,
     "applications-namespace" :> Seven @@ "pprof-addr" :> Six>>,
   <<Absent, "applications-namespace" :> None @@ "metrics-secure" :> Maybe, Absent, Absent>>,
   <<Absent, Malformed, "metrics-secure" :> True, "pprof-addr" :> None>>}
=============================================================================
