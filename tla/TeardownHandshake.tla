------------------------- MODULE TeardownHandshake -------------------------
(***************************************************************************)
(* What the operator and maas-controller promise each other about a        *)
(* removal, without passes, caches or garbage collection: the controller   *)
(* is asked to tear down, cleans up what it created, reports, and only     *)
(* then goes away.  MaaSLifecycle implements this in the environment named *)
(* SoundEnvironment.                                                       *)
(***************************************************************************)
VARIABLES
  stage,   \* "absent", "serving", "asked" to tear down, or "reported" done
  runtime  \* does what maas-controller created exist?

Stages == {"absent", "serving", "asked", "reported"}

\* A fresh cluster, or one a previous version of the operator has installed.
Init == \/ stage = "absent" /\ runtime = FALSE
        \/ stage = "serving" /\ runtime = TRUE

Install == stage = "absent" /\ stage' = "serving" /\ UNCHANGED runtime

Bootstrap == stage = "serving" /\ runtime' = TRUE /\ UNCHANGED stage

Ask == stage = "serving" /\ stage' = "asked" /\ UNCHANGED runtime

CleanUp == stage = "asked" /\ runtime /\ runtime' = FALSE /\ UNCHANGED stage

Report == stage = "asked" /\ ~runtime /\ stage' = "reported" /\ UNCHANGED runtime

Remove == stage = "reported" /\ stage' = "absent" /\ UNCHANGED runtime

Next == Install \/ Bootstrap \/ Ask \/ CleanUp \/ Report \/ Remove

hvars == <<stage, runtime>>

Spec == Init /\ [][Next]_hvars

\* Once asked, the controller is on its way out; the operator sees it through.
Fairness == WF_hvars(CleanUp) /\ WF_hvars(Report) /\ WF_hvars(Remove)
=============================================================================
