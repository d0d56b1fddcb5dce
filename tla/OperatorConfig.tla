--------------------------- MODULE OperatorConfig ---------------------------
(***************************************************************************)
(* How a process gets its configuration (pkg/config): defaults, then every *)
(* file of the mounted ConfigMap, one after the other, then environment    *)
(* variables.  It is read once.  The kubelet may bring the volume up to    *)
(* date meanwhile: it swaps the contents of all files at once, and adds    *)
(* and removes their names afterwards.                                     *)
(*                                                                         *)
(* A file is what it says about the keys, a function of some of them; a    *)
(* key-value file speaks of one.  Files are numbered in the order in which *)
(* the directory lists them.                                               *)
(***************************************************************************)
EXTENDS Naturals

CONSTANTS
  Absent,       \* "no such file"
  Malformed,    \* a structured file that does not parse
  Nothing,      \* "no value"; of an environment variable: unset or empty
  Keys,         \* the keys of Config
  Values,       \* what files and variables may say of a key
  Zero,         \* the zero value of a field
  Defaults,     \* what setDefaults says of each key
  Unfit,        \* the values that cannot be decoded into each key's field
  Files,        \* names of files
  Skipped,      \* those that begin with a dot or are directories
  Volumes,      \* contents the ConfigMap may have
  Environments, \* environments the process may have
  Paths,        \* ODH_MODULE_OPERATOR_CONFIGURATION_PATH: "unset", "directory" or "file"
  MaxUpdates,   \* bound: updates of the ConfigMap
  MaxKills      \* bound: kills of the process

Empty == [f \in Files |-> Absent]
Texts == UNION {[S -> Values] : S \in SUBSET Keys}

ASSUME FilesOK   == Files \subseteq Nat /\ Skipped \subseteq Files
ASSUME VolumesOK == Volumes \subseteq [Files -> Texts \cup {Absent, Malformed}]
ASSUME ValuesOK  == /\ Zero \in Values /\ Nothing \notin Values
                    /\ Defaults \in [Keys -> Values \cup {Nothing}]
                    /\ Environments \subseteq [Keys -> Values \cup {Nothing}]
                    /\ Unfit \in [Keys -> SUBSET Values]
                    /\ \A k \in Keys : Defaults[k] = Nothing => Zero \notin Unfit[k]
ASSUME MarksOK   == Absent \notin Texts /\ Malformed \notin Texts \cup {Absent}
ASSUME LimitsOK  == MaxUpdates \in Nat /\ MaxKills \in Nat

VARIABLES
  path, env, \* how the process was deployed
  volume,    \* what the files contain
  names,     \* what the directory lists
  pc,        \* "exited", "started", "reading" or "running"
  todo,      \* the names that are still to be read
  layer,     \* what the files read so far say
  cfg,       \* the Config the process runs with
  listed,    \* auxiliary: the names the load began with
  seen,      \* auxiliary: the contents there were while it read
  updates, kills

deployVars == <<path, env>>
volumeVars == <<volume, names, updates>>
loadVars   == <<pc, todo, layer, cfg, listed, seen>>
vars == <<path, env, volume, names, pc, todo, layer, cfg, listed, seen, updates, kills>>

NoLayer == [k \in Keys |-> Nothing]

NamesIn(w) == {f \in Files : w[f] # Absent}

Init ==
  /\ path \in Paths /\ env \in Environments
  /\ volume \in Volumes /\ names = NamesIn(volume)
  /\ pc = "exited" /\ todo = {} /\ layer = NoLayer /\ cfg = NoLayer
  /\ listed = {} /\ seen = {}
  /\ updates = 0 /\ kills = 0

---------------------------------------------------------------------------
(* The kubelet.                                                            *)

SwapContents(w) ==
  /\ updates < MaxUpdates /\ updates' = updates + 1
  /\ names = NamesIn(volume) /\ w # volume
  /\ volume' = w
  /\ seen' = IF pc = "reading" /\ todo # {} THEN seen \cup {w} ELSE seen
  /\ UNCHANGED <<deployVars, names, pc, todo, layer, cfg, listed, kills>>

AddName(f) ==
  /\ f \in NamesIn(volume) \ names /\ names' = names \cup {f}
  /\ UNCHANGED <<deployVars, volume, updates, loadVars, kills>>

RemoveName(f) ==
  /\ f \in names \ NamesIn(volume) /\ names' = names \ {f}
  /\ UNCHANGED <<deployVars, volume, updates, loadVars, kills>>

StartProcess ==
  /\ pc = "exited" /\ pc' = "started"
  /\ UNCHANGED <<deployVars, volumeVars, todo, layer, cfg, listed, seen, kills>>

Exit ==
  /\ pc' = "exited" /\ todo' = {} /\ layer' = NoLayer /\ cfg' = NoLayer
  /\ listed' = {} /\ seen' = {}

Kill ==
  /\ kills < MaxKills /\ kills' = kills + 1
  /\ pc # "exited" /\ Exit
  /\ UNCHANGED <<deployVars, volumeVars>>

---------------------------------------------------------------------------
(* Load.                                                                   *)

\* With a layer of no values, which setDefaults underlies.
Begin(files, contents) ==
  /\ pc = "started" /\ pc' = "reading"
  /\ todo' = files /\ listed' = files /\ seen' = {contents}
  /\ UNCHANGED <<deployVars, volumeVars, layer, cfg, kills>>

\* Without a path only defaults and environment variables are used.
LoadNoFiles == path = "unset" /\ Begin({}, Empty)

Listed_DotFilesToo == names

Listed == names \ Skipped

ListFiles == path = "directory" /\ Begin(Listed, volume)

\* The path of a file cannot be listed.
ListFails ==
  /\ path = "file" /\ pc = "started" /\ Exit
  /\ UNCHANGED <<deployVars, volumeVars, kills>>

IsNext(f) == f \in todo /\ \A g \in todo : f <= g

\* A file that is not there any more is passed over.
SkipVanished(f) ==
  /\ pc = "reading" /\ IsNext(f) /\ volume[f] = Absent
  /\ todo' = todo \ {f}
  /\ UNCHANGED <<deployVars, volumeVars, pc, layer, cfg, listed, seen, kills>>

Merged_KeepsFirst(l, text) ==
  [k \in Keys |-> IF k \in DOMAIN text /\ l[k] = Nothing THEN text[k] ELSE l[k]]

\* MergeConfigMap: what is merged last stands.
Merged(l, text) == [k \in Keys |-> IF k \in DOMAIN text THEN text[k] ELSE l[k]]

ReadFile(f) ==
  /\ pc = "reading" /\ IsNext(f) /\ volume[f] \notin {Absent, Malformed}
  /\ layer' = Merged(layer, volume[f])
  /\ todo' = todo \ {f}
  /\ UNCHANGED <<deployVars, volumeVars, pc, cfg, listed, seen, kills>>

\* A structured file that does not parse ends the load, and the process.
ParseFails(f) ==
  /\ pc = "reading" /\ IsNext(f) /\ volume[f] = Malformed
  /\ Exit
  /\ UNCHANGED <<deployVars, volumeVars, kills>>

\* bindEnv: a variable is looked up for the keys that are known by then.
Bound(k) == Defaults[k] # Nothing \/ layer[k] # Nothing

Default(k) == IF Defaults[k] # Nothing THEN Defaults[k] ELSE Zero

Effective_FilesFirst(k) ==
  IF layer[k] # Nothing THEN layer[k]
  ELSE IF Bound(k) /\ env[k] # Nothing THEN env[k] ELSE Default(k)

Effective(k) ==
  IF Bound(k) /\ env[k] # Nothing THEN env[k]
  ELSE IF layer[k] # Nothing THEN layer[k] ELSE Default(k)

Fits_Unchecked == TRUE

Fits == \A k \in Keys : Effective(k) \notin Unfit[k]

Unmarshal ==
  /\ pc = "reading" /\ todo = {} /\ Fits
  /\ cfg' = [k \in Keys |-> Effective(k)] /\ pc' = "running"
  /\ UNCHANGED <<deployVars, volumeVars, todo, layer, listed, seen, kills>>

UnmarshalFails ==
  /\ pc = "reading" /\ todo = {} /\ ~Fits
  /\ Exit
  /\ UNCHANGED <<deployVars, volumeVars, kills>>

---------------------------------------------------------------------------
KubeletStep == \E f \in Files : AddName(f) \/ RemoveName(f)

ProcessStep ==
  \/ StartProcess \/ LoadNoFiles \/ ListFiles \/ ListFails
  \/ \E f \in Files : SkipVanished(f) \/ ReadFile(f) \/ ParseFails(f)
  \/ Unmarshal \/ UnmarshalFails

Next == (\E w \in Volumes : SwapContents(w)) \/ KubeletStep \/ ProcessStep \/ Kill

Spec == Init /\ [][Next]_vars

\* The kubelet finishes an update and restarts the container; the process runs.
FairSpec == Spec /\ WF_vars(KubeletStep) /\ WF_vars(ProcessStep)

---------------------------------------------------------------------------
(* Properties.                                                             *)

\* Every variable stays in its range, and a process runs only with a Config whose
\* fields could be decoded (LoadFromFS).
TypeOK ==
  /\ path \in Paths /\ env \in Environments
  /\ volume \in Volumes /\ names \subseteq Files
  /\ pc \in {"exited", "started", "reading", "running"}
  /\ listed \subseteq Files \ Skipped /\ todo \subseteq listed
  /\ layer \in [Keys -> Values \cup {Nothing}]
  /\ cfg \in [Keys -> Values \cup {Nothing}]
  /\ seen \subseteq Volumes \cup {Empty}
  /\ updates \in 0..MaxUpdates /\ kills \in 0..MaxKills
  /\ pc = "running" => \A k \in Keys : cfg[k] \in Values \ Unfit[k]

\* The files that speak of a key.
Setters(w, k) ==
  {f \in Files \ Skipped : w[f] \notin {Absent, Malformed} /\ k \in DOMAIN w[f]}

\* "Values are loaded from (in order of precedence): 1. Struct field defaults 2.
\* ConfigMap files [...] 3. Environment variables" (Config), if the ConfigMap is w.
Documented(w, k, v) ==
  CASE env[k] # Nothing -> v = env[k]
    [] env[k] = Nothing /\ Setters(w, k) = {} -> v = Default(k)
    [] OTHER -> \E f \in Setters(w, k) : v = w[f][k] /\ \A g \in Setters(w, k) : g <= f

\* The one exception to what is documented (see EnvironmentOverrides): the variable
\* of a key that has no default and that no file speaks of.
Overlooked(w, k) == env[k] # Nothing /\ Defaults[k] = Nothing /\ Setters(w, k) = {}

\* The keys that the same files speak of in every version there was during the load.
Steady(S) == {k \in Keys : \A w \in seen : Setters(w, k) = S}

(* A running process has its values from the ConfigMap in the documented    *)
(* order, a variable that bindEnv overlooks apart.  If the ConfigMap changed *)
(* while it was read, this holds of one and the same version for all keys   *)
(* that one set of files speaks of, as long as they were listed; nothing is *)
(* promised of the others, which may fall back to their defaults though no  *)
(* version leaves them out, for a file that has gone is passed over in      *)
(* silence (loadFromFS).                                                    *)
LoadedFromOneVersion ==
  pc = "running" =>
    \A S \in SUBSET listed : \E w \in seen : \A k \in Steady(S) :
      IF Overlooked(w, k) THEN cfg[k] = Zero ELSE Documented(w, k, cfg[k])

(* "Environment variables that override configuration values" (EnvPrefix): *)
(* a variable that is set is the value of its key.  It is not for a key     *)
(* that setDefaults leaves out (pprof-addr) and no file names, of which     *)
(* bindEnv does not know (bindEnv).                                         *)
EnvironmentOverrides ==
  pc = "running" => \A k \in Keys : env[k] # Nothing => cfg[k] = env[k]

\* The ConfigMap and the variables have nothing in them that cannot be used.  A path
\* of "a single config file" (ConfigPathEnvVar) is not among what can: ListFails.
Loadable ==
  /\ path # "file"
  /\ LET w == IF path = "unset" THEN Empty ELSE volume
     IN  /\ \A f \in Files \ Skipped : w[f] # Malformed
         /\ \A k \in Keys, v \in Values : Documented(w, k, v) => v \notin Unfit[k]

(* A process that stopped at a ConfigMap it could not use runs some time    *)
(* after the ConfigMap has been put right: each restart reads it anew, and  *)
(* what is left of an update cannot fail the load for ever (Load).          *)
ConfigComes == <>[]Loadable => <>[](pc = "running")
=============================================================================
