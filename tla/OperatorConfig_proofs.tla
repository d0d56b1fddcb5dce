----------------------- MODULE OperatorConfig_proofs ------------------------
(***************************************************************************)
(* Proofs about OperatorConfig, for any files, contents, environments and  *)
(* bounds.                                                                 *)
(***************************************************************************)
EXTENDS OperatorConfig, TLAPS

---------------------------------------------------------------------------
(* The invariant.                                                          *)

Done == listed \ todo

\* File f speaks of key k in version w.
Speaks(w, f, k) == w[f] \notin {Absent, Malformed} /\ k \in DOMAIN w[f]

\* The layer l is what the files D say, each in the version ver has for it.
Says(l, D, ver) ==
  \A k \in Keys :
    \/ l[k] = Nothing /\ \A f \in D : ~Speaks(ver[f], f, k)
    \/ \E f \in D : /\ Speaks(ver[f], f, k) /\ l[k] = ver[f][f][k]
                    /\ \A g \in D : Speaks(ver[g], g, k) => g <= f

\* Files are read in order, each in some version there was meanwhile.
ReadInOrder ==
  pc \in {"reading", "running"} =>
    /\ seen # {} /\ (\E ver \in [Done -> seen] : Says(layer, Done, ver))
    /\ \A d \in Done, t \in todo : d < t

VolumeSeen == todo # {} => pc = "reading" /\ volume \in seen

\* A process that has not loaded has no values; one that has, has those of the layer.
CfgIsEffective ==
  /\ pc \in {"exited", "started"} => layer = NoLayer
  /\ pc = "running" => todo = {} /\ \A k \in Keys : cfg[k] = Effective(k)

IInv == TypeOK /\ ReadInOrder /\ VolumeSeen /\ CfgIsEffective

---------------------------------------------------------------------------
\* What is not there is no value, and what is there is.
LEMMA NoLayerTyped == NoLayer \in [Keys -> Values \cup {Nothing}]
BY DEF NoLayer

\* Every field gets a value.
LEMMA EffectiveTyped ==
  ASSUME TypeOK, NEW k \in Keys
  PROVE  Effective(k) \in Values
<1>1. layer[k] \in Values \cup {Nothing} /\ Defaults[k] \in Values \cup {Nothing}
      /\ env[k] \in Values \cup {Nothing} /\ Zero \in Values
  BY ValuesOK DEF TypeOK
<1> QED
  BY <1>1 DEF Effective, Default

\* What a file says is a function of some keys.
LEMMA TextOf ==
  ASSUME TypeOK, NEW f \in Files, volume[f] \notin {Absent, Malformed}
  PROVE  volume[f] \in Texts
BY VolumesOK DEF TypeOK

\* Merging keeps the layer well typed, and puts what was merged on top.
LEMMA MergedTyped ==
  ASSUME NEW l \in [Keys -> Values \cup {Nothing}], NEW t \in Texts
  PROVE  /\ Merged(l, t) \in [Keys -> Values \cup {Nothing}]
         /\ \A k \in Keys : k \in DOMAIN t => Merged(l, t)[k] = t[k]
         /\ \A k \in Keys : k \notin DOMAIN t => Merged(l, t)[k] = l[k]
<1>1. PICK S \in SUBSET Keys : t \in [S -> Values]
  BY DEF Texts
<1>2. \A k \in Keys : k \in DOMAIN t => t[k] \in Values
  BY <1>1
<1> QED
  BY <1>2 DEF Merged

\* The invariant holds initially.
LEMMA InitInv == Init => IInv
<1> SUFFICES ASSUME Init PROVE IInv
  OBVIOUS
<1>1. TypeOK
  BY NoLayerTyped, LimitsOK DEF Init, TypeOK, NamesIn
<1>2. ReadInOrder /\ VolumeSeen /\ CfgIsEffective
  BY DEF Init, ReadInOrder, VolumeSeen, CfgIsEffective
<1> QED
  BY <1>1, <1>2 DEF IInv

\* A process that ends leaves nothing behind.
LEMMA ExitPreserves ==
  ASSUME IInv, Exit, UNCHANGED <<deployVars, volumeVars>>, kills' \in 0..MaxKills
  PROVE  IInv'
<1>1. TypeOK'
  BY NoLayerTyped DEF IInv, TypeOK, Exit, deployVars, volumeVars
<1>2. ReadInOrder' /\ VolumeSeen' /\ CfgIsEffective'
  BY DEF Exit, ReadInOrder, VolumeSeen, CfgIsEffective
<1> QED
  BY <1>1, <1>2 DEF IInv

\* A load begins with nothing read.
LEMMA BeginPreserves ==
  ASSUME IInv, NEW files \in SUBSET (Files \ Skipped), NEW w \in Volumes \cup {Empty},
         files # {} => w = volume, Begin(files, w)
  PROVE  IInv'
<1>1. TypeOK'
  BY DEF IInv, TypeOK, Begin, deployVars, volumeVars
<1>2. layer' = NoLayer /\ Done' = {}
  BY DEF IInv, CfgIsEffective, Begin, Done
<1>3. \E ver \in [{} -> seen'] : Says(layer', {}, ver)
  <2> DEFINE none == [x \in {} |-> w]
  <2>1. none \in [{} -> seen']
    OBVIOUS
  <2>2. Says(layer', {}, none)
    BY <1>2 DEF Says, NoLayer
  <2> QED
    BY <2>1, <2>2
<1>4. ReadInOrder'
  BY <1>2, <1>3 DEF ReadInOrder, Begin
<1>5. VolumeSeen' /\ CfgIsEffective'
  BY DEF VolumeSeen, CfgIsEffective, Begin, volumeVars
<1> QED
  BY <1>1, <1>4, <1>5 DEF IInv

\* What a load has read so far is not changed by what becomes of the volume.
LEMMA SeenGrows ==
  ASSUME IInv, UNCHANGED <<env, pc, todo, layer, cfg, listed>>, seen \subseteq seen'
  PROVE  ReadInOrder' /\ CfgIsEffective'
<1>1. Done' = Done
  BY DEF Done
<1>2. ReadInOrder'
  <2> SUFFICES ASSUME pc \in {"reading", "running"}
               PROVE  /\ seen' # {} /\ (\E ver \in [Done -> seen'] : Says(layer, Done, ver))
                      /\ \A d \in Done, t \in todo : d < t
    BY <1>1 DEF ReadInOrder
  <2>1. PICK ver \in [Done -> seen] : Says(layer, Done, ver)
    BY DEF IInv, ReadInOrder
  <2>2. ver \in [Done -> seen']
    OBVIOUS
  <2> QED
    BY <2>1, <2>2 DEF IInv, ReadInOrder
<1>3. CfgIsEffective'
  BY DEF IInv, CfgIsEffective, Effective, Bound
<1> QED
  BY <1>2, <1>3

\* The next file has been read in the present version: what it says is on top.
LEMMA NextRead ==
  ASSUME IInv, NEW f \in Files, pc = "reading", IsNext(f),
         todo' = todo \ {f}, UNCHANGED <<pc, listed, seen>>,
         layer' \in [Keys -> Values \cup {Nothing}],
         \A k \in Keys : IF Speaks(volume, f, k) THEN layer'[k] = volume[f][k]
                                                 ELSE layer'[k] = layer[k]
  PROVE  ReadInOrder'
<1>1. f \in listed /\ f \notin Done /\ Done' = Done \cup {f}
  BY DEF IInv, TypeOK, IsNext, Done
<1>2. volume \in seen
  BY DEF IInv, VolumeSeen, IsNext
<1>3. PICK ver \in [Done -> seen] : Says(layer, Done, ver)
  BY DEF IInv, ReadInOrder
<1> DEFINE new == [d \in Done \cup {f} |-> IF d = f THEN volume ELSE ver[d]]
<1>4. /\ new \in [Done' -> seen'] /\ new[f] = volume
      /\ \A d \in Done : new[d] = ver[d]
  BY <1>1, <1>2, <1>3
<1>5. Done \subseteq Nat /\ f \in Nat /\ todo \subseteq Nat
  BY FilesOK DEF IInv, TypeOK, Done
<1>6. \A d \in Done : d < f
  BY DEF IInv, ReadInOrder, IsNext
<1> HIDE DEF new
<1>7. Says(layer', Done', new)
  <2> SUFFICES ASSUME NEW k \in Keys
               PROVE  \/ layer'[k] = Nothing /\ \A d \in Done' : ~Speaks(new[d], d, k)
                      \/ \E d \in Done' : /\ Speaks(new[d], d, k) /\ layer'[k] = new[d][d][k]
                                          /\ \A g \in Done' : Speaks(new[g], g, k) => g <= d
    BY DEF Says
  <2>1. CASE Speaks(volume, f, k)
    <3>1. Speaks(new[f], f, k) /\ layer'[k] = new[f][f][k]
      BY <1>4, <2>1
    <3>2. \A g \in Done' : g <= f
      BY <1>1, <1>5, <1>6
    <3> QED
      BY <1>1, <3>1, <3>2
  <2>2. CASE ~Speaks(volume, f, k)
    <3>1. layer'[k] = layer[k] /\ ~Speaks(new[f], f, k)
      BY <1>4, <2>2
    <3>2. CASE layer[k] = Nothing /\ \A d \in Done : ~Speaks(ver[d], d, k)
      BY <1>1, <1>4, <3>1, <3>2
    <3>3. CASE \E d \in Done : /\ Speaks(ver[d], d, k) /\ layer[k] = ver[d][d][k]
                               /\ \A g \in Done : Speaks(ver[g], g, k) => g <= d
      <4>1. PICK d \in Done : /\ Speaks(ver[d], d, k) /\ layer[k] = ver[d][d][k]
                              /\ \A g \in Done : Speaks(ver[g], g, k) => g <= d
        BY <3>3
      <4>2. Speaks(new[d], d, k) /\ layer'[k] = new[d][d][k]
        BY <1>4, <3>1, <4>1
      <4>3. \A g \in Done' : Speaks(new[g], g, k) => g <= d
        BY <1>1, <1>4, <3>1, <4>1
      <4> QED
        BY <1>1, <4>2, <4>3
    <3> QED
      BY <1>3, <3>2, <3>3 DEF Says
  <2> QED
    BY <2>1, <2>2
<1>8. \A d \in Done', t \in todo' : d < t
  <2>1. \A t \in todo' : f <= t /\ f # t /\ t \in todo
    BY DEF IsNext
  <2>2. \A d \in Done, t \in todo : d < t
    BY DEF IInv, ReadInOrder
  <2> QED
    BY <1>1, <1>5, <2>1, <2>2
<1> QED
  BY <1>2, <1>4, <1>7, <1>8 DEF ReadInOrder

---------------------------------------------------------------------------
\* One step per action.
LEMMA StepInv ==
  ASSUME IInv, [Next]_vars
  PROVE  IInv'
<1>0. kills \in 0..MaxKills /\ updates \in 0..MaxUpdates
  BY DEF IInv, TypeOK
<1>1. ASSUME NEW w \in Volumes, SwapContents(w)
      PROVE  IInv'
  <2>1. updates' \in 0..MaxUpdates
    BY <1>0, <1>1, LimitsOK DEF SwapContents
  <2>2. TypeOK'
    BY <1>1, <2>1 DEF SwapContents, IInv, TypeOK, deployVars
  <2>3. ReadInOrder' /\ CfgIsEffective'
    BY <1>1, SeenGrows DEF SwapContents, deployVars
  <2>4. VolumeSeen'
    BY <1>1 DEF SwapContents, IInv, VolumeSeen
  <2> QED
    BY <2>2, <2>3, <2>4 DEF IInv
<1>2. ASSUME NEW f \in Files, AddName(f) \/ RemoveName(f)
      PROVE  IInv'
  <2>1. names' \subseteq Files /\ UNCHANGED <<deployVars, volume, updates, loadVars, kills>>
    BY <1>2 DEF AddName, RemoveName, NamesIn, IInv, TypeOK
  <2>2. TypeOK' /\ VolumeSeen'
    BY <2>1 DEF IInv, TypeOK, VolumeSeen, deployVars, loadVars
  <2>3. ReadInOrder' /\ CfgIsEffective'
    BY <2>1, SeenGrows DEF deployVars, loadVars
  <2> QED
    BY <2>2, <2>3 DEF IInv
<1>3. CASE StartProcess
  <2>1. TypeOK' /\ VolumeSeen'
    BY <1>3 DEF StartProcess, IInv, TypeOK, VolumeSeen, deployVars, volumeVars
  <2>2. ReadInOrder' /\ CfgIsEffective'
    BY <1>3 DEF StartProcess, IInv, ReadInOrder, CfgIsEffective
  <2> QED
    BY <2>1, <2>2 DEF IInv
<1>4. CASE LoadNoFiles
  BY <1>4, BeginPreserves DEF LoadNoFiles
<1>5. CASE ListFiles
  <2>1. Listed \in SUBSET (Files \ Skipped) /\ volume \in Volumes \cup {Empty}
    BY DEF Listed, IInv, TypeOK
  <2> QED
    BY <1>5, <2>1, BeginPreserves DEF ListFiles
<1>6. CASE ListFails
  BY <1>0, <1>6, ExitPreserves DEF ListFails
<1>7. ASSUME NEW f \in Files, SkipVanished(f)
      PROVE  IInv'
  <2>1. /\ UNCHANGED <<deployVars, volumeVars, pc, layer, cfg, listed, seen, kills>>
        /\ pc = "reading" /\ IsNext(f) /\ todo' = todo \ {f}
        /\ \A k \in Keys : ~Speaks(volume, f, k)
    BY <1>7 DEF SkipVanished, Speaks
  <2>2. TypeOK' /\ VolumeSeen' /\ CfgIsEffective'
    BY <2>1 DEF IInv, TypeOK, VolumeSeen, CfgIsEffective, deployVars, volumeVars
  <2>3. layer' \in [Keys -> Values \cup {Nothing}]
    BY <2>1 DEF IInv, TypeOK
  <2>4. ReadInOrder'
    BY <2>1, <2>3, NextRead
  <2> QED
    BY <2>2, <2>4 DEF IInv
<1>8. ASSUME NEW f \in Files, ReadFile(f)
      PROVE  IInv'
  <2>1. /\ UNCHANGED <<deployVars, volumeVars, pc, cfg, listed, seen, kills>>
        /\ pc = "reading" /\ IsNext(f) /\ todo' = todo \ {f}
        /\ volume[f] \notin {Absent, Malformed} /\ layer' = Merged(layer, volume[f])
    BY <1>8 DEF ReadFile
  <2>2. layer \in [Keys -> Values \cup {Nothing}] /\ volume[f] \in Texts
    BY <2>1, TextOf DEF IInv, TypeOK
  <2>3. /\ layer' \in [Keys -> Values \cup {Nothing}]
        /\ \A k \in Keys : IF Speaks(volume, f, k) THEN layer'[k] = volume[f][k]
                                                   ELSE layer'[k] = layer[k]
    BY <2>1, <2>2, MergedTyped DEF Speaks
  <2>4. TypeOK' /\ VolumeSeen' /\ CfgIsEffective'
    BY <2>1, <2>3 DEF IInv, TypeOK, VolumeSeen, CfgIsEffective, deployVars, volumeVars
  <2>5. ReadInOrder'
    BY <2>1, <2>3, NextRead
  <2> QED
    BY <2>4, <2>5 DEF IInv
<1>9. ASSUME NEW f \in Files, ParseFails(f)
      PROVE  IInv'
  BY <1>0, <1>9, ExitPreserves DEF ParseFails
<1>10. CASE Unmarshal
  <2>1. /\ UNCHANGED <<deployVars, volumeVars, todo, layer, listed, seen, kills>>
        /\ pc = "reading" /\ pc' = "running" /\ todo = {}
        /\ \A k \in Keys : cfg'[k] = Effective(k) /\ Effective(k) \notin Unfit[k]
        /\ cfg' = [k \in Keys |-> Effective(k)]
    BY <1>10 DEF Unmarshal, Fits
  <2>2. \A k \in Keys : Effective(k) \in Values
    BY EffectiveTyped DEF IInv
  <2>3. cfg' \in [Keys -> Values \cup {Nothing}]
    BY <2>1, <2>2
  <2>4. TypeOK'
    BY <2>1, <2>2, <2>3 DEF IInv, TypeOK, deployVars, volumeVars
  <2>5. ReadInOrder'
    BY <2>1 DEF IInv, ReadInOrder, Done
  <2>6. VolumeSeen' /\ CfgIsEffective'
    BY <2>1 DEF VolumeSeen, CfgIsEffective, Effective, Bound, deployVars
  <2> QED
    BY <2>4, <2>5, <2>6 DEF IInv
<1>11. CASE UnmarshalFails
  BY <1>0, <1>11, ExitPreserves DEF UnmarshalFails
<1>12. CASE Kill
  <2>1. kills' \in 0..MaxKills
    BY <1>0, <1>12, LimitsOK DEF Kill
  <2> QED
    BY <1>12, <2>1, ExitPreserves DEF Kill
<1>13. CASE UNCHANGED vars
  <2>1. TypeOK' /\ VolumeSeen'
    BY <1>13 DEF vars, IInv, TypeOK, VolumeSeen
  <2>2. ReadInOrder' /\ CfgIsEffective'
    BY <1>13, SeenGrows DEF vars
  <2> QED
    BY <2>1, <2>2 DEF IInv
<1> QED
  BY <1>1, <1>2, <1>3, <1>4, <1>5, <1>6, <1>7, <1>8, <1>9, <1>10, <1>11, <1>12, <1>13
  DEF Next, KubeletStep, ProcessStep

\* What the invariants below rest on.
LEMMA AlwaysIInv == Spec => []IInv
BY InitInv, StepInv, PTL DEF Spec

---------------------------------------------------------------------------
(* The properties.                                                         *)

(* Every variable stays in its range, and a process runs only with a       *)
(* Config whose fields could all be decoded (LoadFromFS).                  *)
THEOREM ConfigTypeCorrect == Spec => []TypeOK
<1>1. IInv => TypeOK
  BY DEF IInv
<1> QED
  BY <1>1, AlwaysIInv, PTL

\* With the files of a key the same in every version, the last of them was read.
LEMMA SteadyKey ==
  ASSUME IInv, NEW S \in SUBSET listed, NEW k \in Steady(S),
         NEW ver \in [listed -> seen], Says(layer, listed, ver)
  PROVE  \/ S = {} /\ layer[k] = Nothing
         \/ \E f \in S : layer[k] = ver[f][f][k] /\ layer[k] # Nothing /\ \A g \in S : g <= f
<1>1. /\ k \in Keys /\ \A w \in seen : Setters(w, k) = S
      /\ listed \subseteq Files \ Skipped
  BY DEF Steady, IInv, TypeOK
<1>2. \A f \in listed : Speaks(ver[f], f, k) <=> f \in S
  BY <1>1 DEF Speaks, Setters
<1>3. \A f \in listed : Speaks(ver[f], f, k) => ver[f][f][k] # Nothing
  <2> SUFFICES ASSUME NEW f \in listed, Speaks(ver[f], f, k)
               PROVE  ver[f][f][k] # Nothing
    OBVIOUS
  <2>1. ver[f] \in [Files -> Texts \cup {Absent, Malformed}]
    <3>1. ver[f] \in Volumes \cup {Empty}
      BY DEF IInv, TypeOK
    <3>2. Empty \in [Files -> Texts \cup {Absent, Malformed}]
      BY DEF Empty
    <3> QED
      BY <3>1, <3>2, VolumesOK
  <2>2. ver[f][f] \in Texts
    BY <1>1, <2>1 DEF Speaks
  <2>3. PICK T \in SUBSET Keys : ver[f][f] \in [T -> Values]
    BY <2>2 DEF Texts
  <2>4. ver[f][f][k] \in Values
    BY <2>3 DEF Speaks
  <2> QED
    BY <2>4, ValuesOK
<1>4. CASE layer[k] = Nothing /\ \A f \in listed : ~Speaks(ver[f], f, k)
  BY <1>2, <1>4
<1>5. CASE \E f \in listed : /\ Speaks(ver[f], f, k) /\ layer[k] = ver[f][f][k]
                             /\ \A g \in listed : Speaks(ver[g], g, k) => g <= f
  BY <1>2, <1>3, <1>5
<1> QED
  BY <1>1, <1>4, <1>5 DEF Says

\* What the documentation says of a value, and what is the case where it does not hold.
AsDocumented(w, k, v) == IF Overlooked(w, k) THEN v = Zero ELSE Documented(w, k, v)

(* The configuration of a running process comes from one version of the    *)
(* ConfigMap for all keys that the same files speak of, however often the  *)
(* volume changed while it was read, and in the documented order: only a   *)
(* key without a default and without a file does not have the value of its *)
(* variable, but the zero value (LoadFromFS, loadFromFS, bindEnv).         *)
THEOREM ConfigFromOneVersion == Spec => []LoadedFromOneVersion
<1>1. IInv => LoadedFromOneVersion
  <2> SUFFICES ASSUME IInv, pc = "running", NEW S \in SUBSET listed
               PROVE  \E w \in seen : \A k \in Steady(S) : AsDocumented(w, k, cfg[k])
    BY DEF LoadedFromOneVersion, AsDocumented
  <2>1. Done = listed /\ seen # {} /\ listed \subseteq Nat
    BY FilesOK DEF IInv, CfgIsEffective, ReadInOrder, Done, TypeOK
  <2>2. PICK ver \in [listed -> seen] : Says(layer, listed, ver)
    BY <2>1 DEF IInv, ReadInOrder
  <2>3. \A k \in Steady(S) : k \in Keys /\ cfg[k] = Effective(k) /\ \A w \in seen : Setters(w, k) = S
    BY DEF Steady, IInv, CfgIsEffective
  <2>4. CASE S = {}
    <3>1. PICK w \in seen : TRUE
      BY <2>1
    <3>2. ASSUME NEW k \in Steady(S) PROVE AsDocumented(w, k, cfg[k])
      <4>1. layer[k] = Nothing
        BY <2>2, <2>4, SteadyKey
      <4> QED
        BY <2>3, <2>4, <4>1 DEF AsDocumented, Documented, Overlooked, Effective, Bound, Default
    <3> QED
      BY <3>2
  <2>5. CASE S # {} /\ Steady(S) # {}
    <3>1. PICK j \in Steady(S) : TRUE
      BY <2>5
    <3>2. PICK f \in S : \A g \in S : g <= f
      BY <2>2, <2>5, SteadyKey
    <3>3. ASSUME NEW k \in Steady(S) PROVE AsDocumented(ver[f], k, cfg[k])
      <4>1. PICK h \in S : layer[k] = ver[h][h][k] /\ layer[k] # Nothing /\ \A g \in S : g <= h
        BY <2>2, <2>5, SteadyKey
      <4>2. h = f
        BY <2>1, <3>2, <4>1
      <4>3. Setters(ver[f], k) = S /\ cfg[k] = Effective(k)
        BY <2>3
      <4>4. Effective(k) = IF env[k] # Nothing THEN env[k] ELSE ver[f][f][k]
        BY <4>1, <4>2 DEF Effective, Bound
      <4> QED
        BY <2>5, <3>2, <4>3, <4>4 DEF AsDocumented, Documented, Overlooked
    <3>4. ver[f] \in seen
      OBVIOUS
    <3> QED
      BY <3>3, <3>4
  <2>6. CASE Steady(S) = {}
    BY <2>1, <2>6
  <2> QED
    BY <2>4, <2>5, <2>6
<1> QED
  BY <1>1, AlwaysIInv, PTL

(* The variables of keys that setDefaults knows always win: the variable    *)
(* that EnvironmentOverrides misses is one of a key without a default       *)
(* (bindEnv).                                                               *)
THEOREM KnownVariablesOverride ==
  Spec => [](pc = "running" =>
               \A k \in Keys : Defaults[k] # Nothing /\ env[k] # Nothing => cfg[k] = env[k])
<1>1. IInv => (pc = "running" =>
                 \A k \in Keys : Defaults[k] # Nothing /\ env[k] # Nothing => cfg[k] = env[k])
  BY DEF IInv, CfgIsEffective, Effective, Bound
<1> QED
  BY <1>1, AlwaysIInv, PTL

\* What a load has to go by.
Source == IF path = "unset" THEN Empty ELSE volume

\* A load that has met one version of the ConfigMap only, and all of its files.
Undisturbed ==
  /\ pc = "reading" /\ seen = {Source}
  /\ NamesIn(Source) \ Skipped \subseteq listed

\* An undisturbed load ends with the values that are documented for what it read, or
\* overlooks a variable.
LEMMA UndisturbedDocumented ==
  ASSUME IInv, Undisturbed, todo = {}, NEW k \in Keys
  PROVE  AsDocumented(Source, k, Effective(k))
<1> DEFINE S == Setters(Source, k)
<1>1. Done = listed /\ listed \subseteq Files
  BY DEF Undisturbed, Done, IInv, TypeOK
<1>2. S \in SUBSET listed
  BY DEF Undisturbed, Setters, NamesIn
<1>3. k \in Steady(S)
  BY DEF Undisturbed, Steady
<1>4. PICK ver \in [listed -> seen] : Says(layer, listed, ver)
  BY <1>1 DEF IInv, ReadInOrder, Undisturbed
<1>5. \A f \in listed : ver[f] = Source
  BY <1>4 DEF Undisturbed
<1>6. \/ S = {} /\ layer[k] = Nothing
      \/ \E f \in S : layer[k] = ver[f][f][k] /\ layer[k] # Nothing /\ \A g \in S : g <= f
  BY <1>2, <1>3, <1>4, SteadyKey
<1> HIDE DEF S
<1>7. CASE S = {} /\ layer[k] = Nothing
  BY <1>7 DEF AsDocumented, Documented, Overlooked, Effective, Bound, Default, S
<1>8. CASE \E f \in S : layer[k] = ver[f][f][k] /\ layer[k] # Nothing /\ \A g \in S : g <= f
  <2>1. PICK f \in S : layer[k] = Source[f][k] /\ layer[k] # Nothing /\ \A g \in S : g <= f
    BY <1>2, <1>5, <1>8
  <2>2. Effective(k) = IF env[k] # Nothing THEN env[k] ELSE Source[f][k]
    BY <2>1 DEF Effective, Bound
  <2> QED
    BY <2>1, <2>2 DEF AsDocumented, Documented, Overlooked, S
<1> QED
  BY <1>6, <1>7, <1>8

(* A ConfigMap that is in order and stays as it is does not fail the load: *)
(* only an update under way, or the end of the process for another reason, *)
(* keeps the Config from coming.  ConfigComes rests on this, and on the    *)
(* process being started again until it is left alone (LoadFromFS).        *)
THEOREM FitConfigLoads ==
  Spec => [][Undisturbed /\ Loadable /\ UNCHANGED kills => pc' # "exited"]_vars
<1>1. ASSUME IInv, Next, Undisturbed, Loadable, UNCHANGED kills PROVE pc' # "exited"
  <2>1. ASSUME NEW f \in Files, ParseFails(f) PROVE FALSE
    <3>1. f \in todo /\ volume[f] = Malformed /\ f \in Files \ Skipped
      BY <1>1, <2>1 DEF ParseFails, IsNext, IInv, TypeOK
    <3>2. volume = Source
      BY <1>1, <3>1 DEF IInv, VolumeSeen, Undisturbed
    <3> QED
      BY <1>1, <3>1, <3>2 DEF Loadable, Source
  <2>2. CASE UnmarshalFails
    <3>1. PICK k \in Keys : Effective(k) \in Unfit[k]
      BY <2>2 DEF UnmarshalFails, Fits
    <3>2. AsDocumented(Source, k, Effective(k))
      BY <2>2, <1>1, UndisturbedDocumented DEF UnmarshalFails
    <3>3. Effective(k) \in Values
      BY <1>1, EffectiveTyped DEF IInv
    <3> QED
      BY <1>1, <3>1, <3>2, <3>3, ValuesOK DEF Loadable, Source, AsDocumented, Overlooked
  <2>3. CASE Kill
    <3>1. kills \in Nat
      BY <1>1, LimitsOK DEF IInv, TypeOK
    <3> QED
      BY <1>1, <2>3, <3>1 DEF Kill
  <2>4. ASSUME pc' = "exited", ~UnmarshalFails, ~Kill PROVE \E f \in Files : ParseFails(f)
    BY <1>1, <2>4
    DEF Next, SwapContents, KubeletStep, AddName, RemoveName, ProcessStep, StartProcess,
        LoadNoFiles, ListFiles, ListFails, Begin, SkipVanished, ReadFile, Unmarshal,
        Undisturbed, loadVars
  <2> QED
    BY <2>1, <2>2, <2>3, <2>4
<1>2. IInv /\ [Next]_vars =>
        [Undisturbed /\ Loadable /\ UNCHANGED kills => pc' # "exited"]_vars
  BY <1>1
<1> QED
  BY <1>2, AlwaysIInv, PTL DEF Spec
=============================================================================
