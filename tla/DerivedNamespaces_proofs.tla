---------------------- MODULE DerivedNamespaces_proofs ----------------------
(***************************************************************************)
(* Proofs about DerivedNamespaces, for names, suffixes and hashes of any   *)
(* length.                                                                 *)
(***************************************************************************)
EXTENDS DerivedNamespaces, OperatorConfig_proofs, SequenceTheorems, FiniteSetTheorems

\* Among some positions of a name there is a last one.
LEMMA LastPosition ==
  ASSUME NEW m \in Nat, NEW P \in SUBSET (1..m), P # {}
  PROVE  \E n \in P : \A i \in P : i <= n
<1> DEFINE R == StrictSubsetOrdering(1..m)
          T == {i..m : i \in P}
<1>1. IsWellFoundedOn(R, SUBSET (1..m))
  <2>1. IsFiniteSet(1..m)
    BY FS_Interval
  <2>2. FiniteSubsetsOf(1..m) = SUBSET (1..m)
    BY <2>1, FS_FiniteSubsetsOfFinite
  <2>3. IsWellFoundedOn(R, FiniteSubsetsOf(1..m))
    BY FS_StrictSubsetOrderingWellFounded
  <2> QED
    BY <2>2, <2>3
<1>2. T \subseteq SUBSET (1..m) /\ T # {}
  <2>1. \A i \in P : i..m \in SUBSET (1..m)
    OBVIOUS
  <2> QED
    BY <2>1
<1> HIDE DEF R
<1>3. PICK x \in T : \A y \in T : ~(<<y, x>> \in R)
  BY <1>1, <1>2, WFMin
<1>4. PICK n \in P : x = n..m
  BY <1>3
<1>5. ASSUME NEW i \in P, i > n PROVE FALSE
  <2>1. i..m \in T /\ i..m \subseteq n..m /\ i..m # n..m
    <3>1. n \in n..m /\ n \notin i..m
      BY <1>5
    <3>2. i..m \subseteq n..m
      BY <1>5
    <3> QED
      BY <3>1, <3>2
  <2>2. <<i..m, x>> \in R
    BY <1>2, <1>3, <1>4, <2>1 DEF R, StrictSubsetOrdering
  <2> QED
    BY <1>3, <2>1, <2>2
<1>6. \A i \in P : i \in Nat /\ n \in Nat
  OBVIOUS
<1> QED
  BY <1>5, <1>6

\* Trimming leaves a beginning of the name that ends in something else than a dash.
LEMMA Trimmed ==
  ASSUME NEW s \in Seq(Characters), Len(s) > 0, s[1] # Dash
  PROVE  /\ TrimRight(s) \in Seq(Characters) /\ Len(TrimRight(s)) \in 1..Len(s)
         /\ TrimRight(s)[1] = s[1]
         /\ TrimRight(s)[Len(TrimRight(s))] # Dash
<1> DEFINE Q(n) == /\ n > 0 => s[n] # Dash
                   /\ \A i \in (n + 1)..Len(s) : s[i] = Dash
          P == {i \in 1..Len(s) : s[i] # Dash}
          n == CHOOSE j \in 0..Len(s) : Q(j)
<1>1. Len(s) \in Nat /\ 1 \in P
  BY LenProperties
<1>2. PICK j \in P : \A i \in P : i <= j
  BY <1>1, LastPosition
<1>3. j \in 0..Len(s) /\ Q(j)
  BY <1>1, <1>2
<1>4. n \in 0..Len(s) /\ Q(n)
  BY <1>3
<1>5. TrimRight(s) = SubSeq(s, 1, n)
  BY DEF TrimRight
<1> HIDE DEF n
<1>6. n \in 1..Len(s) /\ s[n] # Dash
  BY <1>1, <1>4
<1>7. \A i \in 1..n : s[i] \in Characters
  BY <1>1, <1>6, LenProperties
<1>8. /\ SubSeq(s, 1, n) \in Seq(Characters) /\ Len(SubSeq(s, 1, n)) = n
      /\ \A i \in 1..n : SubSeq(s, 1, n)[i] = s[i]
  BY <1>6, <1>7, SubSeqProperties
<1> QED
  BY <1>5, <1>6, <1>8

\* The base is shorter than a label by the room it leaves, and begins like the name.
LEMMA BaseFits ==
  ASSUME NEW s, IsLabel(s), ~Fitting(s)
  PROVE  /\ Base(s) \in Seq(Characters) /\ Base(s)[1] # Dash
         /\ Len(Base(s)) \in 1..(DNS1123LabelMaxLength - Len(Suffix) - HashLen - 1)
<1> DEFINE m == DNS1123LabelMaxLength - Len(Suffix) - HashLen - 1
<1>1. Len(Suffix) \in Nat /\ Len(s) \in Nat
  BY DigestOK, LenProperties DEF IsLabel
<1>2. m \in Nat /\ m > 0 /\ m <= Len(s)
  BY <1>1, DigestOK DEF Fitting
<1>3. \A i \in 1..m : s[i] \in Characters
  BY <1>1, <1>2, LenProperties DEF IsLabel
<1>4. /\ SubSeq(s, 1, m) \in Seq(Characters) /\ Len(SubSeq(s, 1, m)) = m
      /\ SubSeq(s, 1, m)[1] = s[1]
  BY <1>2, <1>3, SubSeqProperties
<1>5. Base(s) = TrimRight(SubSeq(s, 1, m))
  BY DEF Base
<1>6. s[1] # Dash
  BY DEF IsLabel
<1> HIDE DEF m
<1>7. /\ Base(s) \in Seq(Characters) /\ Len(Base(s)) \in 1..m /\ Base(s)[1] = s[1]
  BY <1>2, <1>4, <1>5, <1>6, Trimmed
<1> QED
  BY <1>6, <1>7 DEF m

\* What is put after a name leaves its beginning alone.
LEMMA Joined ==
  ASSUME NEW s \in Seq(Characters), NEW t \in Seq(Characters), Len(s) > 0
  PROVE  s \o t \in Seq(Characters) /\ Len(s \o t) = Len(s) + Len(t) /\ (s \o t)[1] = s[1]
<1>1. Len(s) \in Nat /\ Len(t) \in Nat
  BY LenProperties
<1>2. /\ s \o t \in Seq(Characters) /\ Len(s \o t) = Len(s) + Len(t)
      /\ \A i \in 1..Len(s) + Len(t) : (s \o t)[i] = IF i <= Len(s) THEN s[i] ELSE t[i - Len(s)]
  BY ConcatProperties
<1> QED
  BY <1>1, <1>2

\* A beginning that begins well, something in between, and the suffix are a label.
LEMMA Suffixed ==
  ASSUME NEW s \in Seq(Characters), Len(s) > 0, s[1] # Dash,
         Len(s) + Len(Suffix) <= DNS1123LabelMaxLength
  PROVE  IsLabel(s \o Suffix)
<1>1. Len(Suffix) \in Nat /\ Len(s) \in Nat /\ Suffix \in Seq(Characters)
      /\ Len(Suffix) > 0 /\ Suffix[Len(Suffix)] # Dash /\ DNS1123LabelMaxLength \in Nat
  BY DigestOK, LenProperties
<1>2. /\ s \o Suffix \in Seq(Characters) /\ Len(s \o Suffix) = Len(s) + Len(Suffix)
      /\ \A i \in 1..Len(s) + Len(Suffix) :
           (s \o Suffix)[i] = IF i <= Len(s) THEN s[i] ELSE Suffix[i - Len(s)]
  BY <1>1, ConcatProperties
<1>3. (s \o Suffix)[1] = s[1]
  BY <1>1, <1>2
<1>4. (s \o Suffix)[Len(s) + Len(Suffix)] = Suffix[Len(Suffix)]
  BY <1>1, <1>2
<1> QED
  BY <1>1, <1>2, <1>3, <1>4 DEF IsLabel

\* The derived name is a label whenever the name is.
LEMMA DerivedIsLabel ==
  ASSUME NEW s \in Values, IsLabel(s)
  PROVE  IsLabel(deriveAIGridNamespace(s))
<1>1. CASE s \in PlatformNS
  BY <1>1, FixedOK DEF deriveAIGridNamespace
<1>2. CASE s \notin PlatformNS /\ Fitting(s)
  <2>1. s \in Seq(Characters) /\ Len(s) > 0 /\ s[1] # Dash
    BY LenProperties DEF IsLabel
  <2> QED
    BY <1>2, <2>1, Suffixed DEF deriveAIGridNamespace, Fitting
<1>3. CASE s \notin PlatformNS /\ ~Fitting(s)
  <2> DEFINE b == Base(s)
             h == Hash(s)
             d == <<Dash>>
  <2>1. /\ b \in Seq(Characters) /\ b[1] # Dash
        /\ Len(b) \in 1..(DNS1123LabelMaxLength - Len(Suffix) - HashLen - 1)
    BY <1>3, BaseFits
  <2>2. h \in Seq(Characters) /\ Len(h) = HashLen
    BY HashOK
  <2>3. d \in Seq(Characters) /\ Len(d) = 1
    BY DigestOK
  <2>4. Len(Suffix) \in Nat /\ Len(b) \in Nat /\ HashLen \in Nat /\ Suffix \in Seq(Characters)
        /\ DNS1123LabelMaxLength \in Nat
    BY <2>1, DigestOK, LenProperties
  <2>5. deriveAIGridNamespace(s) = ((b \o d) \o h) \o Suffix
    BY <1>3 DEF deriveAIGridNamespace
  <2> HIDE DEF b, h, d
  <2>6. /\ b \o d \in Seq(Characters) /\ Len(b \o d) = Len(b) + 1 /\ (b \o d)[1] = b[1]
    <3>1. Len(b) > 0
      BY <2>1
    <3>2. /\ b \o d \in Seq(Characters) /\ Len(b \o d) = Len(b) + Len(d) /\ (b \o d)[1] = b[1]
      BY <2>1, <2>3, <3>1, Joined
    <3> QED
      BY <2>3, <3>2
  <2>7. /\ (b \o d) \o h \in Seq(Characters) /\ Len((b \o d) \o h) = Len(b) + 1 + HashLen
        /\ ((b \o d) \o h)[1] = b[1]
    <3> DEFINE c == b \o d
    <3>1. c \in Seq(Characters) /\ Len(c) = Len(b) + 1 /\ c[1] = b[1]
      BY <2>6
    <3> HIDE DEF c
    <3>2. Len(c) > 0
      BY <2>1, <3>1
    <3>3. c \o h \in Seq(Characters) /\ Len(c \o h) = Len(c) + Len(h) /\ (c \o h)[1] = c[1]
      BY <2>2, <3>1, <3>2, Joined
    <3> QED
      BY <2>2, <3>1, <3>3 DEF c
  <2> DEFINE e == (b \o d) \o h
  <2>8. /\ e \in Seq(Characters) /\ e[1] # Dash /\ Len(e) > 0
        /\ Len(e) + Len(Suffix) <= DNS1123LabelMaxLength
    BY <2>1, <2>4, <2>7
  <2> HIDE DEF e
  <2>9. IsLabel(e \o Suffix)
    BY <2>8, Suffixed
  <2> QED
    BY <2>5, <2>9 DEF e
<1> QED
  BY <1>1, <1>2, <1>3

(* A running operator can create the namespace of the grid, whatever the   *)
(* length of the applications namespace and wherever its dashes are        *)
(* (deriveAIGridNamespace).                                                *)
THEOREM GridNamespaceAlwaysFits == Spec => []GridNamespaceFits
<1>1. TypeOK => GridNamespaceFits
  <2> SUFFICES ASSUME TypeOK, pc = "running", IsLabel(cfg[KeyApplicationsNS])
               PROVE  IsLabel(deriveAIGridNamespace(cfg[KeyApplicationsNS]))
    BY DEF GridNamespaceFits
  <2>1. cfg[KeyApplicationsNS] \in Values
    BY FixedOK DEF TypeOK
  <2> QED
    BY <2>1, DerivedIsLabel
<1> QED
  BY <1>1, ConfigTypeCorrect, PTL
=============================================================================
