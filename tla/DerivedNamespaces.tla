------------------------- MODULE DerivedNamespaces --------------------------
(***************************************************************************)
(* The namespace of the AI Grid, which a running operator derives from the *)
(* applications namespace it was configured with.  Names are sequences of  *)
(* characters, and values of OperatorConfig are names here.                *)
(***************************************************************************)
EXTENDS OperatorConfig, Sequences

CONSTANTS
  Characters, Dash,      \* what labels are made of
  DNS1123LabelMaxLength, \* 63
  Suffix,                \* "-ai-grid"
  HashLen, Hash(_),      \* FNV-1a in hexadecimal: 8 digits
  KeyApplicationsNS,     \* "applications-namespace"
  PlatformNS,            \* the applications namespaces of the two platforms
  PlatformGrid           \* and the grid namespace of each

\* A DNS-1123 label, which the name of a namespace is.
IsLabel(s) ==
  /\ s \in Seq(Characters) /\ Len(s) \in 1..DNS1123LabelMaxLength
  /\ s[1] # Dash /\ s[Len(s)] # Dash

ASSUME DigestOK ==
  /\ Characters # {} /\ Dash \in Characters /\ HashLen \in Nat
  /\ DNS1123LabelMaxLength \in Nat /\ Suffix \in Seq(Characters)
  /\ Len(Suffix) > 0 /\ Suffix[Len(Suffix)] # Dash
  /\ DNS1123LabelMaxLength > Len(Suffix) + HashLen + 1
ASSUME HashOK  == \A n \in Values : Hash(n) \in Seq(Characters) /\ Len(Hash(n)) = HashLen
ASSUME FixedOK == /\ KeyApplicationsNS \in Keys
                  /\ PlatformGrid \in [PlatformNS -> Seq(Characters)]
                  /\ \A n \in PlatformNS : IsLabel(PlatformGrid[n])

---------------------------------------------------------------------------
\* strings.TrimRight(s, "-")
TrimRight(s) ==
  SubSeq(s, 1, CHOOSE n \in 0..Len(s) : /\ n > 0 => s[n] # Dash
                                        /\ \A i \in (n + 1)..Len(s) : s[i] = Dash)

Fitting_OffByOne(n) == Len(n) + Len(Suffix) <= DNS1123LabelMaxLength + 1

Fitting(n) == Len(n) + Len(Suffix) <= DNS1123LabelMaxLength

\* What is left of a name when there is room for a dash, the hash and the suffix.
Base(n) == TrimRight(SubSeq(n, 1, DNS1123LabelMaxLength - Len(Suffix) - HashLen - 1))

deriveAIGridNamespace(n) ==
  CASE n \in PlatformNS -> PlatformGrid[n]
    [] n \notin PlatformNS /\ Fitting(n) -> n \o Suffix
    [] OTHER -> Base(n) \o <<Dash>> \o Hash(n) \o Suffix

---------------------------------------------------------------------------
(* The grid namespace of a running operator can be created, whatever the    *)
(* length of the applications namespace and wherever its dashes are         *)
(* (deriveAIGridNamespace).                                                 *)
GridNamespaceFits ==
  pc = "running" /\ IsLabel(cfg[KeyApplicationsNS])
    => IsLabel(deriveAIGridNamespace(cfg[KeyApplicationsNS]))
=============================================================================
