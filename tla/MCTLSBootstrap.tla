--------------------------- MODULE MCTLSBootstrap ---------------------------
(* Instance of TLSBootstrap for TLC: the default, another profile, and one *)
(* without a supported cipher suite.                                       *)
EXTENDS TLSBootstrap

ThreeProfiles == {"Intermediate", "Modern", "CustomRC4"}
OneUnusable   == {"CustomRC4"}
=============================================================================
