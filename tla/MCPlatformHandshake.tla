------------------------ MODULE MCPlatformHandshake ------------------------
(* TLC instances of PlatformHandshake; every constant is a number given in *)
(* the configurations.                                                     *)
EXTENDS PlatformHandshake
=============================================================================
