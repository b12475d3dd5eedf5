--------------------------- MODULE MCPlatformApi ---------------------------
(***************************************************************************)
(* Instance of PlatformApi for TLC.                                        *)
(***************************************************************************)
EXTENDS PlatformApi, TLC

AllBuilds == {"linux", "mac", "win"}

=============================================================================
