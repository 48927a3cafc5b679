--------------------------- MODULE MCWorkspaceServer ---------------------------
(* Instances of WorkspaceServer for TLC.                                   *)
EXTENDS WorkspaceServer, TLC
===============================================================================
