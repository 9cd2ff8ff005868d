----------------------------- MODULE MCIpcServer -----------------------------
(***************************************************************************)
(* An instance of IpcServer for TLC: two processes, one after the other or *)
(* overlapping, the connections of one application, and one user who is no *)
(* application.                                                            *)
(***************************************************************************)
EXTENDS IpcServer

CONSTANTS c1, c2, app, other
=============================================================================
