----------------------------- MODULE MCStartup -----------------------------
(***************************************************************************)
(* The server and one tool at a time, over three releases.                  *)
(***************************************************************************)
EXTENDS Startup

CONSTANTS server, tool
=============================================================================
