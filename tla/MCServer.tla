------------------------------ MODULE MCServer ------------------------------
(***************************************************************************)
(* Two gRPC threads, three calls, two scrapes, two signals.                *)
(***************************************************************************)
EXTENDS Server
=============================================================================
