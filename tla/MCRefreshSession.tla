-------------------------- MODULE MCRefreshSession --------------------------
(* RefreshSession with the constants its cfg files give it. *)
EXTENDS RefreshSession
=============================================================================
