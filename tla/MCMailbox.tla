----------------------------- MODULE MCMailbox -----------------------------
(* Mailbox with the constants its cfg files give it. *)
EXTENDS Mailbox
=============================================================================
