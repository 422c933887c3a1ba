--------------------------- MODULE MCSessionNotify ---------------------------
(* One live session and its stored key. *)
EXTENDS SessionNotify

CONSTANTS live, stored

MCRun == {live}
MCKey == {stored}
MCKeyOf == [r \in MCRun |-> stored]

=============================================================================
