------------------------- MODULE MCSessionQuestions -------------------------
(* Two live sessions of one device, each with its stored key. *)
EXTENDS SessionNotify, TLC

CONSTANTS live1, live2, stored1, stored2

MCRun == {live1, live2}
MCKey == {stored1, stored2}
MCKeyOf == [r \in MCRun |-> IF r = live1 THEN stored1 ELSE stored2]

\* The calls are alike.
HookSymmetry == Permutations(Hook)

=============================================================================
