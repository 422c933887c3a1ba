---------------------------- MODULE MCHermesHome ----------------------------
(* HermesHome with the constants its cfg files give it. *)
EXTENDS HermesHome, TLC

\* Root's calls differ in name alone.
RootSymmetry == Permutations(Root)
=============================================================================
