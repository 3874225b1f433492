-------------------------- MODULE MCClientRegistry --------------------------
(* Instance of ClientRegistry for TLC: the IDs are interchangeable.        *)
EXTENDS ClientRegistry, TLC

IDSymmetry == Permutations(ID)
=============================================================================
