--------------------------- MODULE MCTensorValues ---------------------------
(***************************************************************************)
(* Small instances of TensorValues.                                        *)
(***************************************************************************)
EXTENDS TensorValues, TLC

Symmetry == Permutations(Thread) \cup Permutations(Tensor) \cup Permutations(Storage)
=============================================================================
