--------------------------- MODULE MCTensorMemory ---------------------------
(***************************************************************************)
(* Small instances of TensorMemory.                                        *)
(***************************************************************************)
EXTENDS TensorMemory, TLC

\* The managed operations that take and free no reference by hand.
SharedOps == ManagedOps \ ({"retain", "retainStorage"} \cup FreeOps)

\* Operations that break the counts, among operations that do not.
UnsoundOps == {"newWithSize", "newX", "newWithStorage", "_setStorage",
               "storage", "copyType"}

Symmetry == Permutations(Handle) \cup Permutations(Thread)
            \cup Permutations(Tensor) \cup Permutations(Storage)
=============================================================================
