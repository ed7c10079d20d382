-------------------------- MODULE MCStructBindings --------------------------
(***************************************************************************)
(* The real headers as an instance of StructBindings.                      *)
(***************************************************************************)
EXTENDS StructBindings, StructHeaders

MCHeaders == {th_structs, thc_structs, thc_curand_types, thc_cuda_runtime_types}
=============================================================================
