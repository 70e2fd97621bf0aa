----------------------------- MODULE MCLLCache -----------------------------
(* Small instances of LLCache. *)
EXTENDS LLCache

Symmetry == Permutations(Object) \cup Permutations(Handle)
=============================================================================
