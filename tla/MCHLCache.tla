----------------------------- MODULE MCHLCache -----------------------------
(* Small instances of HLCache. *)
EXTENDS HLCache

Symmetry == Permutations(Handle) \cup Permutations(Low)
            \cup Permutations(Content) \cup Permutations(Window)
=============================================================================
