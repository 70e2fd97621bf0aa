------------------------------- MODULE Lists -------------------------------
(***************************************************************************)
(* The linked lists of the caches and of the scheduler, as sequences.       *)
(***************************************************************************)
EXTENDS SequencesExt

CONSTANT NULL   \* no address

First(s) == IF s = <<>> THEN NULL ELSE Head(s)

(* The member that comes after x, if there is one. *)
Following(s, x) ==
  LET after == {i \in DOMAIN s : i > 1 /\ s[i - 1] = x}
  IN  IF after = {} THEN NULL ELSE s[CHOOSE i \in after : TRUE]

(* What is left of a list when only the members of S stay, in their order. *)
Sublist(s, S) ==
  LET at == {i \in DOMAIN s : s[i] \in S}
  IN  [k \in 1..Cardinality(at) |->
         s[CHOOSE i \in at : Cardinality({j \in at : j <= i}) = k]]
=============================================================================
