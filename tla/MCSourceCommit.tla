-------------------------- MODULE MCSourceCommit --------------------------
(* The pool on a small instance: slots, resources and readers are model      *)
(* values, interchangeable, so TLC may identify states up to their renaming. *)
EXTENDS SourceCommit, TLC

Symmetric == Permutations(Slots) \cup Permutations(Resources)
                                 \cup Permutations(Readers)
=============================================================================
