------------------------- MODULE MCResourceRestore -------------------------
(* Contents, identities, resources and receipts are model values.            *)
EXTENDS ResourceRestore, TLC

Symmetric == Permutations(Resources) \cup Permutations(Identities)
             \cup Permutations(Data) \cup Permutations(Holders \ {Guest})
=============================================================================
