------------------------ MODULE MCSemanticCompositor ------------------------
(* Two pages and two textures: a picture can be shown on the other page,   *)
(* and a rebound resource has a replacement.                               *)
EXTENDS SemanticCompositor

Interchangeable == Permutations(Pages) \union Permutations(Textures)
=============================================================================
