---------------------------- MODULE MCSourceFrame ----------------------------
(* Two scenes, a resource of the first, one that outlives scenes.            *)
EXTENDS SourceFrame, TLC
CONSTANTS r1, r2
MCOwner == (r1 :> 1) @@ (r2 :> 0)
MCDescriptions == {[scene |-> 1, cut |-> FALSE], [scene |-> 2, cut |-> FALSE]}
=============================================================================
