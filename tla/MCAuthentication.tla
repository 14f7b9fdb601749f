--------------------------- MODULE MCAuthentication ---------------------------
(* The field in two flavours, one local producer in it, an overlay with     *)
(* code and data.                                                            *)
EXTENDS Authentication, TLC
CONSTANTS field, canon, overlay
MCCode ==
  (field :> FieldPlaces) @@ (canon :> FieldPlaces)
  @@ (overlay :> {"overlay"})
MCExtent == [MCCode EXCEPT ![overlay] = {"overlay", "data"}]
MCWriterCount == [k \in Kinds |-> 1]
=============================================================================
