------------------------- MODULE MCPresentationHost -------------------------
(* The host with two threads, either of which may start it or take it over.  *)
EXTENDS PresentationHost
=============================================================================
