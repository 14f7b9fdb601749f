---------------------------- MODULE MCNativeWork ----------------------------
(* The collector on small instances.                                         *)
EXTENDS NativeWork
=============================================================================
