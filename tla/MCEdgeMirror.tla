---------------------------- MODULE MCEdgeMirror ----------------------------
(***************************************************************************)
(* Instances of EdgeMirror for TLC.                                        *)
(***************************************************************************)
EXTENDS EdgeMirror

AllKinds == Kinds
=============================================================================
