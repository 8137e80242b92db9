-------------------------------- MODULE MCDig --------------------------------
(***************************************************************************)
(* Instances of Dig for TLC.  The goroutines are interchangeable.          *)
(***************************************************************************)
EXTENDS Dig, TLC

Goroutines == Permutations(Procs)

=============================================================================
