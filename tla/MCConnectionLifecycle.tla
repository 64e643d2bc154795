----------------------- MODULE MCConnectionLifecycle -----------------------
(* Instances of ConnectionLifecycle for TLC.                               *)
EXTENDS ConnectionLifecycle, TLC

Symmetry == Permutations(Conn) \union Permutations(Sess)
=============================================================================
