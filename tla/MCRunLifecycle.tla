-------------------------- MODULE MCRunLifecycle --------------------------
(* TLC instances of RunLifecycle.  Instances and callers are interchange-  *)
(* able model values, so the safety runs use symmetry.                     *)
EXTENDS RunLifecycle, TLC

Symmetry == Permutations(Instances) \cup Permutations(Callers)
=============================================================================
