------------------------------ MODULE MCModules ------------------------------
(* Modules with two requests, of which q1 may send two fields, one handle, two
   names and two kinds. *)
EXTENDS Modules, TLC

CONSTANTS q1, q2, h1, n1, n2, k1, k2

Symmetry == Permutations(Names) \cup Permutations(Kinds)
=============================================================================
