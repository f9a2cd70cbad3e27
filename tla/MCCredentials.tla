---------------------------- MODULE MCCredentials ----------------------------
(* Credentials with two requests that are alike, and one token. *)
EXTENDS Credentials, TLC

CONSTANTS q1, q2

Symmetry == Permutations(Requests)
=============================================================================
