------------------------------- MODULE MCUnread -------------------------------
(* Unread with two members and two requests that are alike. *)
EXTENDS Unread, TLC

CONSTANTS u1, u2, q1, q2

Symmetry == Permutations(Users) \cup Permutations(Requests)
=============================================================================
