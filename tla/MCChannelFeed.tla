---------------------------- MODULE MCChannelFeed ----------------------------
(* ChannelFeed with one user, whose sessions are alike, and so are requests. *)
EXTENDS ChannelFeed, TLC

CONSTANTS u1, s1, s2, q1, q2

MCUserOf == [s \in {s1, s2} |-> u1]

Symmetry == Permutations(Sessions) \cup Permutations(Requests)
=============================================================================
