---------------------------- MODULE MCPermissions ----------------------------
(* Permissions on a small instance: servers are alike, the rules of the     *)
(* whitelist are, and nothing tells Allow from Deny.                        *)
EXTENDS Permissions, TLC

Symmetry == Permutations(Servers) \cup Permutations(Whitelist)
              \cup Permutations({Allow, Deny})
=============================================================================
