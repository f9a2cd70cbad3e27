----------------------------- MODULE AccessValues -----------------------------
(* The values of the type Access, which a permission rule has (rule.go).      *)

CONSTANTS Allow, Deny, Inherit

ASSUME AccessAssumption == Allow # Deny /\ Allow # Inherit /\ Deny # Inherit

Access == {Allow, Deny, Inherit}
=============================================================================
