--------------------------- MODULE MCGuestDialogs ---------------------------
(* Instance of GuestDialogs for TLC: two browsers, one archive. *)
EXTENDS GuestDialogs, TLC

CONSTANTS b1, b2, a1, p1

\* Browsers are alike; all properties are invariants.
Symmetric == Permutations(Browsers)
=============================================================================
