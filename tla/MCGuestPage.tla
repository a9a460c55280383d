---------------------------- MODULE MCGuestPage ----------------------------
(* Instance of GuestPage for TLC. *)
EXTENDS GuestPage
=============================================================================
