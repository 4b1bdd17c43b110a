----------------------------- MODULE MCListing -----------------------------
(* A small instance of Listing for TLC: clients are interchangeable.       *)
EXTENDS Listing, TLC

Clients == Permutations(Client)
=============================================================================
