----------------------------- MODULE MCListing -----------------------------
(* A directory of up to five names, listed in pages of one to three. *)
EXTENDS ProvListing
=============================================================================
