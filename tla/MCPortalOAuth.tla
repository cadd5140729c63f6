--------------------------- MODULE MCPortalOAuth ---------------------------
(* Small instances of PortalOAuth for TLC. *)
EXTENDS PortalOAuth, TLC

Symmetric == Permutations(Caller) \cup Permutations(Installation)
=============================================================================
