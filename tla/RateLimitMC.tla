---------------------------- MODULE RateLimitMC ----------------------------
(***************************************************************************)
(* Nothing distinguishes one address, or one account, from another.        *)
(***************************************************************************)
EXTENDS RateLimit, TLC

Alike == Permutations(Addresses) \cup Permutations(Accounts)
=============================================================================
