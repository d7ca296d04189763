---------------------------- MODULE MCX402Gateway ----------------------------
(* X402Gateway for TLC: requests, settlement jobs and payments are          *)
(* interchangeable, so permuting them loses no behaviour.                   *)
EXTENDS X402Gateway, TLC

Symmetry ==
  Permutations(Requests) \cup Permutations(Jobs) \cup Permutations(Digests)
==============================================================================
