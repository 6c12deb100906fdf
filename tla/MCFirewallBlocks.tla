--------------------------- MODULE MCFirewallBlocks ---------------------------
(***************************************************************************)
(* Small instances of FirewallBlocks for TLC.                              *)
(***************************************************************************)
EXTENDS FirewallBlocks, TLC

\* The uuids of the entries are interchangeable.
Symmetry == Permutations(EntryIds)
===============================================================================
