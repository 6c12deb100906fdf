---------------------------- MODULE MCAlertFilters ----------------------------
(***************************************************************************)
(* Small instances of AlertFilters for TLC.                                *)
(***************************************************************************)
EXTENDS AlertFilters, TLC

CONSTANTS a, scan, sweep

MCTrusted == {}

\* The uuids of the entries are interchangeable.
Symmetry == Permutations(EntryIds)
===============================================================================
