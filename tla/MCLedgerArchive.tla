--------------------------- MODULE MCLedgerArchive ---------------------------
(* An instance of LedgerArchive for TLC: two fibers and the admiral. *)
EXTENDS LedgerArchive

CONSTANTS ship1, ship2, fleet_admiral
=============================================================================
