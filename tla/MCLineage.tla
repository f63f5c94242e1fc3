----------------------------- MODULE MCLineage -----------------------------
(* Lineage for TLC: the bounds are in the .cfg files.                        *)
EXTENDS Lineage
=============================================================================
