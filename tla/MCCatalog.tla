------------------------------ MODULE MCCatalog ------------------------------
(* Catalog for TLC. *)
EXTENDS Catalog
=============================================================================
