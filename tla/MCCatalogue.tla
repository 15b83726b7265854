---------------------------- MODULE MCCatalogue ----------------------------
(***************************************************************************)
(* Small instances of Catalogue for TLC: two versions of one plan, and one *)
(* CloudResource, a model value.                                           *)
(***************************************************************************)
EXTENDS Catalogue

CONSTANT db

=============================================================================
