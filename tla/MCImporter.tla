----------------------------- MODULE MCImporter -----------------------------
(***************************************************************************)
(* Instances of Importer for TLC.                                          *)
(***************************************************************************)
EXTENDS Importer

CONSTANTS k1, k2, s1, s2
=============================================================================
