---------------------------- MODULE MCModeCatalog ----------------------------
(* One mode of config.yml and one that is only in the database *)
EXTENDS ModeCatalog, TLC
CONSTANTS exact, own

MCSymmetry == Permutations(Requests)
==============================================================================
