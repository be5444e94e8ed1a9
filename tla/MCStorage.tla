----------------------------- MODULE MCStorage -----------------------------
(* Instances of Storage for TLC.                                           *)
EXTENDS Storage, TLC

Symmetry == Permutations(EventIds) \cup Permutations(VectorIds)
            \cup Permutations(Writers) \cup Permutations(Users)

(* The process is down for good: the last start has ended.                 *)
Finished == db = "down" /\ starts = MaxStarts /\ UNCHANGED storageVars

MCSpec == StorageInit /\ [][StorageNext \/ Finished]_storageVars
=============================================================================
