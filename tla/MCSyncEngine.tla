----------------------------- MODULE MCSyncEngine -----------------------------
EXTENDS SyncProperties, TLC

CONSTANTS e1, e2, d1, d2

OwnDatabase == (e1 :> d1) @@ (e2 :> d2)

BlobSymmetry == Permutations(Update)
===============================================================================
