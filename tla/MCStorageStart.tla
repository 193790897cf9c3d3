--------------------------- MODULE MCStorageStart ---------------------------
(* Instances of StorageStart for TLC.                                       *)
EXTENDS StorageStart
=============================================================================
