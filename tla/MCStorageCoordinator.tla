------------------------ MODULE MCStorageCoordinator ------------------------
(* One save by command at a time beside the checkpoints and an operation.   *)
EXTENDS StorageCoordinator
=============================================================================
