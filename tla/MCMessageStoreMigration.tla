---------------------- MODULE MCMessageStoreMigration ----------------------
(***************************************************************************)
(* Instances of MessageStoreMigration for TLC: one group and one private   *)
(* message, batches of two rows, so that the first batch is full and a row *)
(* that changed under it comes back in a short one.                        *)
(***************************************************************************)
EXTENDS MessageStoreMigration

MCGroupIds == {1}

MCPrivateIds == {2}

=============================================================================
