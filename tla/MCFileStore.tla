---------------------------- MODULE MCFileStore ----------------------------
(***************************************************************************)
(* FileStore for TLC.  The configurations make it small in two ways: one   *)
(* without crashes whose inode map is as large as the inode table and      *)
(* whose blocks run out (MCFileStore.cfg), and one with a crash whose maps *)
(* reach past the inode table and past the checksum table, as those of     *)
(* testfs.h do (MCFileStoreCrash.cfg).  The other four look for one thing  *)
(* each that the code says of itself and does not keep.                    *)
(***************************************************************************)
EXTENDS FileStoreInv
=============================================================================
