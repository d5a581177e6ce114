---------------------------- MODULE MCMigration ----------------------------
(* Instances of Migration for TLC.                                         *)
EXTENDS Migration

AnyVersion == 0..Target
FromV1 == {1}
=============================================================================
