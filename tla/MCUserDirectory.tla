---------------------------- MODULE MCUserDirectory ----------------------------
(* Instances of UserDirectory for TLC. *)
EXTENDS UserDirectoryProps
=============================================================================
