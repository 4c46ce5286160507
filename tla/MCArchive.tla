------------------------------ MODULE MCArchive ------------------------------
(* Bounded instances of the archiver for TLC. *)
EXTENDS ArchiveInvariants
=============================================================================
