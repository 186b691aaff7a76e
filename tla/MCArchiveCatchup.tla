-------------------------- MODULE MCArchiveCatchup --------------------------
(* Small instances of ArchiveCatchup.                                        *)
EXTENDS ArchiveCatchup
=============================================================================
