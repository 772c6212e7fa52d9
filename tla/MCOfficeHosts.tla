--------------------------- MODULE MCOfficeHosts ---------------------------
(***************************************************************************)
(* One stored room, the public lobby, and up to three offices of them.     *)
(***************************************************************************)
EXTENDS OfficeHosts
=============================================================================
