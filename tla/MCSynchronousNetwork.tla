------------------------ MODULE MCSynchronousNetwork ------------------------
(***************************************************************************)
(* An instance of SynchronousNetwork for TLC.                              *)
(***************************************************************************)
EXTENDS SynchronousNetwork

Uuids == Request \cup {None}
=============================================================================
