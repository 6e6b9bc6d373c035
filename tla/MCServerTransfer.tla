-------------------------- MODULE MCServerTransfer --------------------------
(* Small instances of ServerTransfer for TLC.                                *)
EXTENDS ServerTransfer, TLC

=============================================================================
