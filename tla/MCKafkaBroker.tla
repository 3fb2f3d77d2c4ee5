--------------------------- MODULE MCKafkaBroker ---------------------------
(***************************************************************************)
(* Small instances of KafkaBroker for TLC.                                 *)
(***************************************************************************)
EXTENDS KafkaBroker

CONSTANTS p1, p2

=============================================================================
