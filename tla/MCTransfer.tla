------------------------------ MODULE MCTransfer ------------------------------
(* TLC instance of Transfer: processes of one application begin payments,     *)
(* retry and crash, and may resume the same burn at the same time.            *)
EXTENDS Transfer

=============================================================================
