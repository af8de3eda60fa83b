------------------------------ MODULE MCApproval ------------------------------
(* TLC instance of Approval: tasks that share one account and burn amounts    *)
(* that its allowance covers, nearly covers, or does not cover.               *)
EXTENDS Approval

=============================================================================
