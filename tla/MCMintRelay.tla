----------------------------- MODULE MCMintRelay -----------------------------
(* TLC instance of MintRelay: two clients and the relayers race for the      *)
(* messages; a client calls again after an error or a lost reply.            *)
EXTENDS MintRelay

=============================================================================
