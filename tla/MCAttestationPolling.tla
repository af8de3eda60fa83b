------------------------ MODULE MCAttestationPolling ------------------------
(* TLC instance of AttestationPolling: every shape of entry the decision     *)
(* tells apart, two messages in the transaction, and configurations at and   *)
(* beside zero.                                                              *)
EXTENDS AttestationPolling

E(s, m, a) == [status |-> s, message |-> m, attestation |-> a]

\* Pending and failed entries carry data too, which must not be used.
MCEntries == {E("pending_confirmations", FALSE, FALSE), E("pending", TRUE, TRUE),
              E("complete", TRUE, TRUE), E("complete", TRUE, FALSE),
              E("complete", FALSE, TRUE), E("failed", TRUE, TRUE),
              E("unreadable", FALSE, FALSE)}

C(n, secs) == [max_attempts |-> n, poll_interval_secs |-> secs]

MCConfigs == {C(0, 5), C(3, 0), C(1, 60), C(3, 5)}

=============================================================================
