------------------------------- MODULE Transfer -------------------------------
(***************************************************************************)
(* A payment from end to end with CctpV2: burn on the source chain, wait   *)
(* for Circle's attestation, mint on the destination chain.  Three flows:  *)
(* `transfer`, which runs the three steps in one call and mints with mint; *)
(* and the two stepwise flows of the README, which the application drives  *)
(* itself: burn and get_attestation, then mint_if_needed (self_relay) or   *)
(* wait_for_receive (wait_relay).  A call may be retried by with_retry, a  *)
(* process may crash, and a burn whose hash the application was given may  *)
(* be resumed, by any of its processes.                                    *)
(*                                                                         *)
(* get_attestation is one step here: AttestationPolling is its detail, and *)
(* its theorems are what the step assumes.  External: the two chains, the  *)
(* RPC nodes, Iris, and the relayers.                                      *)
(***************************************************************************)
EXTENDS Naturals

CONSTANTS
    Callers,        \* processes of the application
    MaxBurns,       \* bound: burn transactions sent
    MaxPending,     \* bound: mints of one message pending at once
    MaxCalls,       \* bound: payments begun and resumed
    RetryAttempts   \* ProviderConfig::retry_attempts

ASSUME BoundsAssumption == /\ MaxBurns \in Nat /\ MaxPending \in Nat
                           /\ MaxCalls \in Nat /\ RetryAttempts \in Nat

VARIABLES
    burnTx,    \* source chain: "unused", "pending", "mined" or "reverted"
    iris,      \* Circle: "silent", "attested" or "failed"
    mempool,   \* destination chain: pending mints of each message
    received,  \* destination chain: messages executed
    known,     \* application: burn hashes it was given, and keeps over crashes
    pc,        \* process: "idle", "burn", "attest", "check", "submit", "wait"
    flow,      \* process: the flow it runs, or ran last
    held,      \* process: the burn that the flow goes on with
    result,    \* process: what the flow returned
    tries,     \* process: the attempt of with_retry
    spent,     \* history: burns sent by the call in progress, retries included
    calls      \* history: payments begun and resumed

chains  == <<burnTx, iris, mempool, received>>
process == <<known, pc, flow, held, result, tries, spent, calls>>
vars    == <<burnTx, iris, mempool, received,
             known, pc, flow, held, result, tries, spent, calls>>

Burns == 1 .. MaxBurns
NoBurn == 0

Flows == {"transfer", "self_relay", "wait_relay"}
PCs == {"idle", "burn", "attest", "check", "submit", "wait"}
Successes == {"Minted", "AlreadyRelayed", "Received"}

\* How a request to a node fails on its way: the HTTP server answers with an
\* error status (429, 502), which a contract call reports wrapped; or otherwise,
\* as when the node or the library refuses what is asked.  OtherError also stands
\* for AttestationMissing and MessageMissing: like it they are not transient.
SendFailures == {"RpcHttp", "OtherError"}
CallFailures == {"ContractHttp", "OtherError"}

Errors == SendFailures \cup CallFailures \cup
          {"Network", "Rejected", "AttestationTimeout", "ReceiveTimeout",
           "AttestationFailed"}

Results == {"none"} \cup Successes \cup Errors

\* CctpError::is_transient: timeouts, and the errors that is_network_error knows.
IsTransient(r) == r \in {"AttestationTimeout", "ReceiveTimeout", "Network", "RpcHttp"}

-----------------------------------------------------------------------------
(* The chains, Circle and the relayers *)

\* A burn may revert: the balance or the allowance has changed by then.
MineBurn(b) == /\ burnTx[b] = "pending"
               /\ \E s \in {"mined", "reverted"} : burnTx' = [burnTx EXCEPT ![b] = s]
               /\ UNCHANGED <<iris, mempool, received, process>>

IrisDecides(b) == /\ burnTx[b] = "mined"
                  /\ iris[b] = "silent"
                  /\ \E s \in {"attested", "failed"} : iris' = [iris EXCEPT ![b] = s]
                  /\ UNCHANGED <<burnTx, mempool, received, process>>

Pend(b) == /\ mempool[b] < MaxPending
           /\ mempool' = [mempool EXCEPT ![b] = @ + 1]

\* Nobody needs leave to submit an attested message.
RelayerSubmits(b) == /\ iris[b] = "attested"
                     /\ b \notin received
                     /\ Pend(b)
                     /\ UNCHANGED <<burnTx, iris, received, process>>

\* The first mint of a message executes it; the others revert.
MineMint(b) == /\ mempool[b] > 0
               /\ mempool' = [mempool EXCEPT ![b] = @ - 1]
               /\ received' = received \cup {b}
               /\ UNCHANGED <<burnTx, iris, process>>

-----------------------------------------------------------------------------
(* The flows *)

Return(c, r) == /\ pc' = [pc EXCEPT ![c] = "idle"]
                /\ result' = [result EXCEPT ![c] = r]

Goto(c, label) == /\ pc' = [pc EXCEPT ![c] = label]
                  /\ result' = [result EXCEPT ![c] = "none"]

\* A payment begins with a burn.
Pay(c, f) == /\ pc[c] = "idle"
             /\ calls < MaxCalls
             /\ calls' = calls + 1
             /\ Goto(c, "burn")
             /\ flow' = [flow EXCEPT ![c] = f]
             /\ held' = [held EXCEPT ![c] = NoBurn]
             /\ tries' = [tries EXCEPT ![c] = 1]
             /\ spent' = [spent EXCEPT ![c] = 0]
             /\ UNCHANGED <<chains, known>>

\* A burn that the application knows of is taken up again at get_attestation.
Resume(c, f, b) == /\ pc[c] = "idle"
                   /\ calls < MaxCalls
                   /\ f # "transfer"
                   /\ b \in known
                   /\ calls' = calls + 1
                   /\ Goto(c, "attest")
                   /\ flow' = [flow EXCEPT ![c] = f]
                   /\ held' = [held EXCEPT ![c] = b]
                   /\ tries' = [tries EXCEPT ![c] = 1]
                   /\ spent' = [spent EXCEPT ![c] = 0]
                   /\ UNCHANGED <<chains, known>>

\* Seeded fault: every flow is retried from its beginning.
RetryWholeFlow(c) == /\ pc[c] = "idle"
                     /\ IsTransient(result[c])
                     /\ tries[c] < RetryAttempts
                     /\ tries' = [tries EXCEPT ![c] = @ + 1]
                     /\ Goto(c, "burn")
                     /\ held' = [held EXCEPT ![c] = NoBurn]
                     /\ UNCHANGED <<chains, known, flow, spent, calls>>

\* with_retry calls the operation again while its error is transient: for the
\* stepwise flows the operation is get_attestation, else it is transfer itself.
Retry(c) == /\ pc[c] = "idle"
            /\ IsTransient(result[c])
            /\ tries[c] < RetryAttempts
            /\ tries' = [tries EXCEPT ![c] = @ + 1]
            /\ \/ /\ flow[c] = "transfer"
                  /\ Goto(c, "burn")
                  /\ held' = [held EXCEPT ![c] = NoBurn]
               \/ /\ flow[c] # "transfer"
                  /\ result[c] \in {"Network", "AttestationTimeout"}
                  /\ Goto(c, "attest")
                  /\ UNCHANGED held
            /\ UNCHANGED <<chains, known, flow, spent, calls>>

\* The process dies and comes back with nothing but what the application kept.
Crash(c) == /\ pc[c] # "idle"
            /\ Return(c, "none")
            /\ held' = [held EXCEPT ![c] = NoBurn]
            /\ tries' = [tries EXCEPT ![c] = 0]
            /\ spent' = [spent EXCEPT ![c] = 0]
            /\ UNCHANGED <<chains, known, flow, calls>>

\* burn refuses its arguments, the node refuses the transaction, or the request
\* does not reach it: no burn is sent.
BurnFails(c) == /\ pc[c] = "burn"
                /\ \E r \in SendFailures : Return(c, r)
                /\ UNCHANGED <<chains, known, flow, held, tries, spent, calls>>

\* The next burn enters the pool.  Its hash comes back, and the application has
\* it too unless transfer keeps it; or the reply is lost, and nobody has it.
BurnSent(c, b) ==
    /\ pc[c] = "burn"
    /\ \A o \in Burns : burnTx[o] = "unused" <=> o >= b
    /\ burnTx' = [burnTx EXCEPT ![b] = "pending"]
    /\ spent' = [spent EXCEPT ![c] = @ + 1]
    /\ \/ /\ Goto(c, "attest")
          /\ held' = [held EXCEPT ![c] = b]
          /\ known' = IF flow[c] = "transfer" THEN known ELSE known \cup {b}
       \/ /\ \E r \in SendFailures : Return(c, r)
          /\ UNCHANGED <<held, known>>
    /\ UNCHANGED <<iris, mempool, received, flow, tries, calls>>

\* Seeded fault: the last flow jumps to a step that does not exist.
NextStepMissing(f) == CASE f = "transfer"   -> "submit"
                        [] f = "self_relay" -> "check"
                        [] f = "wait_relay" -> "wait_for_receive"

\* Where a flow goes on once it has the attestation.
NextStep(f) == CASE f = "transfer"   -> "submit"
                 [] f = "self_relay" -> "check"
                 [] f = "wait_relay" -> "wait"

\* Seeded fault: a call that gave up waiting reports a failed attestation.
AttestTimeoutAsFailure(c) ==
    /\ pc[c] = "attest"
    /\ \/ iris[held[c]] = "attested" /\ Goto(c, NextStep(flow[c]))
       \/ \E r \in {"AttestationFailed", "Network", "OtherError"} : Return(c, r)
    /\ UNCHANGED <<chains, known, flow, held, tries, spent, calls>>

\* Seeded fault: a call that gave up waiting starts over by itself.
AttestForever(c) ==
    /\ pc[c] = "attest"
    /\ \/ iris[held[c]] = "attested" /\ Goto(c, NextStep(flow[c]))
       \/ iris[held[c]] # "attested" /\ Goto(c, "attest")
    /\ UNCHANGED <<chains, known, flow, held, tries, spent, calls>>

\* get_attestation succeeds only with what Iris attested, fails for good only
\* with what Iris failed, and may at any time give up, lose its connection or be
\* answered with an entry that lacks its message or its attestation.
Attest(c) ==
    /\ pc[c] = "attest"
    /\ \/ iris[held[c]] = "attested" /\ Goto(c, NextStep(flow[c]))
       \/ iris[held[c]] = "failed" /\ Return(c, "AttestationFailed")
       \/ \E r \in {"AttestationTimeout", "Network", "OtherError"} : Return(c, r)
    /\ UNCHANGED <<chains, known, flow, held, tries, spent, calls>>

\* mint_if_needed looks before it submits.
Check(c) == /\ pc[c] = "check"
            /\ \/ held[c] \in received /\ Return(c, "AlreadyRelayed")
               \/ held[c] \notin received /\ Goto(c, "submit")
               \/ \E r \in CallFailures : Return(c, r)
            /\ UNCHANGED <<chains, known, flow, held, tries, spent, calls>>

\* Seeded fault: transfer returns its mint without its burn.
MintSentUnrecorded(c) ==
    /\ pc[c] = "submit"
    /\ Pend(held[c])
    /\ \E r \in {"Minted"} \cup SendFailures : Return(c, r)
    /\ UNCHANGED <<burnTx, iris, received, known, flow, held, tries, spent, calls>>

\* mint returns as soon as the node has the transaction, or its reply is lost.
\* transfer returns the hash of its burn only here.
MintSent(c) ==
    /\ pc[c] = "submit"
    /\ Pend(held[c])
    /\ \/ /\ Return(c, "Minted")
          /\ known' = known \cup {held[c]}
       \/ /\ \E r \in SendFailures : Return(c, r)
          /\ UNCHANGED known
    /\ UNCHANGED <<burnTx, iris, received, flow, held, tries, spent, calls>>

\* Seeded fault: a submission that never reached the node is reported as sent.
MintFailsSilently(c) ==
    /\ pc[c] = "submit"
    /\ Return(c, "Minted")
    /\ UNCHANGED <<chains, known, flow, held, tries, spent, calls>>

\* The request does not reach the node, or the simulation finds the message
\* executed: mint_if_needed knows that error, transfer passes it on.
MintFails(c) ==
    /\ pc[c] = "submit"
    /\ \/ \E r \in SendFailures : Return(c, r)
       \/ /\ held[c] \in received
          /\ Return(c, IF flow[c] = "self_relay" THEN "AlreadyRelayed" ELSE "Rejected")
    /\ UNCHANGED <<chains, known, flow, held, tries, spent, calls>>

\* wait_for_receive ends with what it saw, or with a failed look.
Wait(c) == /\ pc[c] = "wait"
           /\ \/ held[c] \in received /\ Return(c, "Received")
              \/ \E r \in CallFailures \cup {"ReceiveTimeout"} : Return(c, r)
           /\ UNCHANGED <<chains, known, flow, held, tries, spent, calls>>

-----------------------------------------------------------------------------

Init == /\ burnTx = [b \in Burns |-> "unused"]
        /\ iris = [b \in Burns |-> "silent"]
        /\ mempool = [b \in Burns |-> 0]
        /\ received = {}
        /\ known = {}
        /\ pc = [c \in Callers |-> "idle"]
        /\ flow = [c \in Callers |-> "transfer"]
        /\ held = [c \in Callers |-> NoBurn]
        /\ result = [c \in Callers |-> "none"]
        /\ tries = [c \in Callers |-> 0]
        /\ spent = [c \in Callers |-> 0]
        /\ calls = 0

Proceed(c) == \/ BurnFails(c)
              \/ \E b \in Burns : BurnSent(c, b)
              \/ Attest(c)
              \/ Check(c)
              \/ MintSent(c)
              \/ MintFails(c)
              \/ Wait(c)

Environment == \E b \in Burns : \/ MineBurn(b)
                                \/ IrisDecides(b)
                                \/ RelayerSubmits(b)
                                \/ MineMint(b)

Next == \/ Environment
        \/ \E c \in Callers, f \in Flows : Pay(c, f)
        \/ \E c \in Callers, f \in Flows, b \in Burns : Resume(c, f, b)
        \/ \E c \in Callers : Retry(c) \/ Crash(c) \/ Proceed(c)

Spec == Init /\ [][Next]_vars

\* A running call goes on unless its process crashes, and a pending mint is
\* mined in the end.  Nobody has to pay, resume, retry or relay, and neither the
\* burns nor Iris have to make progress.
FairSpec == /\ Spec
            /\ \A c \in Callers : WF_vars(Proceed(c))
            /\ \A b \in Burns : WF_vars(MineMint(b))

-----------------------------------------------------------------------------
(* What the flows promise *)

PhaseOf(b) == IF b \in received THEN "delivered"
              ELSE IF iris[b] # "silent" THEN iris[b]
              ELSE IF burnTx[b] = "unused" THEN "none"
              ELSE IF burnTx[b] = "pending" THEN "submitted"
              ELSE IF burnTx[b] = "mined" THEN "burned"
              ELSE "reverted"

Verdict(r) == CASE r = "Minted" -> "complete"
                [] r \in {"AlreadyRelayed", "Received"} -> "delivered"
                [] r = "AttestationFailed" -> "lost"
                [] OTHER -> "unknown"

ToldTo(c) == [verdict |-> Verdict(result[c]),
              burn |-> IF Verdict(result[c]) = "unknown" THEN NoBurn ELSE held[c]]

Payment == INSTANCE CrossChainPayment WITH
               phase <- [b \in Burns |-> PhaseOf(b)],
               told <- [c \in Callers |-> ToldTo(c)]

-----------------------------------------------------------------------------
(* Properties *)

TypeOK == /\ burnTx \in [Burns -> {"unused", "pending", "mined", "reverted"}]
          /\ iris \in [Burns -> {"silent", "attested", "failed"}]
          /\ mempool \in [Burns -> 0 .. MaxPending]
          /\ received \subseteq Burns
          /\ known \subseteq Burns
          /\ pc \in [Callers -> PCs]
          /\ flow \in [Callers -> Flows]
          /\ held \in [Callers -> Burns \cup {NoBurn}]
          /\ result \in [Callers -> Results]
          /\ tries \in [Callers -> Nat]
          /\ spent \in [Callers -> Nat]
          /\ calls \in 0 .. MaxCalls

\* The three flows, with their retries, crashes and resumptions, implement the
\* promise of CrossChainPayment: nothing is minted that was not burned and
\* attested, and no caller is told anything about its burn that is not true.
PaymentIsHonest == Payment!Spec

\* However often its calls are retried, a stepwise payment burns once; transfer
\* burns at most once per attempt.
OneBurnPerPayment ==
    \A c \in Callers : spent[c] <= IF flow[c] = "transfer" THEN tries[c] ELSE 1

\* Somebody can still bring the burn to its end: the application, which knows its
\* hash, or a flow that runs with it.
InReach(b) == b \in known \/ \E c \in Callers : pc[c] # "idle" /\ held[c] = b

\* A burn that was in reach gets out of it only when a transfer that ran with it
\* crashes or returns an error, for instance that of a mint which a relayer's had
\* made superfluous: the pair of hashes comes with a success only.  The stepwise
\* flows lose no burn whose hash they were given, whatever fails or crashes then.
OnlyTransferForgetsItsBurn ==
    [][\A b \in Burns : InReach(b) /\ ~InReach(b)' =>
          \E c \in Callers : /\ flow[c] = "transfer" /\ held[c] = b
                             /\ pc[c] # "idle" /\ pc'[c] = "idle"
                             /\ result'[c] \notin Successes]_vars

\* What a caller is told is complete is delivered in the end.
CompleteLeadsToReceived ==
    \A b \in Burns :
        (\E c \in Callers : result[c] = "Minted" /\ held[c] = b) ~> (b \in received)

\* Every call returns, or its process crashes.
CallsReturn == \A c \in Callers : pc[c] # "idle" ~> pc[c] = "idle"

\* What the documentation of is_transient says, "the operation could be
\* retried", for the operation transfer: a retried payment burns once.
RetryIsSafe == \A c \in Callers : spent[c] <= 1

\* What the same documentation says next, that transient errors "include
\* timeouts, rate limiting, and temporary network issues".
NetworkTroubleIsTransient ==
    \A c \in Callers :
        result[c] \in {"Network", "RpcHttp", "ContractHttp"} => IsTransient(result[c])

=============================================================================
