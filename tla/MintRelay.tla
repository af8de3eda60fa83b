------------------------------ MODULE MintRelay ------------------------------
(***************************************************************************)
(* The destination side of CctpV2: mint, mint_if_needed, wait_for_receive  *)
(* and is_message_received, run by several clients at once against one     *)
(* destination chain on which third-party relayers submit the same         *)
(* messages.  Every message here has been attested, so anyone may submit   *)
(* it.  A call awaits between its check and its submission, and never      *)
(* waits for the transaction it submitted.                                 *)
(*                                                                         *)
(* External: the chain (transactions are pending until mined, in any       *)
(* order), the message transmitter contract (a message is executed once,   *)
(* later submissions revert) and the RPC node (any request may fail, the   *)
(* reply to a submission may be lost after the node accepted it).          *)
(***************************************************************************)
EXTENDS Naturals

CONSTANTS
    Messages,    \* attested messages of this route
    Clients,     \* callers of the SDK
    NoMessage,   \* stands for no message
    Relayer,     \* stands for all third-party relayers
    MaxTxs,      \* bound: transactions submitted to the destination chain
    WaitLimits,  \* max_attempts that callers pass to wait_for_receive
    MaxCalls,    \* bound: calls that one client makes
    HashKeyed    \* whether usedNonces is keyed by the hash of the message

ASSUME NamesAssumption == NoMessage \notin Messages /\ Relayer \notin Clients
ASSUME LimitsAssumption == WaitLimits \subseteq Nat /\ MaxCalls \in Nat /\ MaxTxs \in Nat
ASSUME HashKeyedAssumption == HashKeyed \in BOOLEAN

VARIABLES
    used,      \* contract: the messages executed so far
    txStatus,  \* chain: "unused", "pending", "minted" or "reverted"
    txMsg,     \* chain: the message that a transaction submits
    txBy,      \* chain: who submitted it
    pc,        \* client: "idle", "check", "submit", "sleep"
    op,        \* client: the method running, or run last
    msg,       \* client: its argument
    limit,     \* client: max_attempts of a wait
    attempt,   \* client: the loop variable of a wait
    result,    \* client: what the last call returned
    own,       \* client: the transaction the last call submitted (known or not)
    seen,      \* history: whether msg was executed when the call last looked
    calls      \* history: calls made

chain  == <<used, txStatus, txMsg, txBy>>
client == <<pc, op, msg, limit, attempt, result, own, seen, calls>>
vars   == <<used, txStatus, txMsg, txBy, pc, op, msg, limit, attempt, result, own,
            seen, calls>>

\* Transactions are numbered in the order in which nodes accept them.
TxIds == 1 .. MaxTxs
NoTx == 0

Ops == {"mint", "mint_if_needed", "wait_for_receive"}
PCs == {"idle", "check", "submit", "sleep"}
Results == {"none", "Minted", "AlreadyRelayed", "Received", "ReceiveTimeout",
            "RpcError", "Rejected", "InvalidConfig"}
TxStatuses == {"unused", "pending", "minted", "reverted"}

-----------------------------------------------------------------------------
(* The destination chain *)

\* usedNonces asked with keccak256(message): a contract that keys the mapping
\* by something else never has that key.
IsMessageReceived(m) == HashKeyed /\ m \in used

\* The number that the next transaction gets.
Fresh(t) == \A u \in TxIds : txStatus[u] = "unused" <=> u >= t

\* A transaction enters the pool.
Enqueue(t, m, who) == /\ Fresh(t)
                      /\ txStatus' = [txStatus EXCEPT ![t] = "pending"]
                      /\ txMsg' = [txMsg EXCEPT ![t] = m]
                      /\ txBy' = [txBy EXCEPT ![t] = who]
                      /\ used' = used

\* A pending transaction is executed: the first one of a message mints.
Mine(t) == /\ txStatus[t] = "pending"
           /\ IF txMsg[t] \in used
              THEN /\ txStatus' = [txStatus EXCEPT ![t] = "reverted"]
                   /\ used' = used
              ELSE /\ txStatus' = [txStatus EXCEPT ![t] = "minted"]
                   /\ used' = used \cup {txMsg[t]}
           /\ UNCHANGED <<txMsg, txBy, client>>

\* Relayers watch for attested messages and submit those not executed yet.
RelayerSubmits(t, m) == /\ m \notin used
                        /\ Enqueue(t, m, Relayer)
                        /\ UNCHANGED client

-----------------------------------------------------------------------------
(* The calls *)

Return(c, r) == /\ pc' = [pc EXCEPT ![c] = "idle"]
                /\ result' = [result EXCEPT ![c] = r]

Goto(c, label) == pc' = [pc EXCEPT ![c] = label]

\* mint goes straight to the submission; the other two look first.
Call(c, o, m, n) ==
    /\ pc[c] = "idle"
    /\ calls[c] < MaxCalls
    /\ o # "wait_for_receive" => n = 0
    /\ calls' = [calls EXCEPT ![c] = @ + 1]
    /\ op' = [op EXCEPT ![c] = o]
    /\ msg' = [msg EXCEPT ![c] = m]
    /\ limit' = [limit EXCEPT ![c] = n]
    /\ attempt' = [attempt EXCEPT ![c] = 1]
    /\ own' = [own EXCEPT ![c] = NoTx]
    /\ seen' = [seen EXCEPT ![c] = FALSE]
    /\ IF o = "wait_for_receive" /\ n = 0
       THEN Return(c, "InvalidConfig")
       ELSE /\ Goto(c, IF o = "mint" THEN "submit" ELSE "check")
            /\ result' = [result EXCEPT ![c] = "none"]
    /\ UNCHANGED chain

\* Any request to the node may fail, and the failure ends the call.
RpcFails(c) == /\ pc[c] \in {"check", "submit"}
               /\ Return(c, "RpcError")
               /\ UNCHANGED <<chain, op, msg, limit, attempt, own, seen, calls>>

\* Seeded fault: the answer to the last poll of a wait is thrown away.
AfterCheckIgnoringLast(c, received) ==
    IF op[c] = "mint_if_needed"
    THEN IF received THEN Return(c, "AlreadyRelayed")
                     ELSE Goto(c, "submit") /\ UNCHANGED result
    ELSE IF received /\ attempt[c] < limit[c]
         THEN Return(c, "Received")
         ELSE Goto(c, "sleep") /\ UNCHANGED result

\* Seeded fault: mint_if_needed submits whatever the check says.
AfterCheckSubmitAnyway(c, received) ==
    IF op[c] = "mint_if_needed"
    THEN Goto(c, "submit") /\ UNCHANGED result
    ELSE IF received THEN Return(c, "Received")
                     ELSE Goto(c, "sleep") /\ UNCHANGED result

\* What the two methods do with the answer of is_message_received.
AfterCheck(c, received) ==
    IF received
    THEN Return(c, IF op[c] = "mint_if_needed" THEN "AlreadyRelayed" ELSE "Received")
    ELSE /\ Goto(c, IF op[c] = "mint_if_needed" THEN "submit" ELSE "sleep")
         /\ UNCHANGED result

Check(c) == /\ pc[c] = "check"
            /\ AfterCheck(c, IsMessageReceived(msg[c]))
            /\ seen' = [seen EXCEPT ![c] = msg[c] \in used]
            /\ UNCHANGED <<chain, op, msg, limit, attempt, own, calls>>

\* Seeded fault: the attempt is not counted.
WakeUncounted(c) == /\ pc[c] = "sleep"
                    /\ Goto(c, "check")
                    /\ UNCHANGED <<chain, op, msg, limit, attempt, result, own, seen,
                                   calls>>

\* The sleep of the last attempt is taken too, and followed by no look.
Wake(c) == /\ pc[c] = "sleep"
           /\ \/ /\ attempt[c] < limit[c]
                 /\ attempt' = [attempt EXCEPT ![c] = @ + 1]
                 /\ Goto(c, "check")
                 /\ UNCHANGED result
              \/ /\ attempt[c] >= limit[c]
                 /\ Return(c, "ReceiveTimeout")
                 /\ UNCHANGED attempt
           /\ UNCHANGED <<chain, op, msg, limit, own, seen, calls>>

\* Seeded fault: the transaction is built and its hash returned, but not sent.
AcceptedUnsent(c, t) == /\ Fresh(t)
                        /\ own' = [own EXCEPT ![c] = t]
                        /\ UNCHANGED <<used, txStatus, txMsg, txBy>>

\* Seeded fault: the hash of the message is returned for that of the transaction.
AcceptedWrongHash(c, t) == /\ Enqueue(t, msg[c], c)
                           /\ own' = [own EXCEPT ![c] = msg[c]]

\* The node accepts the transaction; it may or may not have simulated it.
Accepted(c, t) == /\ Enqueue(t, msg[c], c)
                  /\ own' = [own EXCEPT ![c] = t]

\* The hash is returned as soon as the node has the transaction; if the reply
\* is lost the caller sees an error although the transaction is in the pool.
Submit(c, t) == /\ pc[c] = "submit"
                /\ Accepted(c, t)
                /\ \E r \in {"Minted", "RpcError"} : Return(c, r)
                /\ UNCHANGED <<op, msg, limit, attempt, seen, calls>>

\* Seeded fault: every failed submission counts as already relayed.
RejectedForAnyReason(c) ==
    /\ pc[c] = "submit"
    /\ Return(c, IF op[c] = "mint_if_needed" THEN "AlreadyRelayed" ELSE "Rejected")
    /\ UNCHANGED <<chain, op, msg, limit, attempt, own, seen, calls>>

\* The simulation of a message already executed reverts with "nonce already
\* used", which is_already_relayed recognises; mint alone returns the error.
Rejected(c) ==
    /\ pc[c] = "submit"
    /\ msg[c] \in used
    /\ Return(c, IF op[c] = "mint_if_needed" THEN "AlreadyRelayed" ELSE "Rejected")
    /\ UNCHANGED <<chain, op, msg, limit, attempt, own, seen, calls>>

-----------------------------------------------------------------------------

Init == /\ used = {}
        /\ txStatus = [t \in TxIds |-> "unused"]
        /\ txMsg = [t \in TxIds |-> NoMessage]
        /\ txBy = [t \in TxIds |-> Relayer]
        /\ pc = [c \in Clients |-> "idle"]
        /\ op = [c \in Clients |-> "mint"]
        /\ msg = [c \in Clients |-> NoMessage]
        /\ limit = [c \in Clients |-> 0]
        /\ attempt = [c \in Clients |-> 0]
        /\ result = [c \in Clients |-> "none"]
        /\ own = [c \in Clients |-> NoTx]
        /\ seen = [c \in Clients |-> FALSE]
        /\ calls = [c \in Clients |-> 0]

\* The steps that bring a running call to its end.
Proceed(c) == \/ RpcFails(c)
              \/ Check(c)
              \/ Wake(c)
              \/ \E t \in TxIds : Submit(c, t)
              \/ Rejected(c)

Next == \/ \E t \in TxIds : Mine(t)
        \/ \E t \in TxIds, m \in Messages : RelayerSubmits(t, m)
        \/ \E c \in Clients, o \in Ops, m \in Messages, n \in WaitLimits \cup {0} :
             Call(c, o, m, n)
        \/ \E c \in Clients : Proceed(c)

Spec == Init /\ [][Next]_vars

\* A running call goes on (its requests time out, its sleeps end) and a pending
\* transaction is mined in the end; nobody has to call or to relay.
FairSpec == /\ Spec
            /\ \A c \in Clients : WF_vars(Proceed(c))
            /\ \A t \in TxIds : WF_vars(Mine(t))

-----------------------------------------------------------------------------
(* What the calls promise *)

\* What a call has answered about its message; only two results claim anything.
AnswerOf(r, m) == IF r \in {"AlreadyRelayed", "Received"}
                  THEN [outcome |-> "executed", subject |-> m]
                  ELSE [outcome |-> "open", subject |-> NoMessage]

Inquiry == INSTANCE SettledAnswers WITH
               Subjects <- Messages, Askers <- Clients,
               Outcomes <- {"executed"}, Open <- "open", NoSubject <- NoMessage,
               world <- [m \in Messages |-> IF m \in used THEN "executed" ELSE "open"],
               answered <- [c \in Clients |-> AnswerOf(result[c], msg[c])]

-----------------------------------------------------------------------------
(* Properties *)

TypeOK == /\ used \subseteq Messages
          /\ txStatus \in [TxIds -> TxStatuses]
          /\ txMsg \in [TxIds -> Messages \cup {NoMessage}]
          /\ txBy \in [TxIds -> Clients \cup {Relayer}]
          /\ pc \in [Clients -> PCs]
          /\ op \in [Clients -> Ops]
          /\ msg \in [Clients -> Messages \cup {NoMessage}]
          /\ limit \in [Clients -> Nat]
          /\ attempt \in [Clients -> Nat]
          /\ result \in [Clients -> Results]
          /\ own \in [Clients -> TxIds \cup {NoTx}]
          /\ seen \in [Clients -> BOOLEAN]
          /\ calls \in [Clients -> 0 .. MaxCalls]

\* A caller who is told that the transfer is complete, by AlreadyRelayed or by
\* the end of a wait, can rely on it: the message has been executed.
CompletionIsReal ==
    \A c \in Clients :
        result[c] \in {"AlreadyRelayed", "Received"} => msg[c] \in used

\* The calls implement SettledAnswers: however clients and relayers race, nobody
\* is told of a completion before the chain has executed the message, and what is
\* executed stays so.
AnswersAreSettled == Inquiry!Spec

\* A call that submitted, even if its reply was lost and it reported an error,
\* left a transaction that is still pending or a message that was executed: the
\* caller may give up or call again, and the transfer is not lost.
SubmissionIsNotLost ==
    \A c \in Clients :
        own[c] # NoTx => \/ txStatus[own[c]] = "pending" /\ txMsg[own[c]] = msg[c]
                         \/ msg[c] \in used

\* mint_if_needed pays for a reverted transaction only if it lost a race: when
\* it looked, the message had not been executed.
GasIsWastedOnlyInARace ==
    \A c \in Clients :
        /\ own[c] # NoTx
        /\ op[c] = "mint_if_needed"
        /\ txStatus[own[c]] = "reverted"
        => ~seen[c]

\* wait_for_receive reports a timeout only if its last look found the message
\* not executed.
TimeoutIsHonest ==
    \A c \in Clients : result[c] = "ReceiveTimeout" => ~seen[c]

\* Whatever a Minted result stands for, its message is executed in the end: by
\* this transaction, or by the one that made it revert.
MintedLeadsToReceived ==
    \A c \in Clients, m \in Messages :
        (result[c] = "Minted" /\ msg[c] = m) ~> (m \in used)

\* Every call returns, whatever the chain and the relayers do.
CallsReturn == \A c \in Clients : pc[c] # "idle" ~> pc[c] = "idle"

\* What the documentation of MintResult::Minted says: "we successfully minted".
MintedMeansWeMinted ==
    \A c \in Clients : result[c] = "Minted" => txStatus[own[c]] # "reverted"

=============================================================================
