--------------------------- MODULE MintRelayProofs ---------------------------
(***************************************************************************)
(* The safety of the destination side for any number of messages, clients  *)
(* and transactions.  Inv is inductive: what the chain knows of its        *)
(* transactions (Chain), what a client knows at each label (Labels), and   *)
(* what its submission left behind (Submitted) make the completion and the *)
(* no-loss properties go through.  What a look is worth is proved for      *)
(* either key of usedNonces (LooksCorrect).  The end of a call is proved   *)
(* by a bound that its own steps lower and no other raises.                *)
(***************************************************************************)
EXTENDS MintRelay, TLAPS

\* Executed transactions carry executed messages, known ones a real message.
Chain == \A t \in TxIds :
            /\ txStatus[t] # "unused" => txMsg[t] \in Messages
            /\ txStatus[t] \in {"minted", "reverted"} => txMsg[t] \in used

\* A running call has an argument, no result and no transaction yet.
Labels == \A c \in Clients :
             pc[c] # "idle" => /\ msg[c] \in Messages
                               /\ result[c] = "none"
                               /\ own[c] = NoTx

\* The transaction of a call is one the chain knows, for the same message.
Submitted == \A c \in Clients :
                own[c] # NoTx => /\ txStatus[own[c]] # "unused"
                                 /\ txMsg[own[c]] = msg[c]

\* Only a call that looked and found nothing sleeps, or submits conditionally.
Looked == \A c \in Clients :
             /\ pc[c] = "sleep" => ~seen[c]
             /\ pc[c] = "submit" /\ op[c] = "mint_if_needed" => ~seen[c]
             /\ own[c] # NoTx /\ op[c] = "mint_if_needed" => ~seen[c]
             /\ result[c] = "ReceiveTimeout" => ~seen[c]

\* A contract that keys usedNonces otherwise never confirms a message: no call is
\* told that it arrived, and a wait ends with an error or times out.  At the
\* submission of mint_if_needed only its simulation can tell.
LooksAreBlind == \A c \in Clients :
                    /\ result[c] # "Received"
                    /\ op[c] = "wait_for_receive" =>
                         /\ pc[c] # "submit"
                         /\ result[c] \in {"none", "RpcError", "ReceiveTimeout",
                                          "InvalidConfig"}

Inv == TypeOK /\ Chain /\ Labels /\ Submitted /\ CompletionIsReal

-----------------------------------------------------------------------------
(* What the steps share *)

\* No transaction number is NoTx.
LEMMA NoTxIsNoTransaction == NoTx \notin TxIds
  BY LimitsAssumption DEF NoTx, TxIds

\* The number a new transaction gets is not in use.
LEMMA FreshIsUnused ==
    ASSUME NEW t \in TxIds, Fresh(t)
    PROVE  txStatus[t] = "unused"
  BY LimitsAssumption DEF Fresh, TxIds

\* A new transaction keeps what the chain knows, and disturbs no submission.
LEMMA EnqueueKeeps ==
    ASSUME Inv, NEW t \in TxIds, NEW m \in Messages, NEW w \in Clients \cup {Relayer},
           Enqueue(t, m, w)
    PROVE  /\ Chain'
           /\ txStatus' \in [TxIds -> TxStatuses]
           /\ txMsg' \in [TxIds -> Messages \cup {NoMessage}]
           /\ txBy' \in [TxIds -> Clients \cup {Relayer}]
           /\ txStatus'[t] = "pending" /\ txMsg'[t] = m /\ used' = used
           /\ \A u \in TxIds : txStatus[u] # "unused" =>
                 txStatus'[u] = txStatus[u] /\ txMsg'[u] = txMsg[u]
<1>1. txStatus[t] = "unused"
  BY FreshIsUnused DEF Enqueue
<1> QED BY <1>1 DEF Inv, TypeOK, Chain, Enqueue, TxStatuses

\* A returned label and result, for one client.
LEMMA ReturnTypes ==
    ASSUME TypeOK, NEW c \in Clients, NEW r \in Results, Return(c, r)
    PROVE  pc' \in [Clients -> PCs] /\ result' \in [Clients -> Results]
  BY DEF TypeOK, Return, PCs

-----------------------------------------------------------------------------
(* The invariant *)

\* The chain and the clients start in the invariant.
LEMMA InitInv == Init => Inv
  BY LimitsAssumption DEF Init, Inv, TypeOK, Chain, Labels, Submitted, CompletionIsReal,
     TxStatuses, PCs, Ops, Results, NoTx

\* Mining keeps the invariant: a message once executed stays executed.
LEMMA MineStep ==
    ASSUME Inv, NEW t \in TxIds, Mine(t)
    PROVE  Inv'
<1> USE DEF Inv, TypeOK, Mine, client, TxStatuses
<1>1. txMsg[t] \in Messages /\ used \subseteq used' /\ txMsg' = txMsg
  BY DEF Chain
<1>2. TypeOK'
  BY <1>1
<1>3. Chain' /\ Labels' /\ CompletionIsReal'
  BY <1>1 DEF Chain, Labels, CompletionIsReal
<1>4. \A u \in TxIds : txStatus[u] # "unused" => txStatus'[u] # "unused"
  OBVIOUS
<1>5. Submitted'
  BY <1>1, <1>4 DEF Submitted
<1> QED BY <1>2, <1>3, <1>5

\* A relayer's submission keeps it.
LEMMA RelayerStep ==
    ASSUME Inv, NEW t \in TxIds, NEW m \in Messages, RelayerSubmits(t, m)
    PROVE  Inv'
<1>1. Enqueue(t, m, Relayer) /\ UNCHANGED client
  BY DEF RelayerSubmits
<1>2. /\ Chain' /\ used' = used
      /\ txStatus' \in [TxIds -> TxStatuses]
      /\ txMsg' \in [TxIds -> Messages \cup {NoMessage}]
      /\ txBy' \in [TxIds -> Clients \cup {Relayer}]
      /\ \A u \in TxIds : txStatus[u] # "unused" =>
            txStatus'[u] = txStatus[u] /\ txMsg'[u] = txMsg[u]
  BY <1>1, EnqueueKeeps
<1>3. TypeOK' /\ Labels' /\ CompletionIsReal'
  BY <1>1, <1>2 DEF Inv, TypeOK, client, Labels, CompletionIsReal
<1>4. Submitted'
  BY <1>1, <1>2 DEF Inv, TypeOK, client, Submitted
<1> QED BY <1>2, <1>3, <1>4 DEF Inv

\* A new call starts from nothing.
LEMMA CallStep ==
    ASSUME Inv, NEW c \in Clients, NEW o \in Ops, NEW m \in Messages,
           NEW n \in WaitLimits \cup {0}, Call(c, o, m, n)
    PROVE  Inv'
<1> USE LimitsAssumption DEF Inv, Call, chain
<1>1. TypeOK'
  BY DEF TypeOK, Return, Goto, PCs, Results, NoTx
<1>2. Chain'
  BY DEF Chain
<1>3. Labels' /\ Submitted' /\ CompletionIsReal'
  BY DEF TypeOK, Labels, Submitted, CompletionIsReal, Return, Goto, NoTx
<1> QED BY <1>1, <1>2, <1>3

\* The call looks, and either knows or goes on.
LEMMA CheckStep ==
    ASSUME Inv, NEW c \in Clients, Check(c)
    PROVE  Inv'
<1> USE DEF Inv, Check, chain, AfterCheck, Return, Goto
<1>1. TypeOK'
  BY DEF TypeOK, PCs, Results
<1>2. Chain'
  BY DEF Chain
<1>3. Labels' /\ Submitted'
  BY DEF TypeOK, Labels, Submitted
<1>4. CompletionIsReal'
  BY DEF TypeOK, CompletionIsReal, IsMessageReceived
<1> QED BY <1>1, <1>2, <1>3, <1>4

\* The steps that neither look nor submit: a sleep ends, a request fails, a
\* simulation finds the message executed.
LEMMA QuietStep ==
    ASSUME Inv, NEW c \in Clients, Wake(c) \/ RpcFails(c) \/ Rejected(c)
    PROVE  Inv'
<1> USE DEF Inv, Wake, RpcFails, Rejected, chain, Return, Goto
<1>1. TypeOK'
  BY DEF TypeOK, PCs, Results
<1>2. Chain'
  BY DEF Chain
<1>3. Labels' /\ Submitted'
  BY DEF TypeOK, Labels, Submitted
<1>4. CompletionIsReal'
  BY DEF TypeOK, CompletionIsReal
<1> QED BY <1>1, <1>2, <1>3, <1>4

\* A submission leaves a transaction that the chain knows, for the argument.
LEMMA SubmitStep ==
    ASSUME Inv, NEW c \in Clients, NEW t \in TxIds, Submit(c, t)
    PROVE  Inv'
<1>1. /\ Enqueue(t, msg[c], c) /\ own' = [own EXCEPT ![c] = t]
      /\ pc[c] = "submit" /\ msg[c] \in Messages
      /\ UNCHANGED <<op, msg, limit, attempt, seen, calls>>
  BY DEF Inv, Submit, Accepted, Labels
<1>2. PICK r \in {"Minted", "RpcError"} : Return(c, r)
  BY DEF Submit
<1>3. /\ Chain' /\ used' = used
      /\ txStatus' \in [TxIds -> TxStatuses]
      /\ txMsg' \in [TxIds -> Messages \cup {NoMessage}]
      /\ txBy' \in [TxIds -> Clients \cup {Relayer}]
      /\ txStatus'[t] = "pending" /\ txMsg'[t] = msg[c]
      /\ \A u \in TxIds : txStatus[u] # "unused" =>
            txStatus'[u] = txStatus[u] /\ txMsg'[u] = txMsg[u]
  BY <1>1, EnqueueKeeps
<1>4. pc' \in [Clients -> PCs] /\ result' \in [Clients -> Results]
  BY <1>2, ReturnTypes DEF Inv, Results
<1>5. TypeOK'
  BY <1>1, <1>3, <1>4 DEF Inv, TypeOK
<1>6. Labels' /\ CompletionIsReal'
  BY <1>1, <1>2, <1>3 DEF Inv, TypeOK, Labels, CompletionIsReal, Return
<1>7. Submitted'
  BY <1>1, <1>3 DEF Inv, TypeOK, Submitted
<1> QED BY <1>3, <1>5, <1>6, <1>7 DEF Inv

\* Every step keeps the invariant.
LEMMA NextInv == Inv /\ [Next]_vars => Inv'
<1> SUFFICES ASSUME Inv, [Next]_vars PROVE Inv'
  OBVIOUS
<1>1. CASE UNCHANGED vars
  BY <1>1 DEF vars, Inv, TypeOK, Chain, Labels, Submitted, CompletionIsReal
<1>2. CASE \E t \in TxIds : Mine(t)
  BY <1>2, MineStep
<1>3. CASE \E t \in TxIds, m \in Messages : RelayerSubmits(t, m)
  BY <1>3, RelayerStep
<1>4. CASE \E c \in Clients, o \in Ops, m \in Messages, n \in WaitLimits \cup {0} :
             Call(c, o, m, n)
  BY <1>4, CallStep
<1>5. CASE \E c \in Clients : Proceed(c)
  BY <1>5, CheckStep, QuietStep, SubmitStep DEF Proceed
<1> QED BY <1>1, <1>2, <1>3, <1>4, <1>5 DEF Next

\* With the hash as key, a look that finds nothing means nothing was executed.
LEMMA LookedStep == HashKeyed /\ Inv /\ Looked /\ [Next]_vars => Looked'
<1> SUFFICES ASSUME HashKeyed, Inv, Looked, [Next]_vars PROVE Looked'
  OBVIOUS
<1> USE DEF Inv, TypeOK, Looked, Return, Goto
<1>1. CASE UNCHANGED client
  BY <1>1 DEF client
<1>2. CASE \E t \in TxIds : Mine(t)
  BY <1>1, <1>2 DEF Mine
<1>3. CASE \E t \in TxIds, m \in Messages : RelayerSubmits(t, m)
  BY <1>1, <1>3 DEF RelayerSubmits
<1>4. ASSUME NEW c \in Clients, NEW o \in Ops, NEW m \in Messages,
             NEW n \in WaitLimits \cup {0}, Call(c, o, m, n)
      PROVE  Looked'
  BY <1>4 DEF Call
<1>5. ASSUME NEW c \in Clients, Check(c)
      PROVE  Looked'
  BY <1>5 DEF Check, AfterCheck, IsMessageReceived, Labels
<1>6. ASSUME NEW c \in Clients, Wake(c) \/ RpcFails(c) \/ Rejected(c)
      PROVE  Looked'
  BY <1>6 DEF Wake, RpcFails, Rejected
<1>7. ASSUME NEW c \in Clients, NEW t \in TxIds, Submit(c, t)
      PROVE  Looked'
  BY <1>7 DEF Submit, Accepted
<1>8. CASE UNCHANGED vars
  BY <1>1, <1>8 DEF vars, client
<1> QED BY <1>2, <1>3, <1>4, <1>5, <1>6, <1>7, <1>8 DEF Next, Proceed

\* With another key no look is answered with yes, so that no wait goes well.
LEMMA BlindStep == ~HashKeyed /\ Inv /\ LooksAreBlind /\ [Next]_vars => LooksAreBlind'
<1> SUFFICES ASSUME ~HashKeyed, Inv, LooksAreBlind, [Next]_vars PROVE LooksAreBlind'
  OBVIOUS
<1> USE DEF Inv, TypeOK, LooksAreBlind, Return, Goto
<1>1. CASE UNCHANGED client
  BY <1>1 DEF client
<1>2. CASE \/ \E t \in TxIds : Mine(t)
           \/ \E t \in TxIds, m \in Messages : RelayerSubmits(t, m)
           \/ UNCHANGED vars
  BY <1>1, <1>2 DEF Mine, RelayerSubmits, vars, client
<1>3. ASSUME NEW c \in Clients, NEW o \in Ops, NEW m \in Messages,
             NEW n \in WaitLimits \cup {0}, Call(c, o, m, n)
      PROVE  LooksAreBlind'
  BY <1>3 DEF Call
<1>4. ASSUME NEW c \in Clients, Check(c)
      PROVE  LooksAreBlind'
  BY <1>4 DEF Check, AfterCheck, IsMessageReceived
<1>5. ASSUME NEW c \in Clients, Wake(c) \/ RpcFails(c) \/ Rejected(c)
      PROVE  LooksAreBlind'
  BY <1>5 DEF Wake, RpcFails, Rejected
<1>6. ASSUME NEW c \in Clients, NEW t \in TxIds, Submit(c, t)
      PROVE  LooksAreBlind'
  BY <1>6 DEF Submit
<1> QED BY <1>2, <1>3, <1>4, <1>5, <1>6 DEF Next, Proceed

-----------------------------------------------------------------------------
(* The theorems *)

\* The inductive invariant holds in every behaviour.
THEOREM InvHolds == Spec => []Inv
<1> QED BY InitInv, NextInv, PTL DEF Spec

\* The chain and the clients keep their types.
THEOREM TypeCorrect == Spec => []TypeOK
<1>1. Inv => TypeOK
  BY DEF Inv
<1> QED BY <1>1, InvHolds, PTL

\* A caller told that the transfer is complete can rely on it.
THEOREM CompletionCorrect == Spec => []CompletionIsReal
<1>1. Inv => CompletionIsReal
  BY DEF Inv
<1> QED BY <1>1, InvHolds, PTL

\* A submission, acknowledged or not, is pending or its message was executed.
THEOREM SubmissionCorrect == Spec => []SubmissionIsNotLost
<1>1. ASSUME Inv PROVE SubmissionIsNotLost
  <2> SUFFICES ASSUME NEW c \in Clients, own[c] # NoTx
               PROVE  \/ txStatus[own[c]] = "pending" /\ txMsg[own[c]] = msg[c]
                      \/ msg[c] \in used
    BY DEF SubmissionIsNotLost
  <2>1. own[c] \in TxIds /\ txStatus[own[c]] \in TxStatuses \ {"unused"}
    BY <1>1 DEF Inv, TypeOK, Submitted
  <2> QED BY <1>1, <2>1 DEF Inv, Chain, Submitted, TxStatuses
<1> QED BY <1>1, InvHolds, PTL

\* What the looks are worth, for either key of usedNonces.  Keyed by the hash of
\* the message, as is_message_received asks it: mint_if_needed pays for a revert
\* only when it lost a race, and a wait times out only after a last look that
\* found nothing executed.  Keyed by anything else, as the nonce that the
\* repository's documents name: no look ever finds a message, and every wait
\* that is answered at all times out, delivered or not.
THEOREM LooksCorrect ==
    Spec => [](IF HashKeyed THEN GasIsWastedOnlyInARace /\ TimeoutIsHonest
                            ELSE LooksAreBlind)
<1> DEFINE LooksInv == IF HashKeyed THEN Looked ELSE LooksAreBlind
           Worth == IF HashKeyed THEN GasIsWastedOnlyInARace /\ TimeoutIsHonest
                                 ELSE LooksAreBlind
<1>1. Init => LooksInv
  BY DEF Init, Looked, LooksAreBlind
<1>2. Inv /\ LooksInv /\ [Next]_vars => LooksInv'
  BY LookedStep, BlindStep
<1>3. LooksInv => Worth
  BY DEF Looked, GasIsWastedOnlyInARace, TimeoutIsHonest
<1>4. Spec => []Worth
  <2> HIDE DEF LooksInv, Worth
  <2> QED BY <1>1, <1>2, <1>3, InvHolds, PTL DEF Spec
<1> QED BY <1>4

-----------------------------------------------------------------------------
(* The end of a call *)

\* The steps that call c may still take, at most: two for each look of a wait.
LooksLeft(c) == limit[c] - attempt[c]
StepsLeft(c) ==
    CASE pc[c] = "idle"   -> 0
      [] pc[c] = "submit" -> 1
      [] pc[c] = "sleep"  -> 2 * LooksLeft(c) + 1
      [] pc[c] = "check"  -> IF op[c] = "mint_if_needed" THEN 2 ELSE 2 * LooksLeft(c) + 2

\* Only a wait sleeps, only it looks more than once, and it counts its looks.
Counted == \A c \in Clients :
              /\ pc[c] = "check" => op[c] \in {"mint_if_needed", "wait_for_receive"}
              /\ pc[c] = "sleep" => op[c] = "wait_for_receive"
              /\ pc[c] \in {"check", "sleep"} /\ op[c] = "wait_for_receive" =>
                   attempt[c] <= limit[c]

\* Every step of a client keeps the count of its looks; the others leave it alone.
LEMMA CountedStep == TypeOK /\ Counted /\ [Next]_vars => Counted'
<1> SUFFICES ASSUME TypeOK, Counted, [Next]_vars PROVE Counted'
  OBVIOUS
<1> USE DEF TypeOK, Counted, Return, Goto
<1>1. CASE UNCHANGED <<pc, op, limit, attempt>>
  BY <1>1
<1>2. CASE \/ \E t \in TxIds : Mine(t)
           \/ \E t \in TxIds, m \in Messages : RelayerSubmits(t, m)
           \/ UNCHANGED vars
  BY <1>1, <1>2 DEF Mine, RelayerSubmits, client, vars
<1>3. ASSUME NEW c \in Clients, NEW o \in Ops, NEW m \in Messages,
             NEW n \in WaitLimits \cup {0}, Call(c, o, m, n)
      PROVE  Counted'
  BY <1>3, LimitsAssumption DEF Call, Ops
<1>4. ASSUME NEW c \in Clients, Check(c)
      PROVE  Counted'
  BY <1>4 DEF Check, AfterCheck
<1>5. ASSUME NEW c \in Clients, Wake(c)
      PROVE  Counted'
  BY <1>5 DEF Wake
<1>6. ASSUME NEW c \in Clients, RpcFails(c) \/ Rejected(c)
      PROVE  Counted'
  BY <1>6 DEF RpcFails, Rejected
<1>7. ASSUME NEW c \in Clients, NEW t \in TxIds, Submit(c, t)
      PROVE  Counted'
  BY <1>7 DEF Submit
<1> QED BY <1>2, <1>3, <1>4, <1>5, <1>6, <1>7 DEF Next, Proceed

\* A call counts its looks in every behaviour.
THEOREM CountedHolds == Spec => []Counted
<1>1. Init => Counted
  BY DEF Init, Counted
<1>2. TypeOK /\ Counted /\ [Next]_vars => Counted'
  BY CountedStep
<1> QED BY <1>1, <1>2, TypeCorrect, PTL DEF Spec

\* The bound is a natural number, and zero only for a call that has returned.
THEOREM StepsLeftIsNatural ==
    Spec => [](\A c \in Clients : StepsLeft(c) \in Nat /\ (StepsLeft(c) = 0 <=> pc[c] = "idle"))
<1>1. TypeOK /\ Counted =>
        \A c \in Clients : StepsLeft(c) \in Nat /\ (StepsLeft(c) = 0 <=> pc[c] = "idle")
  <2> SUFFICES ASSUME TypeOK, Counted, NEW c \in Clients
               PROVE  StepsLeft(c) \in Nat /\ (StepsLeft(c) = 0 <=> pc[c] = "idle")
    OBVIOUS
  <2>1. /\ limit[c] \in Nat /\ attempt[c] \in Nat /\ pc[c] \in PCs
        /\ pc[c] = "sleep" => attempt[c] <= limit[c]
        /\ pc[c] = "check" /\ op[c] # "mint_if_needed" => attempt[c] <= limit[c]
    BY DEF TypeOK, Counted
  <2> QED BY <2>1 DEF StepsLeft, LooksLeft, PCs
<1> QED BY <1>1, TypeCorrect, CountedHolds, PTL

\* A step of a call lowers its bound and touches no other call's; the chain and
\* the relayers touch none, and only an idle client begins anew.
LEMMA StepLowersOwn ==
    ASSUME TypeOK, Counted, NEW c \in Clients, Proceed(c)
    PROVE  StepsLeft(c)' < StepsLeft(c)
<1> USE DEF TypeOK, Counted, Return, Goto
<1>1. /\ limit[c] \in Nat /\ attempt[c] \in Nat /\ pc[c] \in PCs /\ op[c] \in Ops
      /\ pc[c] = "check" => op[c] \in {"mint_if_needed", "wait_for_receive"}
      /\ pc[c] = "sleep" => attempt[c] <= limit[c]
      /\ pc[c] = "check" /\ op[c] # "mint_if_needed" => attempt[c] <= limit[c]
  OBVIOUS
<1>2. CASE pc[c] # "idle" /\ pc'[c] = "idle"
  BY <1>1, <1>2 DEF StepsLeft, LooksLeft, PCs
<1>3. CASE RpcFails(c) \/ Rejected(c) \/ \E t \in TxIds : Submit(c, t)
  <2>1. pc[c] # "idle" /\ pc'[c] = "idle"
    BY <1>3 DEF RpcFails, Rejected, Submit
  <2> QED BY <1>2, <2>1
<1>4. CASE Check(c)
  <2>1. /\ pc[c] = "check" /\ op' = op /\ limit' = limit /\ attempt' = attempt
        /\ pc'[c] = "idle" \/ pc'[c] = (IF op[c] = "mint_if_needed" THEN "submit" ELSE "sleep")
    BY <1>4 DEF Check, AfterCheck
  <2> QED BY <1>1, <1>2, <2>1 DEF StepsLeft, LooksLeft
<1>5. CASE Wake(c)
  <2>1. /\ pc[c] = "sleep" /\ op[c] = "wait_for_receive" /\ op' = op /\ limit' = limit
        /\ \/ pc'[c] = "idle"
           \/ /\ attempt[c] < limit[c] /\ attempt'[c] = attempt[c] + 1
              /\ pc'[c] = "check"
    BY <1>5 DEF Wake
  <2> QED BY <1>1, <1>2, <2>1 DEF StepsLeft, LooksLeft
<1> QED BY <1>3, <1>4, <1>5 DEF Proceed

\* The steps of the others leave a running call where it is.
LEMMA OthersKeepSteps ==
    ASSUME TypeOK, [Next]_vars, NEW c \in Clients, pc[c] # "idle", ~Proceed(c)
    PROVE  StepsLeft(c)' = StepsLeft(c)
<1> USE DEF TypeOK, Return, Goto
<1>1. CASE /\ pc'[c] = pc[c] /\ op'[c] = op[c]
           /\ limit'[c] = limit[c] /\ attempt'[c] = attempt[c]
  BY <1>1 DEF StepsLeft, LooksLeft
<1>2. CASE \/ \E t \in TxIds : Mine(t)
           \/ \E t \in TxIds, m \in Messages : RelayerSubmits(t, m)
           \/ UNCHANGED vars
  BY <1>1, <1>2 DEF Mine, RelayerSubmits, client, vars
<1>3. ASSUME NEW d \in Clients, NEW o \in Ops, NEW m \in Messages,
             NEW n \in WaitLimits \cup {0}, Call(d, o, m, n)
      PROVE  StepsLeft(c)' = StepsLeft(c)
  <2>1. d # c
    BY <1>3 DEF Call
  <2> QED BY <1>1, <1>3, <2>1 DEF Call
<1>4. ASSUME NEW d \in Clients, d # c, Proceed(d)
      PROVE  StepsLeft(c)' = StepsLeft(c)
  BY <1>1, <1>4 DEF Proceed, RpcFails, Check, AfterCheck, Wake, Submit, Rejected
<1> QED BY <1>2, <1>3, <1>4 DEF Next

\* Each step of a call lowers its bound, and no step of the chain, of a relayer or
\* of another client changes it: mint, mint_if_needed and wait_for_receive cannot
\* go on for ever, whoever else races for the message.
THEOREM CallStepsRunOut ==
    Spec => [][\A c \in Clients :
                  /\ Proceed(c) => StepsLeft(c)' < StepsLeft(c)
                  /\ pc[c] # "idle" /\ ~Proceed(c) => StepsLeft(c)' = StepsLeft(c)]_vars
<1>1. TypeOK /\ Counted /\ [Next]_vars =>
        [\A c \in Clients :
            /\ Proceed(c) => StepsLeft(c)' < StepsLeft(c)
            /\ pc[c] # "idle" /\ ~Proceed(c) => StepsLeft(c)' = StepsLeft(c)]_vars
  BY StepLowersOwn, OthersKeepSteps
<1> QED BY <1>1, TypeCorrect, CountedHolds, PTL DEF Spec

-----------------------------------------------------------------------------
(* The refinement *)

\* The chain and the calls, as the abstract specification sees them.
World == [m \in Messages |-> IF m \in used THEN "executed" ELSE "open"]
Told == [c \in Clients |-> AnswerOf(result[c], msg[c])]

\* A step of one client that executes nothing tells it something true, or nothing.
LEMMA AnswerStep ==
    ASSUME Inv, Inv', NEW c \in Clients, used' = used,
           \A o \in Clients \ {c} : result'[o] = result[o] /\ msg'[o] = msg[o]
    PROVE  [Inquiry!Next]_(Inquiry!vars)
<1>1. World' = World
  BY DEF World
<1>2. Told' = [Told EXCEPT ![c] = AnswerOf(result'[c], msg'[c])]
  BY DEF Told
<1>3. CASE result'[c] \in {"AlreadyRelayed", "Received"}
  <2>1. msg'[c] \in Messages /\ World[msg'[c]] = "executed"
    BY <1>3 DEF Inv, TypeOK, CompletionIsReal, World
  <2>2. Inquiry!Answer(c, msg'[c], "executed")
    BY <1>1, <1>2, <1>3, <2>1 DEF Inquiry!Answer, World, Told, AnswerOf
  <2> QED BY <2>1, <2>2 DEF Inquiry!Next
<1>4. CASE result'[c] \notin {"AlreadyRelayed", "Received"}
  <2>1. Inquiry!Withdraw(c)
    BY <1>1, <1>2, <1>4 DEF Inquiry!Withdraw, Inquiry!NoAnswer, World, Told, AnswerOf
  <2> QED BY <2>1 DEF Inquiry!Next
<1> QED BY <1>3, <1>4

\* A mined transaction settles its message, or reverts and settles nothing.
LEMMA MineRefines ==
    ASSUME Inv, NEW t \in TxIds, Mine(t)
    PROVE  [Inquiry!Next]_(Inquiry!vars)
<1>1. Told' = Told
  BY DEF Mine, client, Told
<1>2. txMsg[t] \in Messages
  BY DEF Mine, Inv, Chain
<1>3. CASE txMsg[t] \in used
  <2>1. World' = World
    BY <1>3 DEF Mine, World
  <2> QED BY <1>1, <2>1 DEF Inquiry!vars, World, Told
<1>4. CASE txMsg[t] \notin used
  <2>1. World' = [World EXCEPT ![txMsg[t]] = "executed"]
    BY <1>4 DEF Mine, World
  <2>2. Inquiry!Settle(txMsg[t], "executed")
    BY <1>1, <1>2, <1>4, <2>1 DEF Inquiry!Settle, World, Told
  <2> QED BY <1>2, <2>2 DEF Inquiry!Next
<1> QED BY <1>3, <1>4

\* The calls implement SettledAnswers, for any clients, relayers and messages.
THEOREM AnswersCorrect == Spec => AnswersAreSettled
<1>1. Init => Inquiry!Init
  BY DEF Init, AnswerOf, Inquiry!Init, Inquiry!NoAnswer
<1>2. Inv /\ Inv' /\ [Next]_vars => [Inquiry!Next]_(Inquiry!vars)
  <2> SUFFICES ASSUME Inv, Inv', [Next]_vars PROVE [Inquiry!Next]_(Inquiry!vars)
    OBVIOUS
  <2>1. CASE UNCHANGED <<used, result, msg>>
    BY <2>1 DEF Inquiry!vars
  <2>2. CASE \E t \in TxIds : Mine(t)
    BY <2>2, MineRefines
  <2>3. CASE \E t \in TxIds, m \in Messages : RelayerSubmits(t, m)
    BY <2>1, <2>3 DEF RelayerSubmits, Enqueue, client
  <2>4. ASSUME NEW c \in Clients,
               \/ \E o \in Ops, m \in Messages, n \in WaitLimits \cup {0} : Call(c, o, m, n)
               \/ Proceed(c)
        PROVE  [Inquiry!Next]_(Inquiry!vars)
    <3>1. used' = used
      BY <2>4 DEF Call, Proceed, RpcFails, Check, Wake, Submit, Accepted, Enqueue,
         Rejected, chain
    <3>2. \A o \in Clients \ {c} : result'[o] = result[o] /\ msg'[o] = msg[o]
      BY <2>4 DEF Inv, TypeOK, Call, Proceed, RpcFails, Check, AfterCheck, Wake, Submit,
         Rejected, Return, Goto
    <3> QED BY <3>1, <3>2, AnswerStep
  <2>5. CASE UNCHANGED vars
    BY <2>1, <2>5 DEF vars
  <2> QED BY <2>2, <2>3, <2>4, <2>5 DEF Next
<1> QED BY <1>1, <1>2, InvHolds, PTL DEF Spec, AnswersAreSettled, Inquiry!Spec

\* By that contract alone an answer stays true: what it says is settled for good.
THEOREM AnswersStayTrue == AnswersAreSettled => []Inquiry!AnswersAreTrue
<1>1. Inquiry!Init => Inquiry!AnswersAreTrue
  BY DEF Inquiry!Init, Inquiry!AnswersAreTrue, Inquiry!NoAnswer
<1>2. Inquiry!AnswersAreTrue /\ [Inquiry!Next]_(Inquiry!vars) => Inquiry!AnswersAreTrue'
  <2> SUFFICES ASSUME Inquiry!AnswersAreTrue, [Inquiry!Next]_(Inquiry!vars)
               PROVE  Inquiry!AnswersAreTrue'
    OBVIOUS
  <2> USE DEF Inquiry!AnswersAreTrue, Inquiry!NoAnswer, World, Told
  <2>1. ASSUME NEW s \in Messages, NEW o \in {"executed"}, Inquiry!Settle(s, o)
        PROVE  Inquiry!AnswersAreTrue'
    BY <2>1 DEF Inquiry!Settle
  <2>2. ASSUME NEW a \in Clients, NEW s \in Messages, NEW o \in {"executed"},
               Inquiry!Answer(a, s, o)
        PROVE  Inquiry!AnswersAreTrue'
    <3>1. /\ World' = World /\ World[s] = o
          /\ Told' = [Told EXCEPT ![a] = [outcome |-> o, subject |-> s]]
      BY <2>2 DEF Inquiry!Answer
    <3>2. \A c \in Clients \ {a} : Told'[c] = Told[c]
      BY <3>1
    <3>3. Told'[a] = [outcome |-> o, subject |-> s]
      BY <3>1
    <3> QED BY <3>1, <3>2, <3>3
  <2>3. ASSUME NEW a \in Clients, Inquiry!Withdraw(a)
        PROVE  Inquiry!AnswersAreTrue'
    BY <2>3 DEF Inquiry!Withdraw
  <2>4. CASE UNCHANGED Inquiry!vars
    BY <2>4 DEF Inquiry!vars
  <2> QED BY <2>1, <2>2, <2>3, <2>4 DEF Inquiry!Next
<1> QED BY <1>1, <1>2, PTL DEF AnswersAreSettled, Inquiry!Spec

=============================================================================
