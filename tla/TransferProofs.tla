---------------------------- MODULE TransferProofs ----------------------------
(***************************************************************************)
(* Transfer implements CrossChainPayment, for any number of processes,     *)
(* burns, retries and crashes.  The inductive invariant says what the      *)
(* chains know of each other (Chains), what a process knows at each label  *)
(* (Labels), what it can rely on once its call returned (Verdicts), how    *)
(* many burns it may still send (Budget) and which burns stay within reach *)
(* (Kept).  Each step then moves one phase of the abstract specification,  *)
(* tells one caller something true, or changes nothing.  A bound on the    *)
(* steps that a flow and its retries may still take shows that with_retry  *)
(* ends.                                                                   *)
(***************************************************************************)
EXTENDS Transfer, TLAPS

\* Only attested messages reach the destination chain, only mined ones Circle.
Chains == \A b \in Burns : /\ iris[b] # "silent" => burnTx[b] = "mined"
                           /\ mempool[b] > 0 \/ b \in received => iris[b] = "attested"

\* A process that has burned holds its burn, and mints only what is attested.
Labels == \A c \in Callers :
             /\ pc[c] # "idle" => result[c] = "none"
             /\ pc[c] \notin {"idle", "burn"} => held[c] \in Burns
             /\ pc[c] \in {"check", "submit", "wait"} => iris[held[c]] = "attested"

\* What a returned result says of the burn that the process holds.
Verdicts == \A c \in Callers :
               /\ result[c] \in {"Network", "AttestationTimeout"} => held[c] \in Burns
               /\ result[c] = "Minted" => held[c] \in Burns /\ iris[held[c]] = "attested"
               /\ result[c] \in {"AlreadyRelayed", "Received"} => held[c] \in received
               /\ result[c] = "AttestationFailed" =>
                     held[c] \in Burns /\ iris[held[c]] = "failed"

\* A process about to burn has not yet used up the burns of its call.
Budget == \A c \in Callers :
             IF flow[c] = "transfer"
             THEN /\ spent[c] <= tries[c]
                  /\ pc[c] = "burn" => spent[c] < tries[c]
             ELSE /\ spent[c] <= 1
                  /\ pc[c] = "burn" => spent[c] = 0

\* A stepwise flow runs with a burn whose hash the application has; no process
\* that is about to burn holds one, and transfer neither looks nor waits.
Kept == \A c \in Callers :
           /\ flow[c] # "transfer" => held[c] \in known \cup {NoBurn}
           /\ pc[c] = "burn" => held[c] = NoBurn
           /\ pc[c] \in {"check", "wait"} => flow[c] # "transfer"

Inv == TypeOK /\ Chains /\ Labels /\ Verdicts /\ Budget /\ Kept

-----------------------------------------------------------------------------
(* The invariant *)

\* Processes and chains start in the invariant.
LEMMA InitInv == Init => Inv
  BY BoundsAssumption DEF Init, Inv, TypeOK, Chains, Labels, Verdicts, Budget, Kept, PCs, Flows,
     Results, Errors, Successes, NoBurn

\* NoBurn is no burn.
LEMMA NoBurnIsNoBurn == NoBurn \notin Burns
  BY BoundsAssumption DEF NoBurn, Burns

\* The chains, Circle and the relayers keep it.
LEMMA EnvironmentStep == Inv /\ Environment => Inv'
<1> SUFFICES ASSUME Inv, NEW b \in Burns,
                    MineBurn(b) \/ IrisDecides(b) \/ RelayerSubmits(b) \/ MineMint(b)
             PROVE  Inv'
  BY DEF Environment
<1> USE DEF Inv, TypeOK, MineBurn, IrisDecides, RelayerSubmits, MineMint, Pend, process
<1>1. TypeOK'
  BY BoundsAssumption
<1>2. Chains'
  BY DEF Chains
<1>3. received \subseteq received' /\ \A o \in Burns : iris[o] # "silent" => iris'[o] = iris[o]
  OBVIOUS
<1>4. Labels' /\ Verdicts'
  BY <1>3 DEF Labels, Verdicts
<1>5. Budget'
  BY DEF Budget
<1>6. Kept'
  BY DEF Kept
<1> QED BY <1>1, <1>2, <1>4, <1>5, <1>6

\* Beginning, resuming, retrying and crashing keep it.
LEMMA ApplicationStep ==
    ASSUME Inv, NEW c \in Callers,
           \/ \E f \in Flows : Pay(c, f)
           \/ \E f \in Flows, b \in Burns : Resume(c, f, b)
           \/ Retry(c)
           \/ Crash(c)
    PROVE  Inv'
<1> USE DEF Inv, TypeOK, chains, Goto, Return
<1>1. ASSUME NEW f \in Flows, Pay(c, f) PROVE Inv'
  BY <1>1, BoundsAssumption DEF Pay, Chains, Labels, Verdicts, Budget, Kept, PCs, Results
<1>2. ASSUME NEW f \in Flows, NEW b \in Burns, Resume(c, f, b) PROVE Inv'
  BY <1>2, BoundsAssumption DEF Resume, Chains, Labels, Verdicts, Budget, Kept, PCs, Results
<1>3. CASE Retry(c)
  BY <1>3 DEF Retry, Chains, Labels, Verdicts, Budget, Kept, PCs, Results
<1>4. CASE Crash(c)
  BY <1>4 DEF Crash, Chains, Labels, Verdicts, Budget, Kept, PCs, Results
<1> QED BY <1>1, <1>2, <1>3, <1>4

\* The steps that bring a call to its end keep it.
LEMMA ProceedStep ==
    ASSUME Inv, NEW c \in Callers, Proceed(c)
    PROVE  Inv'
<1> USE DEF Inv, TypeOK, chains, Goto, Return, Results, Errors, Successes, SendFailures,
            CallFailures
<1>1. CASE BurnFails(c)
  BY <1>1 DEF BurnFails, Chains, Labels, Verdicts, Budget, Kept, PCs
<1>2. ASSUME NEW b \in Burns, BurnSent(c, b) PROVE Inv'
  <2>1. TypeOK'
    BY <1>2 DEF BurnSent, PCs
  <2>2. burnTx[b] = "unused" /\ iris[b] = "silent"
    BY <1>2, BoundsAssumption DEF BurnSent, Chains, Burns
  <2>3. Chains'
    BY <1>2, <2>2 DEF BurnSent, Chains
  <2>4. Labels' /\ Verdicts'
    BY <1>2 DEF BurnSent, Labels, Verdicts
  <2>5. Budget'
    BY <1>2 DEF BurnSent, Budget
  <2>6. Kept'
    BY <1>2 DEF BurnSent, Kept
  <2> QED BY <2>1, <2>3, <2>4, <2>5, <2>6
<1>3. CASE Attest(c)
  BY <1>3 DEF Attest, NextStep, Flows, Chains, Labels, Verdicts, Budget, Kept, PCs
<1>4. CASE Check(c)
  BY <1>4 DEF Check, Chains, Labels, Verdicts, Budget, Kept, PCs
<1>5. CASE MintSent(c)
  <2>1. held[c] \in Burns /\ iris[held[c]] = "attested"
    BY <1>5 DEF MintSent, Labels
  <2>2. TypeOK'
    BY <1>5, <2>1, BoundsAssumption DEF MintSent, Pend, PCs
  <2>3. Chains'
    BY <1>5, <2>1 DEF MintSent, Pend, Chains
  <2>4. Labels' /\ Verdicts'
    BY <1>5, <2>1 DEF MintSent, Pend, Labels, Verdicts
  <2>5. Budget'
    BY <1>5 DEF MintSent, Pend, Budget
  <2>6. Kept'
    BY <1>5 DEF MintSent, Pend, Kept
  <2> QED BY <2>2, <2>3, <2>4, <2>5, <2>6
<1>6. CASE MintFails(c)
  BY <1>6 DEF MintFails, Chains, Labels, Verdicts, Budget, Kept, PCs
<1>7. CASE Wait(c)
  BY <1>7 DEF Wait, Chains, Labels, Verdicts, Budget, Kept, PCs
<1> QED BY <1>1, <1>2, <1>3, <1>4, <1>5, <1>6, <1>7 DEF Proceed

\* Every step keeps the invariant.
LEMMA NextInv == Inv /\ [Next]_vars => Inv'
<1>1. Inv /\ UNCHANGED vars => Inv'
  BY DEF vars, Inv, TypeOK, Chains, Labels, Verdicts, Budget, Kept
<1> QED BY <1>1, EnvironmentStep, ApplicationStep, ProceedStep DEF Next

\* A step of one process leaves the others alone, and settles nothing.
LEMMA OneProcessMoves ==
    ASSUME Inv, NEW c \in Callers,
           \/ \E f \in Flows : Pay(c, f)
           \/ \E f \in Flows, b \in Burns : Resume(c, f, b)
           \/ Retry(c) \/ Crash(c) \/ Proceed(c)
    PROVE  /\ iris' = iris /\ received' = received
           /\ \A o \in Callers \ {c} :
                /\ pc'[o] = pc[o] /\ result'[o] = result[o] /\ held'[o] = held[o]
<1> USE DEF Inv, TypeOK, chains, Goto, Return
<1>1. CASE \/ \E f \in Flows : Pay(c, f)
           \/ \E f \in Flows, b \in Burns : Resume(c, f, b)
           \/ Retry(c) \/ Crash(c)
  BY <1>1 DEF Pay, Resume, Retry, Crash
<1>2. CASE Proceed(c)
  BY <1>2 DEF Proceed, BurnFails, BurnSent, Attest, Check, MintSent, MintFails, Wait
<1> QED BY <1>1, <1>2

-----------------------------------------------------------------------------
(* The refinement *)

\* The phases and the callers' knowledge, as the abstract specification sees them.
Phase == [b \in Burns |-> PhaseOf(b)]
Told == [c \in Callers |-> ToldTo(c)]

\* What a process was told is true of its burn, in every state of Inv.
LEMMA ToldIsSupported == Inv => Payment!ToldIsTrue
<1> SUFFICES ASSUME Inv, NEW c \in Callers, Verdict(result[c]) # "unknown"
             PROVE  /\ held[c] \in Burns
                    /\ Payment!Supports(PhaseOf(held[c]), Verdict(result[c]))
  BY DEF Payment!ToldIsTrue, ToldTo
<1>1. result[c] \in {"Minted", "AlreadyRelayed", "Received", "AttestationFailed"}
  BY DEF Verdict
<1>2. held[c] \in Burns
  BY <1>1 DEF Inv, TypeOK, Verdicts
<1>3. CASE result[c] = "Minted"
  BY <1>2, <1>3 DEF Inv, Verdicts, Verdict, PhaseOf, Payment!Supports
<1>4. CASE result[c] \in {"AlreadyRelayed", "Received"}
  BY <1>2, <1>4 DEF Inv, Verdicts, Verdict, PhaseOf, Payment!Supports
<1>5. CASE result[c] = "AttestationFailed"
  <2>1. held[c] \notin received
    BY <1>2, <1>5 DEF Inv, Verdicts, Chains
  <2> QED BY <1>2, <1>5, <2>1 DEF Inv, Verdicts, Verdict, PhaseOf, Payment!Supports
<1> QED BY <1>1, <1>2, <1>3, <1>4, <1>5

\* A step that moves no phase and concerns one process tells it something true,
\* leaves it in the dark, or changes nothing.
LEMMA TellStep ==
    ASSUME Payment!ToldIsTrue', NEW c \in Callers, Phase' = Phase,
           \A o \in Callers \ {c} : result'[o] = result[o] /\ held'[o] = held[o]
    PROVE  [Payment!Next]_(Payment!vars)
<1>1. \A o \in Callers \ {c} : ToldTo(o)' = ToldTo(o)
  BY DEF ToldTo, Verdict
<1>2. Told' = [Told EXCEPT ![c] = ToldTo(c)']
  BY <1>1 DEF Told
<1>3. CASE Verdict(result[c])' = "unknown"
  <2>1. ToldTo(c)' = Payment!Unknown
    BY <1>3 DEF ToldTo, Payment!Unknown
  <2>2. Payment!Forget(c)
    BY <1>2, <2>1 DEF Payment!Forget, Phase, Told
  <2> QED BY <2>2 DEF Payment!Next
<1>4. CASE Verdict(result[c])' # "unknown"
  <2>1. ToldTo(c)' = [verdict |-> Verdict(result[c])', burn |-> held'[c]]
    BY <1>4 DEF ToldTo
  <2>2. /\ held'[c] \in Burns
        /\ Payment!Supports(Phase'[held'[c]], Verdict(result[c])')
    <3>1. ToldTo(c)'.verdict # "unknown" =>
             /\ ToldTo(c)'.burn \in Burns
             /\ Payment!Supports(Phase'[ToldTo(c)'.burn], ToldTo(c)'.verdict)
      BY DEF Payment!ToldIsTrue, Phase, Payment!Supports
    <3> QED BY <1>4, <2>1, <3>1
  <2>3. Verdict(result[c])' \in Payment!Verdicts
    BY DEF Verdict, Payment!Verdicts
  <2>4. Payment!Tell(c, Verdict(result[c])', held'[c])
    BY <1>2, <2>1, <2>2 DEF Payment!Tell, Phase, Told, Payment!Supports
  <2> QED BY <1>4, <2>2, <2>3, <2>4 DEF Payment!Next
<1> QED BY <1>3, <1>4

\* The chains move phases; every caller knows what it knew.
LEMMA EnvironmentRefines ==
    ASSUME Inv, NEW b \in Burns,
           MineBurn(b) \/ IrisDecides(b) \/ RelayerSubmits(b) \/ MineMint(b)
    PROVE  [Payment!Next]_(Payment!vars)
<1>1. Told' = Told
  BY DEF MineBurn, IrisDecides, RelayerSubmits, MineMint, process, Told, ToldTo, Verdict
<1>2. \A o \in Burns \ {b} : PhaseOf(o)' = PhaseOf(o)
  BY DEF Inv, TypeOK, MineBurn, IrisDecides, RelayerSubmits, MineMint, PhaseOf
<1>3. Phase' = [Phase EXCEPT ![b] = PhaseOf(b)']
  BY <1>2 DEF Phase
<1>4. CASE MineBurn(b)
  <2>1. PhaseOf(b) = "submitted" /\ PhaseOf(b)' \in {"burned", "reverted"}
    BY <1>4 DEF MineBurn, Inv, TypeOK, Chains, PhaseOf
  <2>2. Payment!Settle(b)
    BY <1>1, <1>3, <2>1 DEF Payment!Settle, Payment!Move, Phase, Told
  <2> QED BY <2>2 DEF Payment!Next
<1>5. CASE IrisDecides(b)
  <2>1. PhaseOf(b) = "burned" /\ PhaseOf(b)' \in {"attested", "failed"}
    BY <1>5 DEF IrisDecides, Inv, TypeOK, Chains, PhaseOf
  <2>2. Payment!Attest(b)
    BY <1>1, <1>3, <2>1 DEF Payment!Attest, Payment!Move, Phase, Told
  <2> QED BY <2>2 DEF Payment!Next
<1>6. CASE RelayerSubmits(b)
  <2>1. Phase' = Phase
    BY <1>6 DEF RelayerSubmits, Phase, PhaseOf
  <2> QED BY <1>1, <2>1 DEF Payment!vars, Phase, Told
<1>7. CASE MineMint(b)
  <2>1. iris[b] = "attested" /\ PhaseOf(b)' = "delivered"
    BY <1>7 DEF MineMint, Inv, TypeOK, Chains, PhaseOf
  <2>2. CASE b \in received
    <3>1. Phase' = Phase
      BY <1>7, <2>2 DEF MineMint, Inv, TypeOK, Phase, PhaseOf
    <3> QED BY <1>1, <3>1 DEF Payment!vars, Phase, Told
  <2>3. CASE b \notin received
    <3>1. PhaseOf(b) = "attested"
      BY <2>1, <2>3 DEF PhaseOf
    <3>2. Payment!Deliver(b)
      BY <1>1, <1>3, <2>1, <3>1 DEF Payment!Deliver, Payment!Move, Phase, Told
    <3> QED BY <3>2 DEF Payment!Next
  <2> QED BY <2>2, <2>3
<1> QED BY <1>4, <1>5, <1>6, <1>7

\* A burn that is sent enters its first phase; its sender is in the dark.
LEMMA BurnSentRefines ==
    ASSUME Inv, NEW c \in Callers, NEW b \in Burns, BurnSent(c, b)
    PROVE  [Payment!Next]_(Payment!vars)
<1> USE DEF Inv, TypeOK
<1>1. burnTx[b] = "unused" /\ iris[b] = "silent" /\ b \notin received
  BY BoundsAssumption DEF BurnSent, Chains, Burns
<1>2. PhaseOf(b) = "none" /\ PhaseOf(b)' = "submitted"
  BY <1>1 DEF BurnSent, PhaseOf
<1>3. Phase' = [Phase EXCEPT ![b] = "submitted"]
  <2>1. \A o \in Burns \ {b} : PhaseOf(o)' = PhaseOf(o)
    BY DEF BurnSent, PhaseOf
  <2> QED BY <1>2, <2>1 DEF Phase
<1>4. Told' = [Told EXCEPT ![c] = Payment!Unknown]
  <2>1. Verdict(result[c])' = "unknown"
    BY DEF BurnSent, Goto, Return, SendFailures, Verdict
  <2>2. \A o \in Callers \ {c} : ToldTo(o)' = ToldTo(o)
    BY DEF BurnSent, Goto, Return, ToldTo, Verdict
  <2> QED BY <2>1, <2>2 DEF Told, ToldTo, Payment!Unknown
<1>5. Payment!Submit(b)
  BY <1>2, <1>3, <1>4 DEF Payment!Submit, Payment!Move, Phase, Told
<1> QED BY <1>5 DEF Payment!Next

\* Every other step of a process leaves the phases alone.
LEMMA ProcessRefines ==
    ASSUME Inv, Payment!ToldIsTrue', NEW c \in Callers,
           \/ \E f \in Flows : Pay(c, f)
           \/ \E f \in Flows, b \in Burns : Resume(c, f, b)
           \/ Retry(c) \/ Crash(c)
           \/ BurnFails(c) \/ Attest(c) \/ Check(c) \/ MintSent(c) \/ MintFails(c)
           \/ Wait(c)
    PROVE  [Payment!Next]_(Payment!vars)
<1>1. UNCHANGED <<burnTx, iris, received>>
  BY DEF chains, Pay, Resume, Retry, Crash, BurnFails, Attest, Check, MintSent, MintFails,
     Wait
<1>2. Phase' = Phase
  BY <1>1 DEF Phase, PhaseOf
<1>3. \A o \in Callers \ {c} : result'[o] = result[o] /\ held'[o] = held[o]
  BY DEF Inv, TypeOK, Goto, Return, Pay, Resume, Retry, Crash, BurnFails, Attest, Check,
     MintSent, MintFails, Wait
<1> QED BY <1>2, <1>3, TellStep

-----------------------------------------------------------------------------
(* The theorems *)

\* The inductive invariant holds in every behaviour.
THEOREM InvHolds == Spec => []Inv
<1> QED BY InitInv, NextInv, PTL DEF Spec

\* The chains and the processes keep their types.
THEOREM TypeCorrect == Spec => []TypeOK
<1>1. Inv => TypeOK
  BY DEF Inv
<1> QED BY <1>1, InvHolds, PTL

\* A stepwise payment burns once, transfer at most once per attempt.
THEOREM BurnCorrect == Spec => []OneBurnPerPayment
<1>1. Inv => OneBurnPerPayment
  BY DEF Inv, Budget, OneBurnPerPayment
<1> QED BY <1>1, InvHolds, PTL

\* A running process that loses its grip on a burn nobody else can reach runs a
\* transfer, and does not return what it set out for.
LEMMA ForgetStep ==
    ASSUME Inv, [Next]_vars, NEW b \in Burns, InReach(b), ~InReach(b)'
    PROVE  \E c \in Callers : /\ flow[c] = "transfer" /\ held[c] = b
                              /\ pc[c] # "idle" /\ pc'[c] = "idle"
                              /\ result'[c] \notin Successes
<1> USE DEF Inv, TypeOK
<1>1. known \subseteq known'
  BY DEF Next, vars, Environment, MineBurn, IrisDecides, RelayerSubmits, MineMint,
     process, chains, Pay, Resume, Retry, Crash, Proceed, BurnFails, BurnSent, Attest,
     Check, MintSent, MintFails, Wait
<1>2. b \notin known'
  BY DEF InReach
<1>3. PICK c \in Callers : pc[c] # "idle" /\ held[c] = b
  BY <1>1, <1>2 DEF InReach
<1>4. flow[c] = "transfer"
  BY <1>1, <1>2, <1>3, NoBurnIsNoBurn DEF Kept
<1>5. ~(pc'[c] # "idle" /\ held'[c] = b)
  BY DEF InReach
<1>6. Crash(c) \/ Proceed(c)
  <2>1. ~(Environment \/ UNCHANGED vars)
    BY <1>3, <1>5 DEF Environment, MineBurn, IrisDecides, RelayerSubmits, MineMint,
       process, vars
  <2>2. ASSUME NEW d \in Callers, d # c,
               \/ \E f \in Flows : Pay(d, f)
               \/ \E f \in Flows, o \in Burns : Resume(d, f, o)
               \/ Retry(d) \/ Crash(d) \/ Proceed(d)
        PROVE  FALSE
    <3>1. pc'[c] = pc[c] /\ held'[c] = held[c]
      BY <2>2, OneProcessMoves
    <3> QED BY <1>3, <1>5, <3>1
  <2>3. ~(\/ \E f \in Flows : Pay(c, f)
          \/ \E f \in Flows, o \in Burns : Resume(c, f, o)
          \/ Retry(c))
    BY <1>3 DEF Pay, Resume, Retry
  <2> QED BY <2>1, <2>2, <2>3 DEF Next
<1>7. pc'[c] = "idle" /\ result'[c] \notin Successes
  <2> USE DEF Goto, Return, Successes, SendFailures, CallFailures
  <2>1. CASE Crash(c) \/ BurnFails(c)
    BY <2>1 DEF Crash, BurnFails
  <2>2. ~(\E o \in Burns : BurnSent(c, o))
    BY <1>3, NoBurnIsNoBurn DEF BurnSent, Kept
  <2>3. CASE Attest(c)
    <3>1. NextStep(flow[c]) = "submit"
      BY <1>4 DEF NextStep
    <3> QED BY <1>3, <1>5, <2>3, <3>1 DEF Attest
  <2>4. ~(Check(c) \/ Wait(c))
    BY <1>4 DEF Check, Wait, Kept
  <2>5. CASE MintSent(c)
    BY <1>2, <1>3, <2>5 DEF MintSent
  <2>6. CASE MintFails(c)
    BY <1>4, <2>6 DEF MintFails
  <2> QED BY <1>6, <2>1, <2>2, <2>3, <2>4, <2>5, <2>6 DEF Proceed
<1> QED BY <1>3, <1>4, <1>7

\* A burn gets out of everybody's reach only with a transfer that fails or crashes.
THEOREM ForgettingCorrect == Spec => OnlyTransferForgetsItsBurn
<1>1. Inv /\ [Next]_vars =>
        [\A b \in Burns : InReach(b) /\ ~InReach(b)' =>
            \E c \in Callers : /\ flow[c] = "transfer" /\ held[c] = b
                               /\ pc[c] # "idle" /\ pc'[c] = "idle"
                               /\ result'[c] \notin Successes]_vars
  BY ForgetStep
<1> QED BY <1>1, InvHolds, PTL DEF Spec, OnlyTransferForgetsItsBurn

\* What a caller was told last about its burn is true, and stays so.
THEOREM ToldCorrect == Spec => []Payment!ToldIsTrue
<1> QED BY ToldIsSupported, InvHolds, PTL

\* The flows implement the promise made to their callers.
THEOREM PaymentCorrect == Spec => PaymentIsHonest
<1>1. Init => Payment!Init
  BY DEF Init, Payment!Init, PhaseOf, ToldTo, Verdict, Payment!Unknown
<1>2. Inv /\ Payment!ToldIsTrue' /\ [Next]_vars => [Payment!Next]_(Payment!vars)
  <2> SUFFICES ASSUME Inv, Payment!ToldIsTrue', [Next]_vars
               PROVE  [Payment!Next]_(Payment!vars)
    OBVIOUS
  <2>1. CASE UNCHANGED vars
    BY <2>1 DEF vars, Payment!vars, PhaseOf, ToldTo, Verdict
  <2>2. CASE Environment
    BY <2>2, EnvironmentRefines DEF Environment
  <2>3. CASE \E c \in Callers, f \in Flows : Pay(c, f)
    BY <2>3, ProcessRefines
  <2>4. CASE \E c \in Callers, f \in Flows, b \in Burns : Resume(c, f, b)
    BY <2>4, ProcessRefines
  <2>5. CASE \E c \in Callers : Retry(c) \/ Crash(c) \/ Proceed(c)
    BY <2>5, ProcessRefines, BurnSentRefines DEF Proceed
  <2> QED BY <2>1, <2>2, <2>3, <2>4, <2>5 DEF Next
<1> QED BY <1>1, <1>2, InvHolds, ToldIsSupported, PTL
        DEF Spec, PaymentIsHonest, Payment!Spec

-----------------------------------------------------------------------------
(* The steps at which a flow asks: get_attestation asks Circle, and the check *)
(* and the wait ask the destination chain.  Each is one step here, and many   *)
(* in AttestationPolling and MintRelay; all of them implement SettledAnswers, *)
(* so that a flow assumes no more of its steps than the two modules achieve.  *)

\* What a process goes on with from get_attestation, or was told by it.
AttestationOf(c) ==
    IF pc[c] \in {"check", "submit", "wait"}
    THEN [outcome |-> "attested", subject |-> held[c]]
    ELSE IF result[c] = "AttestationFailed"
    THEN [outcome |-> "failed", subject |-> held[c]]
    ELSE [outcome |-> "silent", subject |-> NoBurn]

Attestation == INSTANCE SettledAnswers WITH
                   Subjects <- Burns, Askers <- Callers,
                   Outcomes <- {"attested", "failed"}, Open <- "silent",
                   NoSubject <- NoBurn, world <- iris,
                   answered <- [c \in Callers |-> AttestationOf(c)]

\* What a process was told of the destination chain.
DeliveryOf(c) ==
    IF result[c] \in {"AlreadyRelayed", "Received"}
    THEN [outcome |-> "executed", subject |-> held[c]]
    ELSE [outcome |-> "open", subject |-> NoBurn]

Executed == [b \in Burns |-> IF b \in received THEN "executed" ELSE "open"]

Delivery == INSTANCE SettledAnswers WITH
                Subjects <- Burns, Askers <- Callers,
                Outcomes <- {"executed"}, Open <- "open",
                NoSubject <- NoBurn, world <- Executed,
                answered <- [c \in Callers |-> DeliveryOf(c)]

Attested == [c \in Callers |-> AttestationOf(c)]
Delivered == [c \in Callers |-> DeliveryOf(c)]

\* A process that goes on from get_attestation goes on with what Circle attested,
\* and gives a burn up only if Circle failed it.
LEMMA AttestationStep ==
    ASSUME Inv, Inv', NEW c \in Callers, iris' = iris,
           \A o \in Callers \ {c} :
              pc'[o] = pc[o] /\ result'[o] = result[o] /\ held'[o] = held[o]
    PROVE  [Attestation!Next]_(Attestation!vars)
<1>1. Attested' = [Attested EXCEPT ![c] = AttestationOf(c)']
  BY DEF Attested, AttestationOf
<1>2. CASE pc'[c] \in {"check", "submit", "wait"}
  <2>1. held'[c] \in Burns /\ iris[held'[c]] = "attested"
    BY <1>2 DEF Inv, Labels
  <2>2. Attestation!Answer(c, held'[c], "attested")
    BY <1>1, <1>2, <2>1 DEF Attestation!Answer, Attested, AttestationOf
  <2> QED BY <2>1, <2>2 DEF Attestation!Next
<1>3. CASE pc'[c] \notin {"check", "submit", "wait"} /\ result'[c] = "AttestationFailed"
  <2>1. held'[c] \in Burns /\ iris[held'[c]] = "failed"
    BY <1>3 DEF Inv, Verdicts
  <2>2. Attestation!Answer(c, held'[c], "failed")
    BY <1>1, <1>3, <2>1 DEF Attestation!Answer, Attested, AttestationOf
  <2> QED BY <2>1, <2>2 DEF Attestation!Next
<1>4. CASE pc'[c] \notin {"check", "submit", "wait"} /\ result'[c] # "AttestationFailed"
  <2>1. Attestation!Withdraw(c)
    BY <1>1, <1>4 DEF Attestation!Withdraw, Attestation!NoAnswer, Attested, AttestationOf
  <2> QED BY <2>1 DEF Attestation!Next
<1> QED BY <1>2, <1>3, <1>4

\* A process is told that its burn was delivered only once it was.
LEMMA DeliveryStep ==
    ASSUME Inv, Inv', NEW c \in Callers, received' = received,
           \A o \in Callers \ {c} : result'[o] = result[o] /\ held'[o] = held[o]
    PROVE  [Delivery!Next]_(Delivery!vars)
<1>1. Executed' = Executed /\ Delivered' = [Delivered EXCEPT ![c] = DeliveryOf(c)']
  BY DEF Executed, Delivered, DeliveryOf
<1>2. CASE result'[c] \in {"AlreadyRelayed", "Received"}
  <2>1. held'[c] \in Burns /\ Executed[held'[c]] = "executed"
    BY <1>2 DEF Inv, TypeOK, Verdicts, Executed
  <2>2. Delivery!Answer(c, held'[c], "executed")
    BY <1>1, <1>2, <2>1 DEF Delivery!Answer, Delivered, DeliveryOf
  <2> QED BY <2>1, <2>2 DEF Delivery!Next
<1>3. CASE result'[c] \notin {"AlreadyRelayed", "Received"}
  <2>1. Delivery!Withdraw(c)
    BY <1>1, <1>3 DEF Delivery!Withdraw, Delivery!NoAnswer, Delivered, DeliveryOf
  <2> QED BY <2>1 DEF Delivery!Next
<1> QED BY <1>2, <1>3

\* Circle settles a burn once, the destination chain a message once.
LEMMA EnvironmentSettles ==
    ASSUME Inv, NEW b \in Burns,
           MineBurn(b) \/ IrisDecides(b) \/ RelayerSubmits(b) \/ MineMint(b)
    PROVE  /\ [Attestation!Next]_(Attestation!vars)
           /\ [Delivery!Next]_(Delivery!vars)
<1>1. Attested' = Attested /\ Delivered' = Delivered
  BY DEF MineBurn, IrisDecides, RelayerSubmits, MineMint, process, Attested,
     AttestationOf, Delivered, DeliveryOf
<1>2. CASE MineBurn(b) \/ RelayerSubmits(b)
  <2>1. iris' = iris /\ Executed' = Executed
    BY <1>2 DEF MineBurn, RelayerSubmits, Executed
  <2> QED BY <1>1, <2>1 DEF Attestation!vars, Delivery!vars, Attested, Delivered
<1>3. CASE IrisDecides(b)
  <2>1. PICK s \in {"attested", "failed"} : iris' = [iris EXCEPT ![b] = s]
    BY <1>3 DEF IrisDecides
  <2>2. Attestation!Settle(b, s)
    BY <1>1, <1>3, <2>1 DEF IrisDecides, Attestation!Settle, Attested
  <2>3. Executed' = Executed
    BY <1>3 DEF IrisDecides, Executed
  <2> QED BY <1>1, <2>2, <2>3 DEF Attestation!Next, Delivery!vars, Delivered
<1>4. CASE MineMint(b)
  <2>1. iris' = iris /\ received' = received \cup {b}
    BY <1>4 DEF MineMint
  <2>2. CASE b \in received
    <3>1. Executed' = Executed
      BY <2>1, <2>2 DEF Executed
    <3> QED BY <1>1, <2>1, <3>1 DEF Attestation!vars, Delivery!vars, Attested, Delivered
  <2>3. CASE b \notin received
    <3>1. Executed' = [Executed EXCEPT ![b] = "executed"]
      BY <2>1 DEF Executed
    <3>2. Delivery!Settle(b, "executed")
      BY <1>1, <2>3, <3>1 DEF Delivery!Settle, Executed, Delivered
    <3> QED BY <1>1, <2>1, <3>2 DEF Attestation!vars, Delivery!Next, Attested
  <2> QED BY <2>2, <2>3
<1> QED BY <1>2, <1>3, <1>4

\* The flows ask Circle and the destination chain as SettledAnswers has it: what
\* get_attestation and the looks do in one step is what their details achieve.
THEOREM StepsAreAnswers == Spec => Attestation!Spec /\ Delivery!Spec
<1>1. Init => Attestation!Init /\ Delivery!Init
  BY DEF Init, Attestation!Init, Attestation!NoAnswer, Delivery!Init, Delivery!NoAnswer,
     AttestationOf, DeliveryOf, Executed
<1>2. Inv /\ Inv' /\ [Next]_vars => /\ [Attestation!Next]_(Attestation!vars)
                                    /\ [Delivery!Next]_(Delivery!vars)
  <2> SUFFICES ASSUME Inv, Inv', [Next]_vars
               PROVE  /\ [Attestation!Next]_(Attestation!vars)
                      /\ [Delivery!Next]_(Delivery!vars)
    OBVIOUS
  <2>1. CASE UNCHANGED vars
    BY <2>1 DEF vars, Attestation!vars, Delivery!vars, AttestationOf, DeliveryOf, Executed
  <2>2. CASE Environment
    BY <2>2, EnvironmentSettles DEF Environment
  <2>3. ASSUME NEW c \in Callers,
               \/ \E f \in Flows : Pay(c, f)
               \/ \E f \in Flows, b \in Burns : Resume(c, f, b)
               \/ Retry(c) \/ Crash(c) \/ Proceed(c)
        PROVE  /\ [Attestation!Next]_(Attestation!vars)
               /\ [Delivery!Next]_(Delivery!vars)
    BY <2>3, OneProcessMoves, AttestationStep, DeliveryStep
  <2> QED BY <2>1, <2>2, <2>3 DEF Next
<1> QED BY <1>1, <1>2, InvHolds, PTL DEF Spec, Attestation!Spec, Delivery!Spec

-----------------------------------------------------------------------------
(* The end of a flow *)

\* The steps that the process c may still take, retries included, at most.
RetriesLeft(c) == IF tries[c] < RetryAttempts THEN RetryAttempts - tries[c] ELSE 0
StagesLeft(c) == CASE pc[c] = "idle"             -> 0
                   [] pc[c] \in {"submit", "wait"} -> 1
                   [] pc[c] = "check"            -> 2
                   [] pc[c] = "attest"           -> 3
                   [] pc[c] = "burn"             -> 4
StepsLeft(c) == 5 * RetriesLeft(c) + StagesLeft(c)

\* In a state of the right type the bound is a natural number.
LEMMA BoundIsNatural ==
    ASSUME TypeOK, NEW c \in Callers
    PROVE  StepsLeft(c) \in Nat /\ (StepsLeft(c) = 0 => pc[c] = "idle")
<1>1. RetriesLeft(c) \in Nat
  BY BoundsAssumption DEF TypeOK, RetriesLeft
<1>2. StagesLeft(c) \in Nat /\ (StagesLeft(c) = 0 => pc[c] = "idle")
  BY DEF TypeOK, PCs, StagesLeft
<1> QED BY <1>1, <1>2 DEF StepsLeft

\* The bound is a natural number, and zero only for a process that has returned.
THEOREM StepsLeftIsNatural ==
    Spec => [](\A c \in Callers : StepsLeft(c) \in Nat /\ (StepsLeft(c) = 0 => pc[c] = "idle"))
<1>1. TypeOK =>
        \A c \in Callers : StepsLeft(c) \in Nat /\ (StepsLeft(c) = 0 => pc[c] = "idle")
  BY BoundIsNatural
<1> QED BY <1>1, TypeCorrect, PTL

\* A step of a flow comes to a later stage of the same attempt.
LEMMA ProceedLowers ==
    ASSUME TypeOK, NEW c \in Callers, Proceed(c)
    PROVE  StepsLeft(c)' < StepsLeft(c)
<1> USE DEF TypeOK, Return, Goto
<1>1. tries' = tries /\ RetriesLeft(c) \in Nat
  BY BoundsAssumption DEF RetriesLeft, Proceed, BurnFails, BurnSent, Attest, Check,
     MintSent, MintFails, Wait
<1>2. StagesLeft(c) \in Nat /\ StagesLeft(c)' \in Nat /\ StagesLeft(c)' < StagesLeft(c)
  <2>1. CASE BurnFails(c) \/ MintSent(c) \/ MintFails(c) \/ Wait(c)
    <3>1. pc[c] \in {"burn", "submit", "wait"} /\ pc'[c] = "idle"
      BY <2>1 DEF BurnFails, MintSent, MintFails, Wait
    <3> QED BY <3>1 DEF StagesLeft
  <2>2. CASE \E b \in Burns : BurnSent(c, b)
    <3>1. pc[c] = "burn" /\ pc'[c] \in {"attest", "idle"}
      BY <2>2 DEF BurnSent
    <3> QED BY <3>1 DEF StagesLeft
  <2>3. CASE Attest(c)
    <3>1. NextStep(flow[c]) \in {"submit", "check", "wait"}
      BY DEF NextStep, Flows
    <3>2. pc[c] = "attest" /\ pc'[c] \in {"submit", "check", "wait", "idle"}
      BY <2>3, <3>1 DEF Attest
    <3> QED BY <3>2 DEF StagesLeft
  <2>4. CASE Check(c)
    <3>1. pc[c] = "check" /\ pc'[c] \in {"submit", "idle"}
      BY <2>4 DEF Check
    <3> QED BY <3>1 DEF StagesLeft
  <2> QED BY <2>1, <2>2, <2>3, <2>4 DEF Proceed
<1>3. RetriesLeft(c)' = RetriesLeft(c)
  BY <1>1 DEF RetriesLeft
<1> QED BY <1>1, <1>2, <1>3 DEF StepsLeft

\* A retry uses up one of the attempts, which pays for the stages it goes back.
LEMMA RetryLowers ==
    ASSUME TypeOK, NEW c \in Callers, Retry(c)
    PROVE  StepsLeft(c)' < StepsLeft(c)
<1> USE DEF TypeOK, Goto
<1>1. /\ tries[c] \in Nat /\ tries[c] < RetryAttempts /\ tries'[c] = tries[c] + 1
      /\ pc[c] = "idle" /\ pc'[c] \in {"burn", "attest"}
  BY DEF Retry
<1>2. RetriesLeft(c) \in Nat /\ RetriesLeft(c)' = RetriesLeft(c) - 1
  BY <1>1, BoundsAssumption DEF RetriesLeft
<1>3. StagesLeft(c) = 0 /\ StagesLeft(c)' \in {3, 4}
  BY <1>1 DEF StagesLeft
<1> QED BY <1>2, <1>3 DEF StepsLeft

\* Who begins no call and does not crash is not set back by anybody.
LEMMA NobodySetsBack ==
    ASSUME TypeOK, TypeOK', [Next]_vars, NEW c \in Callers, calls' = calls,
           ~Crash(c)
    PROVE  StepsLeft(c)' <= StepsLeft(c)
<1> USE DEF TypeOK, Goto, Return
<1>1. CASE pc'[c] = pc[c] /\ tries'[c] = tries[c]
  <2>1. StepsLeft(c)' = StepsLeft(c)
    BY <1>1 DEF StepsLeft, RetriesLeft, StagesLeft
  <2>2. StepsLeft(c) \in Nat
    BY BoundIsNatural
  <2> QED BY <2>1, <2>2
<1>2. CASE Environment \/ UNCHANGED vars
  BY <1>1, <1>2 DEF Environment, MineBurn, IrisDecides, RelayerSubmits, MineMint,
     process, vars
<1>3. ASSUME NEW d \in Callers,
             \/ \E f \in Flows : Pay(d, f)
             \/ \E f \in Flows, b \in Burns : Resume(d, f, b)
      PROVE  FALSE
  BY <1>3 DEF Pay, Resume
<1>4. ASSUME NEW d \in Callers, d # c, Retry(d) \/ Crash(d) \/ Proceed(d)
      PROVE  StepsLeft(c)' <= StepsLeft(c)
  <2>1. pc'[c] = pc[c] /\ tries'[c] = tries[c]
    <3>1. CASE Retry(d) \/ Crash(d)
      BY <1>4, <3>1 DEF Retry, Crash
    <3>2. CASE Proceed(d)
      BY <1>4, <3>2 DEF Proceed, BurnFails, BurnSent, Attest, Check, MintSent, MintFails,
         Wait
    <3> QED BY <1>4, <3>1, <3>2
  <2> QED BY <1>1, <2>1
<1>5. CASE Retry(c) \/ Proceed(c)
  <2>1. StepsLeft(c)' < StepsLeft(c)
    BY <1>5, ProceedLowers, RetryLowers
  <2>2. StepsLeft(c) \in Nat
    BY BoundIsNatural
  <2>3. StepsLeft(c)' \in Nat
    <3>1. RetriesLeft(c)' \in Nat
      BY BoundsAssumption DEF RetriesLeft
    <3>2. StagesLeft(c)' \in Nat
      BY DEF StagesLeft, PCs
    <3> QED BY <3>1, <3>2 DEF StepsLeft
  <2> QED BY <2>1, <2>2, <2>3
<1> QED BY <1>2, <1>3, <1>4, <1>5 DEF Next

\* Each step and each retry of a flow lowers its bound; only a crash of its process or
\* a new call raises it.  So with_retry ends: a payment that is retried over and
\* over comes to an answer, whatever the chains, Circle and the relayers do.
THEOREM FlowStepsRunOut ==
    Spec => [][\A c \in Callers :
                  /\ Proceed(c) \/ Retry(c) => StepsLeft(c)' < StepsLeft(c)
                  /\ calls' = calls /\ ~Crash(c) => StepsLeft(c)' <= StepsLeft(c)]_vars
<1>1. Inv /\ Inv' /\ [Next]_vars =>
        [\A c \in Callers :
            /\ Proceed(c) \/ Retry(c) => StepsLeft(c)' < StepsLeft(c)
            /\ calls' = calls /\ ~Crash(c) => StepsLeft(c)' <= StepsLeft(c)]_vars
  BY ProceedLowers, RetryLowers, NobodySetsBack DEF Inv
<1> QED BY <1>1, InvHolds, PTL DEF Spec

=============================================================================
