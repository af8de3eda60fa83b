----------------------- MODULE AttestationPollingProofs -----------------------
(***************************************************************************)
(* The invariants of AttestationPolling, proved for every number of        *)
(* messages, every polling configuration and every behaviour of Iris that  *)
(* keeps what it signed.  The inductive invariant adds to the properties   *)
(* what the loop knows at each control point: how many requests the        *)
(* current attempt stands for (Control), what they have cost so far        *)
(* (Account), and how the reply in hand relates to Iris now (Snapshot).    *)
(* The end of a call is proved by a bound that each of its steps lowers.   *)
(***************************************************************************)
EXTENDS AttestationPolling, TLAPS

\* Requests whose sleep has been taken or begun.
Answered == IF pc = "decide" THEN requests - 1 ELSE requests

Cost(n, l) == (n - l) * config.poll_interval_secs + l * RateLimitSecs

Control == /\ pc = "start" => requests = 0 /\ result = NoResult
           /\ pc \in {"request", "decide", "sleeping"} =>
                /\ Valid(config) /\ result = NoResult
                /\ 1 <= attempt /\ attempt <= config.max_attempts
           /\ pc = "request" => requests = attempt - 1
           /\ pc \in {"decide", "sleeping"} => requests = attempt
           /\ pc # "sleeping" => nap = 0
           /\ requests <= config.max_attempts
           /\ result.kind = "AttestationTimeout" => requests = config.max_attempts

Account == /\ result.kind \in {"none", "AttestationTimeout"} =>
                 slept + nap = Cost(Answered, limited)
           /\ slept + nap >= Answered \/ pc = "done"
           /\ slept + 1 >= requests

Snapshot == /\ pc = "decide" /\ reply.kind = "served" =>
                 \A i \in Slots : Keeps(reply.entries[i], iris[i])
            /\ sawUsable =>
                 CASE pc = "decide" -> /\ reply.kind = "served"
                                       /\ Readable(version, reply.entries)
                                       /\ UsableSlots(version, reply.entries) # {}
                   [] pc = "done"   -> result.kind = "Ok"
                   [] OTHER         -> FALSE

Inv == TypeOK /\ Control /\ Account /\ Snapshot
         /\ ReturnedPairIsAttested /\ FailureIsFinal

-----------------------------------------------------------------------------
(* Facts about the helpers *)

\* What Iris keeps over two steps it keeps over both.
LEMMA KeepsTransitive ==
    ASSUME NEW e \in Entry, NEW f \in Entry, NEW g \in Entry,
           Keeps(e, f), Keeps(f, g)
    PROVE  Keeps(e, g)
BY DEF Keeps

\* One more request costs a poll interval, or five minutes if it was limited.
LEMMA CostStep ==
    ASSUME config \in PollingConfig, NEW n \in Int, NEW l \in Int
    PROVE  /\ Cost(n, l) = Cost(n - 1, l) + config.poll_interval_secs
           /\ Cost(n, l + 1) = Cost(n - 1, l) + RateLimitSecs
           /\ Cost(0, 0) = 0
<1>1. config.poll_interval_secs \in Int /\ RateLimitSecs \in Int
  BY SecondsAssumption DEF PollingConfig
<1>2. ASSUME NEW a \in Int, NEW b \in Int
      PROVE  /\ (n - l) * a + l * b = (((n - 1) - l) * a + l * b) + a
             /\ (n - (l + 1)) * a + (l + 1) * b = (((n - 1) - l) * a + l * b) + b
             /\ (0 - 0) * a + 0 * b = 0
  OBVIOUS
<1> QED BY <1>1, <1>2 DEF Cost

-----------------------------------------------------------------------------
(* The invariant *)

\* The initial states satisfy the invariant: nothing sent, nothing slept.
LEMMA InitInv == Init => Inv
<1> SUFFICES ASSUME Init PROVE Inv
  OBVIOUS
<1>1. TypeOK
  <2>1. iris \in [Slots -> Entry]
    BY DEF Init, Entry, AttestationStatus
  <2>2. reply \in [kind : ReplyKinds, entries : [Slots -> Entry]]
    BY <2>1 DEF Init, ReplyKinds
  <2>3. result \in [kind : Errors \cup {"none", "Ok"},
                    message : 0 .. NumMessages, attestation : 0 .. NumMessages]
    BY NumMessagesAssumption DEF Init, NoResult
  <2> QED BY <2>1, <2>2, <2>3, PollingConfigsAssumption DEF Init, TypeOK
<1>2. Control
  BY <1>1 DEF Init, TypeOK, Control, NoResult, PollingConfig
<1>3. Account
  <2>1. config \in PollingConfig /\ Cost(0, 0) = 0
    BY <1>1, CostStep DEF TypeOK
  <2> QED BY <2>1 DEF Init, Account, Answered
<1>4. Snapshot /\ ReturnedPairIsAttested /\ FailureIsFinal
  BY DEF Init, Snapshot, ReturnedPairIsAttested, FailureIsFinal, NoResult
<1> QED BY <1>1, <1>2, <1>3, <1>4 DEF Inv

\* Every step keeps the types.
LEMMA TypeStep == Inv /\ [Next]_vars => TypeOK'
<1> SUFFICES ASSUME Inv, [Next]_vars PROVE TypeOK'
  OBVIOUS
<1> USE NumMessagesAssumption, SecondsAssumption, IrisEntriesAssumption
    DEF Inv, TypeOK, irisVars, history
<1>1. CASE IrisIndexes \/ IrisLists
  BY <1>1 DEF IrisIndexes, IrisLists
<1>2. CASE \E i \in Slots, e \in IrisEntries : IrisUpdates(i, e)
  BY <1>2 DEF IrisUpdates
<1>3. CASE Start
  BY <1>3 DEF Start, Return, Err, Errors
<1>4. CASE Request
  <2>1. Answers \subseteq ReplyKinds
    BY DEF Answers, ReplyKinds
  <2>2. PICK k \in Answers : reply' = [kind |-> k, entries |-> iris]
    BY <1>4 DEF Request
  <2>3. reply' \in [kind : ReplyKinds, entries : [Slots -> Entry]]
    BY <2>1, <2>2
  <2> QED BY <1>4, <2>3 DEF Request
<1>5. ASSUME NEW k, Deciding(k)
      PROVE  reply' \in [kind : ReplyKinds, entries : [Slots -> Entry]]
  BY <1>5 DEF Deciding, ReplyKinds
<1>6. CASE DecideTransportError
  BY <1>5, <1>6 DEF DecideTransportError, Deciding, Return, Err, Errors
<1>7. CASE DecideRateLimited \/ DecideNotFound \/ DecideUndecodable
  BY <1>5, <1>7 DEF DecideRateLimited, DecideNotFound, DecideUndecodable, Deciding,
                    SleepFor, PollingConfig
<1>8. CASE DecideServed
  <2>1. config.poll_interval_secs \in Nat
    BY DEF PollingConfig
  <2>2. nap' \in Nat /\ pc' \in {"start", "request", "decide", "sleeping", "done"}
    BY <1>8, <2>1 DEF DecideServed, Return, SleepFor
  <2>3. result' \in [kind : Errors \cup {"none", "Ok"},
                     message : 0 .. NumMessages, attestation : 0 .. NumMessages]
    BY <1>8 DEF DecideServed, Return, SleepFor, Err, Errors, Slots
  <2> QED BY <1>5, <1>8, <2>2, <2>3 DEF DecideServed, Deciding
<1>9. CASE Wake
  BY <1>9 DEF Wake, Err, Errors
<1>10. CASE Returned \/ UNCHANGED vars
  BY <1>10 DEF Returned, vars
<1> QED BY <1>1, <1>2, <1>3, <1>4, <1>6, <1>7, <1>8, <1>9, <1>10 DEF Next, Client

\* Every step keeps what the loop knows of its requests.
LEMMA ControlStep == Inv /\ [Next]_vars => Control'
<1> SUFFICES ASSUME Inv, [Next]_vars PROVE Control'
  OBVIOUS
<1> USE DEF Inv, TypeOK, Control, irisVars, history, NoResult, PollingConfig
<1>1. CASE IrisIndexes \/ IrisLists \/ \E i \in Slots, e \in IrisEntries : IrisUpdates(i, e)
  BY <1>1 DEF IrisIndexes, IrisLists, IrisUpdates
<1>2. CASE Start
  BY <1>2 DEF Start, Return, Err, Valid
<1>3. CASE Request
  BY <1>3 DEF Request, Valid
<1>4. CASE DecideTransportError
  BY <1>4 DEF DecideTransportError, Deciding, Return, Err, Valid
<1>5. CASE DecideRateLimited \/ DecideNotFound \/ DecideUndecodable
  BY <1>5 DEF DecideRateLimited, DecideNotFound, DecideUndecodable, Deciding,
              SleepFor, Valid
<1>6. CASE DecideServed
  BY <1>6 DEF DecideServed, Deciding, Return, SleepFor, Err, Valid
<1>7. CASE Wake
  BY <1>7 DEF Wake, Err, Valid
<1>8. CASE Returned \/ UNCHANGED vars
  BY <1>8 DEF Returned, vars, Valid
<1> QED BY <1>1, <1>2, <1>3, <1>4, <1>5, <1>6, <1>7, <1>8 DEF Next, Client

\* Every step keeps the account of the time slept.
LEMMA AccountStep == Inv /\ [Next]_vars => Account'
<1> SUFFICES ASSUME Inv, [Next]_vars PROVE Account'
  OBVIOUS
<1> USE DEF Inv, TypeOK, irisVars, history
<1>1. config \in PollingConfig /\ config.poll_interval_secs \in Nat
  BY DEF PollingConfig
<1>2. CASE config' = config /\ UNCHANGED <<pc, nap, slept, requests, limited, result>>
  BY <1>2 DEF Account, Answered, Cost
<1>3. CASE Start
  <2>1. requests = 0 /\ nap = 0
    BY <1>3 DEF Start, Control
  <2>2. config' = config /\ limited' = limited /\ requests' = 0 /\ slept' = slept
    BY <1>3, <2>1 DEF Start
  <2>3. nap' = nap /\ pc' # "decide" /\ result'.kind \in {"none", "InvalidConfig"}
    BY <1>3 DEF Start, Return, Err, Control, NoResult
  <2>4. Cost(0, limited)' = Cost(0, limited)
    BY <2>2 DEF Cost
  <2>5. slept + nap = Cost(0, limited)
    BY <1>3, <2>1 DEF Start, Account, Answered, Control, NoResult
  <2> QED BY <1>3, <2>1, <2>2, <2>3, <2>4, <2>5 DEF Start, Account, Answered
<1>4. CASE Request
  <2>1. /\ requests' = requests + 1 /\ pc = "request" /\ pc' = "decide"
        /\ UNCHANGED <<config, nap, slept, limited, result>>
        /\ result = NoResult /\ nap = 0
    BY <1>4 DEF Request, Control
  <2>2. slept + nap = Cost(requests, limited) /\ slept + nap >= requests
    BY <2>1 DEF Account, Answered, NoResult
  <2>3. Answered' = requests
    BY <2>1 DEF Answered
  <2>4. slept' + nap' = Cost(Answered, limited)'
    BY <2>1, <2>2, <2>3 DEF Cost
  <2>5. slept' + nap' >= Answered' /\ slept' + 1 >= requests'
    BY <2>1, <2>2, <2>3
  <2> QED BY <2>4, <2>5 DEF Account
<1>5. ASSUME NEW k, Deciding(k)
      PROVE  /\ pc = "decide" /\ config' = config /\ requests' = requests /\ slept' = slept
             /\ nap = 0 /\ result = NoResult /\ requests \in Nat \ {0}
             /\ slept = Cost(requests - 1, limited) /\ slept >= requests - 1
             /\ config.poll_interval_secs >= 1
  <2>1. /\ pc = "decide" /\ config' = config /\ requests' = requests /\ slept' = slept
        /\ nap = 0 /\ result = NoResult /\ requests \in Nat \ {0}
        /\ config.poll_interval_secs >= 1
    BY <1>1, <1>5 DEF Deciding, Control, Valid
  <2>2. slept + nap = Cost(requests - 1, limited) /\ slept + nap >= requests - 1
    BY <2>1 DEF Account, Answered, NoResult
  <2> QED BY <2>1, <2>2
<1>6. ASSUME NEW k, Deciding(k), SleepFor(config.poll_interval_secs), limited' = limited
      PROVE  Account'
  <2>1. Cost(requests, limited) = Cost(requests - 1, limited) + config.poll_interval_secs
    BY <1>1, CostStep, requests \in Int, limited \in Int
  <2>2. Cost(requests, limited)' = Cost(requests, limited)
    BY <1>5, <1>6 DEF Cost
  <2> QED BY <1>1, <1>5, <1>6, <2>1, <2>2 DEF Account, Answered, SleepFor
<1>7. ASSUME NEW k, NEW r, Deciding(k), Return(r), limited' = limited,
             r.kind \notin {"none", "AttestationTimeout"}
      PROVE  Account'
  BY <1>5, <1>7 DEF Account, Return
<1>8. CASE DecideTransportError
  BY <1>7, <1>8 DEF DecideTransportError, Err
<1>9. CASE DecideRateLimited
  <2>1. Cost(requests, limited + 1) = Cost(requests - 1, limited) + RateLimitSecs
    BY <1>1, CostStep, requests \in Int, limited \in Int
  <2>2. Cost(requests, limited)' = Cost(requests, limited + 1)
    BY <1>5, <1>9 DEF Cost, DecideRateLimited
  <2> QED BY <1>1, <1>5, <1>9, <2>1, <2>2, SecondsAssumption
          DEF DecideRateLimited, Account, Answered, SleepFor
<1>10. CASE DecideNotFound \/ DecideUndecodable
  BY <1>6, <1>10 DEF DecideNotFound, DecideUndecodable
<1>11. CASE DecideServed
  BY <1>6, <1>7, <1>11 DEF DecideServed, Err
<1>12. CASE Wake
  <2>1. /\ config' = config /\ requests' = requests /\ limited' = limited
        /\ slept' + nap' = slept + nap /\ pc = "sleeping" /\ nap' = 0
        /\ pc' \in {"request", "done"} /\ result = NoResult
    BY <1>12 DEF Wake, Control
  <2>2. Cost(requests, limited)' = Cost(requests, limited)
    BY <2>1 DEF Cost
  <2>3. slept + nap = Cost(requests, limited) /\ slept + nap >= requests
    BY <2>1 DEF Account, Answered, NoResult
  <2> QED BY <1>12, <2>1, <2>2, <2>3 DEF Wake, Account, Answered
<1>13. CASE IrisIndexes \/ IrisLists \/ \E i \in Slots, e \in IrisEntries : IrisUpdates(i, e)
  BY <1>2, <1>13 DEF IrisIndexes, IrisLists, IrisUpdates
<1>14. CASE Returned \/ UNCHANGED vars
  BY <1>2, <1>14 DEF Returned, vars
<1> QED BY <1>3, <1>4, <1>8, <1>9, <1>10, <1>11, <1>12, <1>13, <1>14 DEF Next, Client

\* Every step keeps what the reply in hand says of Iris.
LEMMA SnapshotStep == Inv /\ [Next]_vars => Snapshot'
<1> SUFFICES ASSUME Inv, [Next]_vars PROVE Snapshot'
  OBVIOUS
<1> USE DEF Inv, TypeOK, irisVars, history
<1>1. CASE UNCHANGED <<version, pc, reply, iris, sawUsable, result>>
  BY <1>1 DEF Snapshot, Readable, UsableSlots, Usable, Asked
<1>2. CASE IrisIndexes \/ IrisLists \/ Returned \/ UNCHANGED vars
  BY <1>1, <1>2 DEF IrisIndexes, IrisLists, Returned, vars
<1>3. ASSUME NEW i \in Slots, NEW e \in IrisEntries, IrisUpdates(i, e)
      PROVE  Snapshot'
  <2>1. UNCHANGED <<version, pc, reply, sawUsable, result>>
    BY <1>3 DEF IrisUpdates
  <2>2. ASSUME pc = "decide", reply.kind = "served", NEW j \in Slots
        PROVE  Keeps(reply.entries[j], iris'[j])
    <3>1. /\ reply.entries[j] \in Entry /\ iris[j] \in Entry /\ iris'[j] \in Entry
          /\ Keeps(iris[j], iris'[j])
      BY <1>3, IrisEntriesAssumption DEF IrisUpdates, Keeps
    <3>2. Keeps(reply.entries[j], iris[j])
      BY <2>2 DEF Snapshot
    <3> QED BY <3>1, <3>2, KeepsTransitive
  <2> QED BY <2>1, <2>2 DEF Snapshot, Readable, UsableSlots, Usable, Asked
<1>4. CASE Start
  BY <1>4 DEF Start, Return, Snapshot
<1>5. CASE Request
  <2>1. ~sawUsable /\ pc' = "decide" /\ iris' = iris /\ version' = version
    BY <1>5 DEF Request, Snapshot
  <2>2. PICK k \in Answers :
          /\ reply' = [kind |-> k, entries |-> iris]
          /\ sawUsable' => /\ k = "served"
                           /\ Readable(version, iris)
                           /\ UsableSlots(version, iris) # {}
    BY <1>5, <2>1 DEF Request
  <2>3. \A i \in Slots : Keeps(iris[i], iris[i])
    BY DEF Keeps
  <2> QED BY <2>1, <2>2, <2>3 DEF Snapshot, Readable, UsableSlots, Usable, Asked
<1>6. ASSUME NEW k, Deciding(k), k # "served", pc' # "decide"
      PROVE  Snapshot'
  BY <1>6 DEF Deciding, Snapshot
<1>7. CASE DecideTransportError \/ DecideRateLimited \/ DecideNotFound
  BY <1>6, <1>7 DEF DecideTransportError, DecideRateLimited, DecideNotFound, Return, SleepFor
<1>8. CASE DecideUndecodable
  BY <1>8 DEF DecideUndecodable, Deciding, SleepFor, Snapshot
<1>9. CASE DecideServed
  <2>1. pc = "decide" /\ pc' # "decide" /\ sawUsable' = sawUsable
    BY <1>9 DEF DecideServed, Deciding, Return, SleepFor
  <2>2. CASE sawUsable
    <3>1. Outcome(version, reply.entries) = "Ready"
      BY <2>1, <2>2 DEF Snapshot, Outcome
    <3>2. pc' = "done" /\ result'.kind = "Ok"
      BY <1>9, <3>1 DEF DecideServed, Return
    <3> QED BY <3>2 DEF Snapshot
  <2> QED BY <2>1, <2>2 DEF Snapshot
<1>10. CASE Wake
  BY <1>10 DEF Wake, Snapshot
<1> QED BY <1>2, <1>3, <1>4, <1>5, <1>7, <1>8, <1>9, <1>10 DEF Next, Client

\* Every step keeps the two facts about a returned verdict.
LEMMA VerdictStep ==
    Inv /\ [Next]_vars => ReturnedPairIsAttested' /\ FailureIsFinal'
<1> SUFFICES ASSUME Inv, [Next]_vars PROVE ReturnedPairIsAttested' /\ FailureIsFinal'
  OBVIOUS
<1> USE DEF Inv, TypeOK, irisVars, history
<1>1. CASE UNCHANGED <<version, iris, result>>
  BY <1>1 DEF ReturnedPairIsAttested, FailureIsFinal, Usable, Asked
<1>2. ASSUME UNCHANGED <<version, iris>>, result'.kind \notin {"Ok", "ApiReportedFailed"}
      PROVE  ReturnedPairIsAttested' /\ FailureIsFinal'
  BY <1>2 DEF ReturnedPairIsAttested, FailureIsFinal
<1>3. CASE \/ IrisIndexes \/ IrisLists \/ Request \/ DecideRateLimited \/ DecideNotFound
           \/ DecideUndecodable \/ Returned \/ UNCHANGED vars
  BY <1>1, <1>3 DEF IrisIndexes, IrisLists, Request, DecideRateLimited, DecideNotFound,
       DecideUndecodable, Deciding, SleepFor, Returned, vars
<1>4. CASE Start \/ DecideTransportError \/ Wake
  BY <1>1, <1>2, <1>4 DEF Start, DecideTransportError, Deciding, Wake, Return, Err
<1>5. ASSUME NEW i \in Slots, NEW e \in IrisEntries, IrisUpdates(i, e)
      PROVE  ReturnedPairIsAttested' /\ FailureIsFinal'
  <2>1. UNCHANGED <<version, result>>
        /\ \A j \in Slots : Keeps(iris[j], iris'[j]) /\ iris'[j] \in Entry
    BY <1>5, IrisEntriesAssumption DEF IrisUpdates, Keeps
  <2>2. Asked(version) \subseteq Slots
    BY NumMessagesAssumption DEF Asked, Slots
  <2> QED BY <2>1, <2>2 DEF ReturnedPairIsAttested, FailureIsFinal, Usable, Keeps, Asked
<1>6. CASE DecideServed
  <2>1. /\ UNCHANGED <<version, iris>>
        /\ Asked(version) \subseteq Slots
        /\ \A i \in Slots : /\ Keeps(reply.entries[i], iris[i])
                            /\ reply.entries[i] \in Entry /\ iris[i] \in Entry
    BY <1>6, NumMessagesAssumption DEF DecideServed, Deciding, Snapshot, Asked, Slots
  <2> DEFINE es == reply.entries
  <2>2. CASE Outcome(version, es) = "Ready"
    <3>1. PICK i \in Slots : /\ First(i, UsableSlots(version, es))
                             /\ result' = [kind |-> "Ok", message |-> i, attestation |-> i]
      BY <1>6, <2>2 DEF DecideServed, ReadySlots, Return
    <3>2. i \in Asked(version) /\ Usable(version, es[i])
      BY <3>1 DEF First, UsableSlots
    <3>3. Usable(version, iris[i])
      BY <2>1, <3>2 DEF Usable, Keeps
    <3> QED BY <2>1, <3>1, <3>2, <3>3 DEF ReturnedPairIsAttested, FailureIsFinal, Usable, Asked
  <2>3. CASE Outcome(version, es) = "Failed"
    <3>1. \A i \in Asked(version) : es[i].status = "failed"
      <4>1. /\ \A i \in Asked(version) : es[i].status # "unreadable"
            /\ ~SomeStatus(version, es, PendingStatuses)
            /\ ~SomeStatus(version, es, {"complete"})
        BY <1>6, <2>3 DEF DecideServed, Readable, Outcome
      <4> QED BY <2>1, <4>1 DEF SomeStatus, PendingStatuses, Entry, AttestationStatus
    <3>2. result'.kind = "ApiReportedFailed"
      BY <1>6, <2>3 DEF DecideServed, Return, Err
    <3>3. \A i \in Asked(version) : iris[i].status = "failed"
      BY <2>1, <3>1 DEF Keeps
    <3> QED BY <2>1, <3>2, <3>3 DEF ReturnedPairIsAttested, FailureIsFinal, Asked
  <2>4. CASE Outcome(version, es) \notin {"Ready", "Failed"}
    BY <1>1, <1>2, <1>6, <2>1, <2>4 DEF DecideServed, Return, SleepFor, Err
  <2> QED BY <2>2, <2>3, <2>4
<1> QED BY <1>3, <1>4, <1>5, <1>6 DEF Next, Client

-----------------------------------------------------------------------------
(* The theorems *)

\* The inductive invariant holds in every behaviour of a call.
THEOREM InvHolds == Spec => []Inv
<1>1. Init => Inv
  BY InitInv
<1>2. Inv /\ [Next]_vars => Inv'
  BY TypeStep, ControlStep, AccountStep, SnapshotStep, VerdictStep DEF Inv
<1> QED BY <1>1, <1>2, PTL DEF Spec

\* The variables of a call keep their types.
THEOREM TypeCorrect == Spec => []TypeOK
<1>1. Inv => TypeOK
  BY DEF Inv
<1> QED BY <1>1, InvHolds, PTL

\* The pair get_attestation returns belongs to one message, which Iris attests.
THEOREM PairCorrect == Spec => []ReturnedPairIsAttested
<1>1. Inv => ReturnedPairIsAttested
  BY DEF Inv
<1> QED BY <1>1, InvHolds, PTL

\* After a reported failure no message of the transaction becomes usable.
THEOREM FailureCorrect == Spec => []FailureIsFinal
<1>1. Inv => FailureIsFinal
  BY DEF Inv
<1> QED BY <1>1, InvHolds, PTL

\* No usable attestation in a readable reply is passed over.
THEOREM UsableCorrect == Spec => []UsableReplyIsReturned
<1>1. Inv => UsableReplyIsReturned
  BY DEF Inv, Snapshot, UsableReplyIsReturned
<1> QED BY <1>1, InvHolds, PTL

\* The request budget is respected, and spent before a timeout is reported.
THEOREM TimeoutCorrect == Spec => []TimeoutMeansExhausted
<1>1. Inv => TimeoutMeansExhausted
  <2> SUFFICES ASSUME Inv PROVE TimeoutMeansExhausted
    OBVIOUS
  <2>1. sawUsable /\ result.kind = "AttestationTimeout" => FALSE
    BY DEF Inv, Snapshot, Control, NoResult, TypeOK
  <2> QED BY <2>1 DEF Inv, Control, TimeoutMeansExhausted
<1> QED BY <1>1, InvHolds, PTL

\* What a call that times out has waited, to the second.
THEOREM WaitCorrect == Spec => []WaitIsAccounted
<1>1. Inv => WaitIsAccounted
  <2> SUFFICES ASSUME Inv, result.kind = "AttestationTimeout"
               PROVE  slept = Cost(config.max_attempts, limited)
    BY DEF WaitIsAccounted, Cost
  <2>1. pc = "done" /\ nap = 0 /\ requests = config.max_attempts
    BY DEF Inv, TypeOK, Control, NoResult
  <2> QED BY <2>1 DEF Inv, TypeOK, Account, Answered
<1> QED BY <1>1, InvHolds, PTL

\* The sleeps keep two requests at least a second apart.
THEOREM PaceCorrect == Spec => []RequestsArePaced
<1>1. Inv => RequestsArePaced
  BY DEF Inv, TypeOK, Account, RequestsArePaced
<1> QED BY <1>1, InvHolds, PTL

-----------------------------------------------------------------------------
(* The end of a call *)

\* The steps the client may still take, at most: three for each attempt left.
AttemptsLeft == config.max_attempts - attempt
StepsLeft == CASE pc = "start"    -> 3 * config.max_attempts + 1
               [] pc = "request"  -> 3 * AttemptsLeft + 3
               [] pc = "decide"   -> 3 * AttemptsLeft + 2
               [] pc = "sleeping" -> 3 * AttemptsLeft + 1
               [] pc = "done"     -> 0

\* The bound is a natural number, and zero only once the call has returned.
THEOREM StepsLeftIsNatural == Spec => [](StepsLeft \in Nat /\ (StepsLeft = 0 <=> pc = "done"))
<1>1. Inv => StepsLeft \in Nat /\ (StepsLeft = 0 <=> pc = "done")
  <2> SUFFICES ASSUME Inv PROVE StepsLeft \in Nat /\ (StepsLeft = 0 <=> pc = "done")
    OBVIOUS
  <2>1. config.max_attempts \in Nat /\ attempt \in Nat
    BY DEF Inv, TypeOK, PollingConfig
  <2>2. pc \in {"request", "decide", "sleeping"} => attempt <= config.max_attempts
    BY DEF Inv, Control
  <2> QED BY <2>1, <2>2 DEF Inv, TypeOK, StepsLeft, AttemptsLeft
<1> QED BY <1>1, InvHolds, PTL

\* Each step of the client lowers the bound and no step of Iris raises it: with a
\* natural number for a bound the loop of get_attestation cannot go on for ever,
\* whatever Iris replies, and a call makes at most 3 * max_attempts + 1 steps.
THEOREM ClientStepsRunOut ==
    Spec => [][StepsLeft' <= StepsLeft /\ (Client => StepsLeft' < StepsLeft)]_vars
<1>1. Inv /\ [Next]_vars =>
        [StepsLeft' <= StepsLeft /\ (Client => StepsLeft' < StepsLeft)]_vars
  <2> SUFFICES ASSUME Inv, Next
               PROVE  StepsLeft' <= StepsLeft /\ (Client => StepsLeft' < StepsLeft)
    OBVIOUS
  <2>1. /\ config.max_attempts \in Nat /\ attempt \in Nat
        /\ pc \in {"request", "decide", "sleeping"} => attempt <= config.max_attempts
        /\ pc \in {"start", "request", "decide", "sleeping", "done"}
    BY DEF Inv, TypeOK, Control, PollingConfig
  <2>2. StepsLeft \in Int
    BY <2>1 DEF StepsLeft, AttemptsLeft
  <2>3. ASSUME UNCHANGED <<config, pc, attempt>>, ~Client
        PROVE  StepsLeft' <= StepsLeft /\ (Client => StepsLeft' < StepsLeft)
    <3>1. StepsLeft' = StepsLeft
      BY <2>3 DEF StepsLeft, AttemptsLeft
    <3> QED BY <2>2, <2>3, <3>1
  <2>4. CASE Start
    <3>1. config' = config /\ pc = "start"
      BY <2>4 DEF Start
    <3>2. pc' = "done" \/ (pc' = "request" /\ attempt' = 1)
      BY <2>4, Zenon DEF Start, Return
    <3> QED BY <2>1, <3>1, <3>2 DEF StepsLeft, AttemptsLeft
  <2>5. CASE Request
    <3>1. config' = config /\ attempt' = attempt /\ pc = "request" /\ pc' = "decide"
      BY <2>5 DEF Request
    <3> QED BY <2>1, <3>1 DEF StepsLeft, AttemptsLeft
  <2>6. CASE \/ DecideTransportError \/ DecideRateLimited \/ DecideNotFound
             \/ DecideUndecodable \/ DecideServed
    <3>1. config' = config /\ attempt' = attempt /\ pc = "decide"
          /\ pc' \in {"sleeping", "done"}
      BY <2>6 DEF Deciding, DecideTransportError, DecideRateLimited, DecideNotFound,
                  DecideUndecodable, DecideServed, Return, SleepFor
    <3> QED BY <2>1, <3>1 DEF StepsLeft, AttemptsLeft
  <2>7. CASE Wake
    <3>1. config' = config /\ pc = "sleeping"
          /\ \/ attempt < config.max_attempts /\ attempt' = attempt + 1 /\ pc' = "request"
             \/ pc' = "done"
      BY <2>7 DEF Wake
    <3> QED BY <2>1, <3>1 DEF StepsLeft, AttemptsLeft
  <2>8. CASE ~Client
    BY <2>3, <2>8 DEF Next, IrisIndexes, IrisLists, IrisUpdates, Returned, vars
  <2> QED BY <2>4, <2>5, <2>6, <2>7, <2>8 DEF Client
<1> QED BY <1>1, InvHolds, PTL DEF Spec

-----------------------------------------------------------------------------
(* The refinement *)

\* The burn and the call, as the abstract specification sees them.
World == [s \in {"burn"} |-> VerdictOf(version, iris)]
Told == [a \in {"call"} |-> AnswerOf(result)]

\* What Iris has settled it keeps: a usable entry stays usable, a failed one failed.
LEMMA VerdictIsKept ==
    ASSUME Inv, NEW i \in Slots, NEW e \in IrisEntries, IrisUpdates(i, e)
    PROVE  /\ VerdictOf(version, iris) # "open" =>
                VerdictOf(version, iris)' = VerdictOf(version, iris)
           /\ version' = version /\ result' = result
<1>1. /\ version' = version /\ result' = result
      /\ \A j \in Slots : Keeps(iris[j], iris'[j])
  BY DEF IrisUpdates, Keeps, Inv, TypeOK
<1>2. Asked(version) \subseteq Slots /\ Asked(version) # {}
  BY NumMessagesAssumption DEF Asked, Slots
<1>3. \A j \in Asked(version) : Usable(version, iris[j]) => Usable(version, iris'[j])
  BY <1>1, <1>2 DEF Usable, Keeps
<1>4. ASSUME \A j \in Asked(version) : iris[j].status = "failed"
      PROVE  \A j \in Asked(version) : /\ iris'[j].status = "failed"
                                       /\ ~ Usable(version, iris'[j])
  BY <1>1, <1>2, <1>4 DEF Usable, Keeps
<1> QED BY <1>1, <1>3, <1>4 DEF VerdictOf

\* A step that leaves Iris alone answers truthfully, or claims nothing.
LEMMA AnswerStep ==
    ASSUME ReturnedPairIsAttested', FailureIsFinal', UNCHANGED <<version, iris>>
    PROVE  [Inquiry!Next]_(Inquiry!vars)
<1>1. World' = World
  BY DEF World, VerdictOf, Usable, Asked
<1>2. Told' = [Told EXCEPT !["call"] = AnswerOf(result')]
  BY DEF Told, AnswerOf
<1>3. CASE result'.kind = "Ok"
  <2>1. World["burn"] = "attested"
    BY <1>1, <1>3 DEF ReturnedPairIsAttested, World, VerdictOf, Usable, Asked
  <2>2. Inquiry!Answer("call", "burn", "attested")
    BY <1>1, <1>2, <1>3, <2>1 DEF Inquiry!Answer, World, Told, AnswerOf
  <2> QED BY <2>2 DEF Inquiry!Next
<1>4. CASE result'.kind = "ApiReportedFailed"
  <2>1. World["burn"] = "failed"
    BY <1>1, <1>4 DEF FailureIsFinal, World, VerdictOf, Usable, Asked
  <2>2. Inquiry!Answer("call", "burn", "failed")
    BY <1>1, <1>2, <1>4, <2>1 DEF Inquiry!Answer, World, Told, AnswerOf
  <2> QED BY <2>2 DEF Inquiry!Next
<1>5. CASE result'.kind \notin {"Ok", "ApiReportedFailed"}
  <2>1. Inquiry!Withdraw("call")
    BY <1>1, <1>2, <1>5 DEF Inquiry!Withdraw, Inquiry!NoAnswer, World, Told, AnswerOf
  <2> QED BY <2>1 DEF Inquiry!Next
<1> QED BY <1>3, <1>4, <1>5

\* A call implements SettledAnswers, whatever Iris does between reply and decision.
THEOREM AnswersCorrect == Spec => AnswersAreSettled
<1>1. Init => Inquiry!Init
  <2> SUFFICES ASSUME Init PROVE Inquiry!Init
    OBVIOUS
  <2>1. Asked(version) \subseteq Slots /\ 1 \in Asked(version)
    BY NumMessagesAssumption DEF Asked, Slots
  <2>2. VerdictOf(version, iris) = "open"
    BY <2>1 DEF Init, VerdictOf, Usable
  <2>3. AnswerOf(result) = [outcome |-> "open", subject |-> "none"]
    BY DEF Init, NoResult, AnswerOf
  <2> QED BY <2>2, <2>3 DEF Inquiry!Init, Inquiry!NoAnswer
<1>2. Inv /\ Inv' /\ [Next]_vars => [Inquiry!Next]_(Inquiry!vars)
  <2> SUFFICES ASSUME Inv, Inv', [Next]_vars PROVE [Inquiry!Next]_(Inquiry!vars)
    OBVIOUS
  <2>1. ASSUME NEW i \in Slots, NEW e \in IrisEntries, IrisUpdates(i, e)
        PROVE  [Inquiry!Next]_(Inquiry!vars)
    <3>1. Told' = Told
      BY <2>1, VerdictIsKept DEF Told, AnswerOf
    <3>2. CASE VerdictOf(version, iris) # "open"
      <4>1. World' = World
        BY <2>1, <3>2, VerdictIsKept DEF World
      <4> QED BY <3>1, <4>1 DEF Inquiry!vars, World, Told
    <3>3. CASE VerdictOf(version, iris) = "open"
      <4>1. World' = [World EXCEPT !["burn"] = VerdictOf(version, iris)']
        BY DEF World
      <4>2. VerdictOf(version, iris)' \in {"open", "attested", "failed"}
        BY DEF VerdictOf
      <4>3. CASE VerdictOf(version, iris)' = "open"
        BY <3>1, <3>3, <4>3 DEF Inquiry!vars, World, Told
      <4>4. CASE VerdictOf(version, iris)' # "open"
        <5>1. Inquiry!Settle("burn", VerdictOf(version, iris)')
          BY <3>1, <3>3, <4>1 DEF Inquiry!Settle, World, Told
        <5> QED BY <4>2, <4>4, <5>1 DEF Inquiry!Next
      <4> QED BY <4>3, <4>4
    <3> QED BY <3>2, <3>3
  <2>2. CASE UNCHANGED <<version, iris>>
    BY <2>2, AnswerStep DEF Inv
  <2>3. CASE Client
    BY <2>2, <2>3 DEF Client, irisVars, Start, Request, Deciding, DecideTransportError,
       DecideRateLimited, DecideNotFound, DecideUndecodable, DecideServed, Wake
  <2>4. CASE IrisIndexes \/ IrisLists \/ Returned \/ UNCHANGED vars
    BY <2>2, <2>4 DEF IrisIndexes, IrisLists, Returned, vars
  <2> QED BY <2>1, <2>3, <2>4 DEF Next
<1> QED BY <1>1, <1>2, InvHolds, PTL DEF Spec, AnswersAreSettled, Inquiry!Spec

\* By that contract alone an answer stays true: what it says is settled for good.
THEOREM AnswersStayTrue == AnswersAreSettled => []Inquiry!AnswersAreTrue
<1>1. Inquiry!Init => Inquiry!AnswersAreTrue
  BY DEF Inquiry!Init, Inquiry!AnswersAreTrue, Inquiry!NoAnswer
<1>2. Inquiry!AnswersAreTrue /\ [Inquiry!Next]_(Inquiry!vars) => Inquiry!AnswersAreTrue'
  <2> SUFFICES ASSUME Inquiry!AnswersAreTrue, [Inquiry!Next]_(Inquiry!vars)
               PROVE  Inquiry!AnswersAreTrue'
    OBVIOUS
  <2> USE DEF Inquiry!AnswersAreTrue, Inquiry!NoAnswer, World, Told
  <2>1. ASSUME NEW s \in {"burn"}, NEW o \in {"attested", "failed"}, Inquiry!Settle(s, o)
        PROVE  Inquiry!AnswersAreTrue'
    BY <2>1 DEF Inquiry!Settle
  <2>2. ASSUME NEW a \in {"call"}, NEW s \in {"burn"}, NEW o \in {"attested", "failed"},
               Inquiry!Answer(a, s, o)
        PROVE  Inquiry!AnswersAreTrue'
    <3>1. /\ World' = World /\ World[s] = o
          /\ Told' = [Told EXCEPT ![a] = [outcome |-> o, subject |-> s]]
      BY <2>2 DEF Inquiry!Answer
    <3>2. \A c \in {"call"} \ {a} : Told'[c] = Told[c]
      BY <3>1
    <3>3. Told'[a] = [outcome |-> o, subject |-> s]
      BY <3>1
    <3> QED BY <3>1, <3>2, <3>3
  <2>3. ASSUME NEW a \in {"call"}, Inquiry!Withdraw(a)
        PROVE  Inquiry!AnswersAreTrue'
    BY <2>3 DEF Inquiry!Withdraw
  <2>4. CASE UNCHANGED Inquiry!vars
    BY <2>4 DEF Inquiry!vars
  <2> QED BY <2>1, <2>2, <2>3, <2>4 DEF Inquiry!Next
<1> QED BY <1>1, <1>2, PTL DEF AnswersAreSettled, Inquiry!Spec

=============================================================================
