--------------------------- MODULE ApprovalProofs ---------------------------
(***************************************************************************)
(* Proofs about Approval, for any number of callers, any amounts and any   *)
(* bounds: its types, and what a call may rely on that no other call of    *)
(* its owner interferes with.  A call is also shown to take five steps at  *)
(* most, and not to be starved while it waits for its approval.            *)
(***************************************************************************)
EXTENDS Approval, TLAPS

\* A call under way has an amount.
TypeInv == TypeOK /\ \A c \in Callers : pc[c] # "idle" => amount[c] \in Amounts

\* The assumptions on the constants, as facts.
LEMMA Constants ==
  /\ Amounts \subseteq Nat \ {0} /\ Allowances \subseteq Nat
  /\ Balance \in Nat /\ MaxCalls \in Nat /\ MaxPending \in Nat
  /\ WaitChoices \subseteq BOOLEAN
BY AmountsAssumption, BoundsAssumption, WaitAssumption

\* The state of the token after a transaction (external: the ERC-20 token).
LEMMA ApplyTypes ==
  ASSUME NEW tx \in Txs, allowance \in Nat, balance \in 0 .. Balance
  PROVE  /\ Apply(Latest, tx).allowance \in Nat
         /\ Apply(Latest, tx).balance \in 0 .. Balance
<1> USE Constants
<1>1. tx.amount \in Nat  BY DEF Txs
<1>2. CASE tx.kind = "approve"
  BY <1>1, <1>2 DEF Apply, Latest
<1>3. CASE tx.kind # "approve"
  BY <1>1, <1>3 DEF Apply, Latest
<1> QED  BY <1>2, <1>3

\* What a call puts into the pool is one of its transactions.
LEMMA SendTypes ==
  ASSUME TypeInv, NEW c \in Callers, NEW kind \in {"approve", "burn"},
         pc[c] # "idle", Send(Tx(kind, amount[c], c))
  PROVE  pool' \in Seq(Txs) /\ Len(pool') =< MaxPending
<1>1. Tx(kind, amount[c], c) \in Txs
  BY DEF TypeInv, TypeOK, Tx, Txs
<1> QED  BY <1>1, Constants DEF Send, TypeInv, TypeOK

\* What an answer does: the call goes on reading, or the last one decides.
LEMMA ReadCases ==
  ASSUME NEW c, NEW what, Read(c, what)
  PROVE  LET lacking == short[c] \cup {x \in {what} : Lacks(c, x)}
         IN /\ pc[c] = "read" /\ what \in unread[c]
            /\ unread' = [unread EXCEPT ![c] = unread[c] \ {what}]
            /\ \/ /\ unread'[c] # {}
                  /\ short' = [short EXCEPT ![c] = lacking]
                  /\ UNCHANGED <<pc, result>>
               \/ /\ unread'[c] = {}
                  /\ short' = [short EXCEPT ![c] = {}]
                  /\ \/ "balance" \in lacking /\ Return(c, "InsufficientBalance")
                     \/ /\ "balance" \notin lacking /\ "allowance" \in lacking
                        /\ Goto(c, "approve")
                     \/ /\ "balance" \notin lacking /\ "allowance" \notin lacking
                        /\ Goto(c, "burn")
            /\ UNCHANGED <<allowance, balance, pool, checked, waits, amount, number,
                           calls, outcome, disturbed>>
BY DEF Read, token, args

\* The initial values have their types.
LEMMA TypeInvInit == Init => TypeInv
BY Constants DEF Init, TypeInv, TypeOK, PCs, Results, Outcomes, Reads

\* Every action keeps them.
LEMMA TypeInvStep == TypeInv /\ [Next]_vars => TypeInv'
<1> SUFFICES ASSUME TypeInv, [Next]_vars PROVE TypeInv'  OBVIOUS
<1> USE Constants DEF TypeInv, TypeOK, PCs, Results, Outcomes, Reads
<1>1. CASE Mine
  <2>1. Head(pool) \in Txs /\ Tail(pool) \in Seq(Txs)
        /\ Len(Tail(pool)) =< MaxPending
    BY <1>1 DEF Mine
  <2>2. allowance' \in Nat /\ balance' \in 0 .. Balance
    BY <1>1, <2>1, ApplyTypes DEF Mine
  <2>3. outcome' \in [Callers -> Outcomes]
    BY <1>1, <2>1 DEF Mine, Txs
  <2>4. disturbed' \in [Callers -> BOOLEAN]
    <3>1. \A c \in Callers : (disturbed[c] \/ ~Own(Head(pool), c)) \in BOOLEAN
      OBVIOUS
    <3> QED  BY <1>1, <3>1 DEF Mine
  <2> QED  BY <1>1, <2>1, <2>2, <2>3, <2>4 DEF Mine, call
<1>2. ASSUME NEW c \in Callers, NEW a \in Amounts, NEW b \in BOOLEAN,
             NEW w \in WaitChoices, Begin(c, a, b, w)
      PROVE  TypeInv'
  BY <1>2 DEF Begin, token
<1>3. ASSUME NEW c \in Callers, NEW what \in Reads, Read(c, what)
      PROVE  TypeInv'
  <2>1. /\ unread' = [unread EXCEPT ![c] = unread[c] \ {what}]
        /\ UNCHANGED <<allowance, balance, pool, checked, waits, amount, number,
                       calls, outcome, disturbed>>
    BY <1>3, ReadCases
  <2>2. \E l \in SUBSET Reads : short' = [short EXCEPT ![c] = l]
    <3>1. short[c] \cup {x \in {what} : Lacks(c, x)} \in SUBSET Reads  OBVIOUS
    <3> QED  BY <1>3, <3>1, ReadCases
  <2>3. pc[c] # "idle"  BY <1>3, ReadCases
  <2>4. /\ pc' = pc \/ \E p \in PCs : pc' = [pc EXCEPT ![c] = p]
        /\ result' = result \/ \E r \in Results : result' = [result EXCEPT ![c] = r]
    BY <1>3, ReadCases DEF Return, Goto
  <2>5. unread' \in [Callers -> SUBSET Reads]  BY <2>1
  <2>6. short' \in [Callers -> SUBSET Reads]  BY <2>2
  <2>7. pc' \in [Callers -> PCs] /\ result' \in [Callers -> Results]
    <3>1. pc' \in [Callers -> PCs]  BY <2>4
    <3>2. result' \in [Callers -> Results]  BY <2>4
    <3> QED  BY <3>1, <3>2
  <2>8. \A d \in Callers : pc'[d] # "idle" => amount[d] \in Amounts
    BY <2>3, <2>4
  <2> QED  BY <2>1, <2>5, <2>6, <2>7, <2>8
<1>4. ASSUME NEW c \in Callers, SendApproval(c) PROVE TypeInv'
  <2>1. pool' \in Seq(Txs) /\ Len(pool') =< MaxPending
    BY <1>4, SendTypes DEF SendApproval
  <2>2. /\ pc' \in [Callers -> PCs] /\ result' \in [Callers -> Results]
        /\ \A d \in Callers : pc'[d] # "idle" => amount[d] \in Amounts
    BY <1>4 DEF SendApproval, Return, Goto
  <2> QED  BY <1>4, <2>1, <2>2 DEF SendApproval, token, reads, args
<1>5. ASSUME NEW c \in Callers, Confirm(c) PROVE TypeInv'
  BY <1>5 DEF Confirm, Goto, token, reads, args
<1>6. ASSUME NEW c \in Callers, SendBurn(c) PROVE TypeInv'
  <2>1. pool' \in Seq(Txs) /\ Len(pool') =< MaxPending
    BY <1>6, SendTypes DEF SendBurn
  <2>2. /\ pc' \in [Callers -> PCs] /\ result' \in [Callers -> Results]
        /\ \A d \in Callers : pc'[d] # "idle" => amount[d] \in Amounts
    BY <1>6 DEF SendBurn, Return, Goto
  <2> QED  BY <1>6, <2>1, <2>2 DEF SendBurn, token, reads, args
<1>7. ASSUME NEW c \in Callers, BurnRefused(c) PROVE TypeInv'
  BY <1>7 DEF BurnRefused, Return, token, reads, args
<1>8. ASSUME NEW c \in Callers, RpcFails(c) PROVE TypeInv'
  BY <1>8 DEF RpcFails, Return, token, args
<1>9. CASE UNCHANGED vars
  BY <1>9 DEF vars
<1>10. ASSUME NEW c \in Callers, Proceed(c) PROVE TypeInv'
  BY <1>3, <1>4, <1>5, <1>6, <1>7, <1>8, <1>10 DEF Proceed
<1> HIDE DEF TypeInv, TypeOK
<1> QED  BY <1>1, <1>2, <1>9, <1>10 DEF Next

\* Every variable keeps its type.
THEOREM TypeCorrect == Spec => []TypeOK
<1>1. TypeInv => TypeOK  BY DEF TypeInv
<1> QED  BY TypeInvInit, TypeInvStep, <1>1, PTL DEF Spec

---------------------------------------------------------------------------
(* The inductive invariant: what is in the pool for a call, and what a     *)
(* call that nothing disturbed may rely on, stage by stage.                *)

Positions == 1 .. Len(pool)
OwnAt(c, i)     == Own(pool[i], c)
BurnAt(c, i)    == OwnAt(c, i) /\ pool[i].kind = "burn"
ApproveAt(c, i) == OwnAt(c, i) /\ pool[i].kind = "approve"

\* Transactions are those of the calls made; a call has its amount in them, none
\* while it looks, and at most one burn, as long as the burn is pending.
PoolInv(c) ==
  /\ number[c] =< calls
  /\ \A i \in Positions : pool[i].call =< calls
  /\ \A i \in Positions : OwnAt(c, i) => pool[i].amount = amount[c]
  /\ pc[c] \in {"read", "approve"} => \A i \in Positions : ~ OwnAt(c, i)
  /\ outcome[c] # "pending" => \A i \in Positions : ~ BurnAt(c, i)
  /\ \A i, j \in Positions : BurnAt(c, i) /\ BurnAt(c, j) => i = j
  /\ pc[c] # "idle" => outcome[c] = "none"

\* What was read is still true; the allowance suffices, or will once the call's
\* own approval, which comes before its burn, is mined.
LookInv(c) ==
  checked[c] /\ ~ disturbed[c] =>
    /\ pc[c] = "read" =>
         \A x \in Reads : x \in short[c] <=> x \notin unread[c] /\ Lacks(c, x)
    /\ pc[c] \in {"approve", "confirm", "burn"} \/ outcome[c] = "pending" =>
         amount[c] =< balance
    /\ pc[c] \in {"confirm", "burn"} =>
         \/ amount[c] =< allowance
         \/ \E i \in Positions : ApproveAt(c, i)
    /\ outcome[c] = "pending" =>
         \A i \in Positions : BurnAt(c, i) =>
           \/ amount[c] =< allowance
           \/ \E j \in Positions : j < i /\ ApproveAt(c, j)
    /\ outcome[c] # "reverted"

\* A call that waited has nothing of its own in the pool when it burns, and was
\* refused only with something else in the pool.
WaitInv(c) ==
  checked[c] /\ ~ disturbed[c] /\ waits[c] =>
    /\ pc[c] = "burn" => \A i \in Positions : ~ OwnAt(c, i)
    /\ result[c] = "Refused" => \E i \in Positions : ~ OwnAt(c, i)

CallInv == \A c \in Callers : PoolInv(c) /\ LookInv(c) /\ WaitInv(c)

\* The pool is empty at the start, and nobody has called.
LEMMA CallInvInit == Init => CallInv
<1> SUFFICES ASSUME Init, NEW c \in Callers
             PROVE  PoolInv(c) /\ LookInv(c) /\ WaitInv(c)
  BY DEF CallInv
<1>1. Positions = {}  BY DEF Init, Positions
<1>2. /\ number[c] = 0 /\ calls = 0 /\ pc[c] = "idle" /\ outcome[c] = "none"
      /\ checked[c] = FALSE
  BY DEF Init
<1> QED  BY <1>1, <1>2 DEF PoolInv, LookInv, WaitInv

\* The types of the pool and of the numbers that are compared.
LEMMA PoolTypes ==
  ASSUME TypeInv
  PROVE  \A i \in Positions : pool[i] \in Txs /\ pool[i].call \in Nat
<1>1. \A i \in Positions : pool[i] \in Txs
  BY DEF TypeInv, TypeOK, Positions
<1>2. \A tx \in Txs : tx.call \in Nat  BY Constants DEF Txs
<1> QED  BY <1>1, <1>2

\* The amounts that are compared are numbers.
LEMMA AmountTypes ==
  ASSUME TypeInv, NEW c \in Callers
  PROVE  allowance \in Nat /\ balance \in Nat /\ amount[c] \in Nat
<1>1. Amounts \cup {0} \subseteq Nat  BY Constants
<1>2. amount[c] \in Amounts \cup {0}  BY DEF TypeInv, TypeOK
<1>3. allowance \in Nat /\ balance \in Nat  BY Constants DEF TypeInv, TypeOK
<1> QED  BY <1>1, <1>2, <1>3

\* The head of the pool is mined.
LEMMA CallInvMine == TypeInv /\ CallInv /\ Mine => CallInv'
<1> SUFFICES ASSUME TypeInv, CallInv, Mine, NEW c \in Callers
             PROVE  (PoolInv(c) /\ LookInv(c) /\ WaitInv(c))'
  BY DEF CallInv
<1> DEFINE tx == Head(pool)
<1>1. /\ pool # <<>> /\ pool \in Seq(Txs) /\ pool' = Tail(pool)
      /\ Len(pool) \in Nat \ {0} /\ Len(pool') = Len(pool) - 1
      /\ tx = pool[1] /\ \A i \in 1 .. Len(pool') : pool'[i] = pool[i + 1]
  BY DEF Mine, TypeInv, TypeOK
<1>2. /\ Positions' = 1 .. Len(pool) - 1 /\ 1 \in Positions
      /\ \A i \in Positions' : i + 1 \in Positions /\ pool'[i] = pool[i + 1]
  BY <1>1 DEF Positions
<1>3. UNCHANGED <<pc, unread, short, checked, waits, amount, result, number, calls>>
  BY DEF Mine, call
<1>4. \A i \in Positions' : /\ OwnAt(c, i)' <=> OwnAt(c, i + 1)
                            /\ BurnAt(c, i)' <=> BurnAt(c, i + 1)
                            /\ ApproveAt(c, i)' <=> ApproveAt(c, i + 1)
  BY <1>2, <1>3 DEF OwnAt, BurnAt, ApproveAt, Own
<1>5. /\ outcome'[c] = IF BurnAt(c, 1) THEN IF Executes(Latest, tx) THEN "burned"
                                                                    ELSE "reverted"
                                       ELSE outcome[c]
      /\ disturbed'[c] = (disturbed[c] \/ ~ OwnAt(c, 1))
  BY <1>1 DEF Mine, BurnAt, OwnAt, Own, TypeInv, TypeOK
<1>6. PoolInv(c) /\ LookInv(c) /\ WaitInv(c)  BY DEF CallInv
<1>7. tx \in Txs /\ amount[c] \in Nat
  <2>1. tx \in Txs  BY <1>1
  <2> HIDE DEF tx
  <2> QED  BY <2>1, AmountTypes
<1> HIDE DEF tx
<1>8. PoolInv(c)'
  <2>1. BurnAt(c, 1) => outcome[c] = "pending" /\ pc[c] = "idle"
    BY <1>2, <1>6 DEF PoolInv, TypeInv, TypeOK
  <2>2. /\ \A i \in Positions' : pool'[i].call =< calls
        /\ \A i \in Positions' : OwnAt(c, i)' => pool'[i].amount = amount[c]
        /\ pc[c] \in {"read", "approve"} => \A i \in Positions' : ~ OwnAt(c, i)'
    BY <1>2, <1>4, <1>6 DEF PoolInv
  <2>3. outcome'[c] # "pending" => \A i \in Positions' : ~ BurnAt(c, i)'
    BY <1>1, <1>2, <1>4, <1>5, <1>6 DEF PoolInv, Positions
  <2>4. \A i, j \in Positions' : BurnAt(c, i)' /\ BurnAt(c, j)' => i = j
    BY <1>1, <1>2, <1>4, <1>6 DEF PoolInv, Positions
  <2>5. pc[c] # "idle" => outcome'[c] = "none"
    BY <1>5, <1>6, <2>1 DEF PoolInv
  <2> QED  BY <1>3, <1>6, <2>2, <2>3, <2>4, <2>5 DEF PoolInv
<1>9. LookInv(c)'
  <2> SUFFICES ASSUME checked[c], ~ disturbed[c], OwnAt(c, 1) PROVE LookInv(c)'
    BY <1>3, <1>5 DEF LookInv
  <2>1. pc[c] \notin {"read", "approve"} /\ tx.amount = amount[c]
    BY <1>1, <1>2, <1>6 DEF PoolInv, TypeInv, TypeOK
  <2>2. CASE tx.kind = "approve"
    <3>1. allowance' = amount[c] /\ balance' = balance
      BY <2>1, <2>2, <1>1 DEF Mine, Apply, Latest, tx
    <3>2. outcome'[c] = outcome[c]  BY <1>1, <1>5, <2>2 DEF BurnAt
    <3> QED
      BY <1>3, <1>6, <1>7, <2>1, <3>1, <3>2 DEF LookInv
  <2>3. CASE tx.kind = "burn"
    <3>1. BurnAt(c, 1)  BY <1>1, <2>3 DEF BurnAt
    <3>2. outcome[c] = "pending" /\ pc[c] = "idle"
      BY <1>2, <1>6, <3>1 DEF PoolInv
    <3>3. amount[c] =< balance /\ amount[c] =< allowance
      BY <1>2, <1>6, <3>1, <3>2 DEF LookInv, Positions
    <3>4. outcome'[c] = "burned"
      BY <1>5, <2>1, <3>1, <3>3 DEF Executes, Latest
    <3> QED  BY <1>3, <3>2, <3>4 DEF LookInv
  <2> QED  BY <1>7, <2>2, <2>3 DEF Txs
<1>10. WaitInv(c)'
  <2>1. ASSUME OwnAt(c, 1), NEW i \in Positions, ~ OwnAt(c, i)
        PROVE  \E j \in Positions' : ~ OwnAt(c, j)'
    <3>1. i # 1 /\ i - 1 \in Positions'  BY <1>1, <1>2, <2>1 DEF Positions
    <3>2. ~ OwnAt(c, i - 1)'  BY <1>4, <2>1, <3>1 DEF Positions
    <3> QED  BY <3>1, <3>2
  <2> QED  BY <1>2, <1>3, <1>4, <1>5, <1>6, <2>1 DEF WaitInv
<1> QED  BY <1>8, <1>9, <1>10

\* A call whose own variables keep their values keeps the invariant while the
\* token and the pool do.
LEMMA UntouchedCallKept ==
  ASSUME TypeInv, CallInv, NEW d \in Callers,
         UNCHANGED <<pool, allowance, balance>>,
         calls' \in Nat, calls =< calls',
         UNCHANGED <<pc[d], unread[d], short[d], checked[d], waits[d], amount[d],
                     result[d], number[d], outcome[d], disturbed[d]>>
  PROVE  (PoolInv(d) /\ LookInv(d) /\ WaitInv(d))'
<1>1. PoolInv(d) /\ LookInv(d) /\ WaitInv(d)  BY DEF CallInv
<1>2. number[d] \in Nat /\ calls \in Nat  BY Constants DEF TypeInv, TypeOK
<1>3. \A i \in Positions : pool[i].call \in Nat
  BY PoolTypes
<1>4. /\ Positions' = Positions
      /\ \A i : /\ OwnAt(d, i)' <=> OwnAt(d, i)
                /\ BurnAt(d, i)' <=> BurnAt(d, i)
                /\ ApproveAt(d, i)' <=> ApproveAt(d, i)
  BY DEF Positions, OwnAt, BurnAt, ApproveAt, Own
<1>5. \A x : Lacks(d, x)' <=> Lacks(d, x)  BY DEF Lacks, NeedsApproval
<1>6. PoolInv(d)'  BY <1>1, <1>2, <1>3, <1>4 DEF PoolInv
<1>7. LookInv(d)'  BY <1>1, <1>4, <1>5 DEF LookInv
<1>8. WaitInv(d)'  BY <1>1, <1>4 DEF WaitInv
<1> QED  BY <1>6, <1>7, <1>8

\* A call begins with a number no transaction has, and nothing read.
LEMMA CallInvBegin ==
  ASSUME TypeInv, CallInv, NEW c \in Callers, NEW a \in Amounts,
         NEW b \in BOOLEAN, NEW w \in WaitChoices, Begin(c, a, b, w)
  PROVE  CallInv'
<1> SUFFICES ASSUME NEW d \in Callers PROVE (PoolInv(d) /\ LookInv(d) /\ WaitInv(d))'
  BY DEF CallInv
<1>1. /\ UNCHANGED <<pool, allowance, balance>>
      /\ calls \in Nat /\ calls' = calls + 1
  BY Constants DEF Begin, token, TypeInv, TypeOK
<1>2. CASE d # c
  <2>1. UNCHANGED <<pc[d], unread[d], short[d], checked[d], waits[d], amount[d],
                     result[d], number[d], outcome[d], disturbed[d]>>
    BY <1>2 DEF Begin, TypeInv, TypeOK
  <2> QED  BY <1>1, <2>1, UntouchedCallKept
<1>3. CASE d = c
  <2>1. /\ pc'[c] = "read" /\ unread'[c] = (IF b THEN Reads ELSE {"allowance"})
        /\ short'[c] = {}
        /\ checked'[c] = b /\ result'[c] = "none" /\ outcome'[c] = "none"
        /\ disturbed'[c] = (pool # <<>>) /\ number'[c] = calls'
    BY <1>1 DEF Begin, TypeInv, TypeOK
  <2>2. Positions' = Positions /\ \A i \in Positions : pool[i].call \in Nat
    BY <1>1, PoolTypes DEF Positions
  <2>3. \A i \in Positions : pool[i].call =< calls
    BY <1>3 DEF CallInv, PoolInv
  <2>4. \A i \in Positions' : ~ OwnAt(c, i)' /\ ~ BurnAt(c, i)'
                               /\ pool'[i].call =< calls'
    BY <1>1, <2>1, <2>2, <2>3 DEF OwnAt, BurnAt, Own
  <2>5. PoolInv(c)'  BY <1>1, <2>1, <2>4 DEF PoolInv
  <2>6. LookInv(c)'  BY <2>1 DEF LookInv
  <2>7. WaitInv(c)'  BY <2>1 DEF WaitInv
  <2> QED  BY <1>3, <2>5, <2>6, <2>7
<1> QED  BY <1>2, <1>3

\* An answer is true when it arrives, and the last one decides by all of them.
LEMMA CallInvRead ==
  ASSUME TypeInv, CallInv, NEW c \in Callers, NEW what \in Reads, Read(c, what)
  PROVE  CallInv'
<1> SUFFICES ASSUME NEW d \in Callers PROVE (PoolInv(d) /\ LookInv(d) /\ WaitInv(d))'
  BY DEF CallInv
<1> DEFINE lacking == short[c] \cup {x \in {what} : Lacks(c, x)}
<1>1. /\ pc[c] = "read" /\ what \in unread[c]
      /\ unread' = [unread EXCEPT ![c] = unread[c] \ {what}]
      /\ \/ /\ unread'[c] # {} /\ short' = [short EXCEPT ![c] = lacking]
            /\ UNCHANGED <<pc, result>>
         \/ /\ unread'[c] = {} /\ short' = [short EXCEPT ![c] = {}]
            /\ \/ "balance" \in lacking /\ Return(c, "InsufficientBalance")
               \/ /\ "balance" \notin lacking /\ "allowance" \in lacking
                  /\ Goto(c, "approve")
               \/ /\ "balance" \notin lacking /\ "allowance" \notin lacking
                  /\ Goto(c, "burn")
      /\ UNCHANGED <<allowance, balance, pool, checked, waits, amount, number,
                     calls, outcome, disturbed>>
  BY ReadCases
<1>2. calls \in Nat /\ calls' = calls  BY <1>1, Constants DEF TypeInv, TypeOK
<1>3. CASE d # c
  <2>1. UNCHANGED <<pc[d], unread[d], short[d], result[d]>>
    BY <1>1, <1>3 DEF Return, Goto, TypeInv, TypeOK
  <2> QED  BY <1>1, <1>2, <2>1, UntouchedCallKept
<1>4. CASE d = c
  <2>1. PoolInv(c) /\ LookInv(c) /\ WaitInv(c)  BY DEF CallInv
  <2>2. unread'[c] = unread[c] \ {what}  BY <1>1 DEF TypeInv, TypeOK
  <2>3. /\ Positions' = Positions
        /\ \A i \in Positions : ~ OwnAt(c, i)' /\ ~ BurnAt(c, i)'
        /\ outcome[c] = "none"
    BY <1>1, <2>1 DEF Positions, OwnAt, BurnAt, Own, PoolInv
  <2>4. PoolInv(c)'
    BY <1>1, <2>1, <2>3 DEF PoolInv
  <2>5. checked[c] /\ ~ disturbed[c] =>
          \A x \in Reads : x \in lacking <=> x \notin unread'[c] /\ Lacks(c, x)
    BY <1>1, <2>1, <2>2 DEF LookInv
  <2>6. \A x : Lacks(c, x)' <=> Lacks(c, x)  BY <1>1 DEF Lacks, NeedsApproval
  <2>7. /\ Lacks(c, "balance") <=> balance < amount[c]
        /\ Lacks(c, "allowance") <=> allowance < amount[c]
    BY DEF Lacks, NeedsApproval
  <2>8. allowance \in Nat /\ balance \in Nat /\ amount[c] \in Nat
    BY AmountTypes
  <2> HIDE DEF lacking
  <2>9. CASE unread'[c] # {}
    <3>1. short'[c] = lacking /\ pc' = pc /\ result' = result
      BY <1>1, <2>9 DEF TypeInv, TypeOK
    <3>2. LookInv(c)'
      BY <1>1, <2>3, <2>5, <2>6, <3>1 DEF LookInv
    <3>3. WaitInv(c)'
      BY <1>1, <2>1, <2>3, <3>1 DEF WaitInv, OwnAt, Own
    <3> QED  BY <1>4, <2>4, <3>2, <3>3
  <2>10. CASE unread'[c] = {}
    <3>1. checked[c] /\ ~ disturbed[c] =>
            /\ "balance" \in lacking <=> balance < amount[c]
            /\ "allowance" \in lacking <=> allowance < amount[c]
      BY <2>5, <2>7, <2>10 DEF Reads
    <3>2. \/ "balance" \in lacking /\ pc'[c] = "idle" /\ result'[c] # "Refused"
          \/ /\ "balance" \notin lacking /\ "allowance" \in lacking
             /\ pc'[c] = "approve" /\ result' = result
          \/ /\ "balance" \notin lacking /\ "allowance" \notin lacking
             /\ pc'[c] = "burn" /\ result' = result
      BY <1>1, <2>10 DEF Return, Goto, TypeInv, TypeOK
    <3>3. LookInv(c)'
      BY <1>1, <2>3, <2>8, <3>1, <3>2 DEF LookInv
    <3>4. WaitInv(c)'
      BY <1>1, <2>1, <2>3, <3>2 DEF WaitInv, OwnAt, Own
    <3> QED  BY <1>4, <2>4, <3>3, <3>4
  <2> QED  BY <2>9, <2>10
<1> QED  BY <1>3, <1>4

\* Sending appends a transaction: the positions of the others stay, and the new
\* one is that of its call.
Appended(n, kind, c) ==
  /\ Positions' = Positions \cup {n}
  /\ \A i \in Positions : i < n /\ pool'[i] = pool[i]
  /\ pool'[n] = Tx(kind, amount[c], c)
  /\ \A d \in Callers :
       /\ \A i \in Positions : /\ OwnAt(d, i)' <=> OwnAt(d, i)
                               /\ BurnAt(d, i)' <=> BurnAt(d, i)
                               /\ ApproveAt(d, i)' <=> ApproveAt(d, i)
       /\ OwnAt(d, n)' <=> d = c
       /\ BurnAt(d, n)' <=> d = c /\ kind = "burn"
       /\ ApproveAt(d, n)' <=> d = c /\ kind = "approve"

\* Append, in terms of positions.
LEMMA SendAppends ==
  ASSUME TypeInv, NEW c \in Callers, NEW kind \in {"approve", "burn"},
         Send(Tx(kind, amount[c], c)), UNCHANGED number
  PROVE  \E n \in Nat : Appended(n, kind, c)
<1>1. pool \in Seq(Txs) /\ pool' = Append(pool, Tx(kind, amount[c], c))
  BY DEF Send, TypeInv, TypeOK
<1>2. PICK n \in Nat : n = Len(pool) + 1  BY <1>1
<1>3. /\ Positions' = Positions \cup {n}
      /\ \A i \in Positions : i < n
  BY <1>1, <1>2 DEF Positions
<1>4. /\ \A i \in Positions : pool'[i] = pool[i]
      /\ pool'[n] = Tx(kind, amount[c], c)
  BY <1>1, <1>2 DEF Positions
<1>5. \A d \in Callers : \A i \in Positions :
        /\ OwnAt(d, i)' <=> OwnAt(d, i)
        /\ BurnAt(d, i)' <=> BurnAt(d, i)
        /\ ApproveAt(d, i)' <=> ApproveAt(d, i)
  BY <1>4 DEF OwnAt, BurnAt, ApproveAt, Own
<1>6. /\ pool'[n].by = c /\ pool'[n].call = number[c] /\ pool'[n].kind = kind
  BY <1>4 DEF Tx
<1>7. \A d \in Callers :
        /\ OwnAt(d, n)' <=> d = c
        /\ BurnAt(d, n)' <=> d = c /\ kind = "burn"
        /\ ApproveAt(d, n)' <=> d = c /\ kind = "approve"
  BY <1>6 DEF OwnAt, BurnAt, ApproveAt, Own
<1> QED  BY <1>3, <1>4, <1>5, <1>7 DEF Appended

\* A call other than the one that sends keeps the invariant.
LEMMA OtherCallKept ==
  ASSUME TypeInv, CallInv, NEW c \in Callers, NEW kind \in {"approve", "burn"},
         Send(Tx(kind, amount[c], c)),
         UNCHANGED <<allowance, balance, number, calls, amount>>,
         NEW d \in Callers \ {c},
         UNCHANGED <<pc[d], unread[d], short[d], checked[d], waits[d],
                     result[d], outcome[d], disturbed[d]>>
  PROVE  (PoolInv(d) /\ LookInv(d) /\ WaitInv(d))'
<1>1. PoolInv(d) /\ LookInv(d) /\ WaitInv(d)  BY DEF CallInv
<1>0. PICK n \in Nat : Appended(n, kind, c)  BY SendAppends
<1>2. /\ Positions' = Positions \cup {n}
      /\ \A i \in Positions : i < n /\ pool'[i] = pool[i]
      /\ pool'[n] = Tx(kind, amount[c], c)
      /\ \A i \in Positions : /\ OwnAt(d, i)' <=> OwnAt(d, i)
                              /\ BurnAt(d, i)' <=> BurnAt(d, i)
                              /\ ApproveAt(d, i)' <=> ApproveAt(d, i)
      /\ ~ OwnAt(d, n)' /\ ~ BurnAt(d, n)' /\ ~ ApproveAt(d, n)'
  BY <1>0 DEF Appended
<1>3. pool'[n].call =< calls
  BY <1>2 DEF Tx, CallInv, PoolInv
<1>4. \A x : Lacks(d, x)' <=> Lacks(d, x)  BY DEF Lacks, NeedsApproval
<1>5. PoolInv(d)'  BY <1>1, <1>2, <1>3 DEF PoolInv
<1>6. LookInv(d)'  BY <1>1, <1>2, <1>4 DEF LookInv
<1>7. WaitInv(d)'  BY <1>1, <1>2 DEF WaitInv
<1> QED  BY <1>5, <1>6, <1>7

\* An approval sent will do for the burn once it is mined.
LEMMA CallInvSendApproval ==
  ASSUME TypeInv, CallInv, NEW c \in Callers, SendApproval(c)
  PROVE  CallInv'
<1> SUFFICES ASSUME NEW d \in Callers PROVE (PoolInv(d) /\ LookInv(d) /\ WaitInv(d))'
  BY DEF CallInv
<1>1. /\ pc[c] = "approve" /\ Send(Tx("approve", amount[c], c))
      /\ UNCHANGED <<allowance, balance, number, calls, amount, unread, short,
                     checked, waits, outcome, disturbed>>
  BY DEF SendApproval, token, reads, args
<1>2. /\ pc'[c] \in {"confirm", "burn", "idle"}
      /\ waits[c] => pc'[c] # "burn"
      /\ result'[c] = result[c] \/ result'[c] = "Error"
      /\ \A x \in Callers \ {c} : pc'[x] = pc[x] /\ result'[x] = result[x]
  BY DEF SendApproval, Goto, Return, TypeInv, TypeOK
<1>3. CASE d # c
  BY <1>1, <1>2, <1>3, OtherCallKept
<1>4. CASE d = c
  <2>0. PICK n \in Nat : Appended(n, "approve", c)  BY <1>1, SendAppends
  <2>1. /\ Positions' = Positions \cup {n}
        /\ \A i \in Positions : i < n /\ pool'[i] = pool[i]
        /\ pool'[n] = Tx("approve", amount[c], c)
        /\ \A i \in Positions : /\ OwnAt(c, i)' <=> OwnAt(c, i)
                                /\ BurnAt(c, i)' <=> BurnAt(c, i)
        /\ OwnAt(c, n)' /\ ~ BurnAt(c, n)' /\ ApproveAt(c, n)'
    BY <2>0 DEF Appended
  <2>2. pool'[n].call = number[c] /\ pool'[n].amount = amount[c]
    BY <2>1 DEF Tx
  <2>3. PoolInv(c) /\ LookInv(c) /\ WaitInv(c)  BY DEF CallInv
  <2>4. outcome[c] = "none"  BY <1>1, <2>3 DEF PoolInv
  <2>5. PoolInv(c)'  BY <1>1, <1>2, <2>1, <2>2, <2>3, <2>4 DEF PoolInv
  <2>6. LookInv(c)'  BY <1>1, <1>2, <2>1, <2>3, <2>4 DEF LookInv
  <2>7. WaitInv(c)'  BY <1>1, <1>2, <2>1, <2>3 DEF WaitInv
  <2> QED  BY <1>4, <2>5, <2>6, <2>7
<1> QED  BY <1>3, <1>4

\* A burn is sent behind what it needs.
LEMMA CallInvSendBurn ==
  ASSUME TypeInv, CallInv, NEW c \in Callers, SendBurn(c)
  PROVE  CallInv'
<1> SUFFICES ASSUME NEW d \in Callers PROVE (PoolInv(d) /\ LookInv(d) /\ WaitInv(d))'
  BY DEF CallInv
<1>1. /\ pc[c] = "burn" /\ Send(Tx("burn", amount[c], c))
      /\ UNCHANGED <<allowance, balance, number, calls, amount, unread, short,
                     checked, waits, disturbed>>
  BY DEF SendBurn, token, reads, args
<1>2. /\ pc'[c] = "idle" /\ result'[c] \in {"Sent", "Error"}
      /\ outcome'[c] = "pending"
      /\ \A x \in Callers \ {c} : /\ pc'[x] = pc[x] /\ result'[x] = result[x]
                                  /\ outcome'[x] = outcome[x]
  BY DEF SendBurn, Return, TypeInv, TypeOK
<1>3. CASE d # c
  BY <1>1, <1>2, <1>3, OtherCallKept
<1>4. CASE d = c
  <2>0. PICK n \in Nat : Appended(n, "burn", c)  BY <1>1, SendAppends
  <2>1. /\ Positions' = Positions \cup {n}
        /\ \A i \in Positions : i < n /\ pool'[i] = pool[i]
        /\ pool'[n] = Tx("burn", amount[c], c)
        /\ \A i \in Positions : /\ OwnAt(c, i)' <=> OwnAt(c, i)
                                /\ BurnAt(c, i)' <=> BurnAt(c, i)
                                /\ ApproveAt(c, i)' <=> ApproveAt(c, i)
        /\ OwnAt(c, n)' /\ BurnAt(c, n)'
    BY <2>0 DEF Appended
  <2>2. pool'[n].call = number[c] /\ pool'[n].amount = amount[c]
    BY <2>1 DEF Tx
  <2>3. PoolInv(c) /\ LookInv(c) /\ WaitInv(c)  BY DEF CallInv
  <2>4. \A i \in Positions : ~ BurnAt(c, i)  BY <1>1, <2>3 DEF PoolInv
  <2>5. PoolInv(c)'  BY <1>1, <1>2, <2>1, <2>2, <2>3, <2>4 DEF PoolInv
  <2>6. LookInv(c)'  BY <1>1, <1>2, <2>1, <2>3, <2>4 DEF LookInv
  <2>7. WaitInv(c)'  BY <1>2 DEF WaitInv
  <2> QED  BY <1>4, <2>5, <2>6, <2>7
<1> QED  BY <1>3, <1>4

\* A call that is refused its burn without being disturbed has waited for
\* nothing, or shares the pool with another call: otherwise the pool is empty,
\* and what it read still holds.
LEMMA RefusalNeedsOthers ==
  ASSUME TypeInv, CallInv, NEW c \in Callers, BurnRefused(c),
         checked[c], ~ disturbed[c], waits[c]
  PROVE  \E i \in Positions : ~ OwnAt(c, i)
<1> SUFFICES ASSUME \A i \in Positions : OwnAt(c, i) PROVE FALSE  OBVIOUS
<1>1. PoolInv(c) /\ LookInv(c) /\ WaitInv(c)  BY DEF CallInv
<1>2. pc[c] = "burn" /\ Refuses(Tx("burn", amount[c], c))
  BY DEF BurnRefused
<1>3. Positions = {}  BY <1>1, <1>2 DEF WaitInv
<1>4. Len(pool) = 0
  <2>1. Len(pool) \in Nat  BY DEF TypeInv, TypeOK
  <2> QED  BY <1>3, <2>1 DEF Positions
<1>5. Executes(Latest, Tx("burn", amount[c], c))
  BY <1>1, <1>2, <1>3 DEF LookInv, Executes, Latest, Tx
<1>6. AfterPool = Latest
  <2> DEFINE IsAfter(f) ==
               f = [i \in 0 .. Len(pool) |->
                      IF i = 0 THEN Latest ELSE Apply(f[i - 1], pool[i])]
  <2>1. IsAfter([i \in {0} |-> Latest])  BY <1>4
  <2>2. AfterPool = (CHOOSE f : IsAfter(f))[Len(pool)]  BY DEF AfterPool
  <2>3. IsAfter(CHOOSE f : IsAfter(f))  BY <2>1
  <2> QED  BY <1>4, <2>2, <2>3
<1> QED  BY <1>2, <1>5, <1>6 DEF Refuses

\* Every action keeps the invariant.
LEMMA CallInvStep == TypeInv /\ CallInv /\ [Next]_vars => CallInv'
<1> SUFFICES ASSUME TypeInv, CallInv, [Next]_vars PROVE CallInv'  OBVIOUS
<1>1. ASSUME NEW c \in Callers, Confirm(c) PROVE CallInv'
  <2> SUFFICES ASSUME NEW d \in Callers
               PROVE  (PoolInv(d) /\ LookInv(d) /\ WaitInv(d))'
    BY DEF CallInv
  <2>1. /\ pc[c] = "confirm" /\ ~ Pending(c) /\ pc' = [pc EXCEPT ![c] = "burn"]
        /\ UNCHANGED <<allowance, balance, pool, unread, short, checked, waits,
                       amount, result, number, calls, outcome, disturbed>>
    BY <1>1 DEF Confirm, Goto, token, reads, args
  <2>2. calls \in Nat  BY Constants DEF TypeInv, TypeOK
  <2>3. CASE d # c
    BY <2>1, <2>2, <2>3, UntouchedCallKept DEF TypeInv, TypeOK
  <2>4. CASE d = c
    <3>1. PoolInv(c) /\ LookInv(c) /\ WaitInv(c)  BY DEF CallInv
    <3>2. pc'[c] = "burn"  BY <2>1 DEF TypeInv, TypeOK
    <3>3. Positions = DOMAIN pool  BY DEF TypeInv, TypeOK, Positions
    <3>4. /\ Positions' = Positions
          /\ \A i \in Positions : ~ OwnAt(c, i) /\ ~ OwnAt(c, i)'
          /\ \A i : /\ OwnAt(c, i)' <=> OwnAt(c, i)
                    /\ BurnAt(c, i)' <=> BurnAt(c, i)
                    /\ ApproveAt(c, i)' <=> ApproveAt(c, i)
      BY <2>1, <3>3 DEF Pending, Positions, OwnAt, BurnAt, ApproveAt, Own
    <3>5. PoolInv(c)'  BY <2>1, <3>1, <3>2, <3>4 DEF PoolInv
    <3>6. LookInv(c)'  BY <2>1, <3>1, <3>2, <3>4 DEF LookInv
    <3>7. WaitInv(c)'  BY <2>1, <3>1, <3>2, <3>4 DEF WaitInv
    <3> QED  BY <2>4, <3>5, <3>6, <3>7
  <2> QED  BY <2>3, <2>4
<1>2. ASSUME NEW c \in Callers, BurnRefused(c) \/ RpcFails(c) PROVE CallInv'
  <2> SUFFICES ASSUME NEW d \in Callers
               PROVE  (PoolInv(d) /\ LookInv(d) /\ WaitInv(d))'
    BY DEF CallInv
  <2>1. /\ pc[c] \in {"read", "approve", "burn"}
        /\ pc' = [pc EXCEPT ![c] = "idle"]
        /\ \/ BurnRefused(c) /\ result' = [result EXCEPT ![c] = "Refused"]
           \/ result' = [result EXCEPT ![c] = "Error"]
        /\ \A x \in Callers \ {c} : unread'[x] = unread[x] /\ short'[x] = short[x]
        /\ UNCHANGED <<allowance, balance, pool, checked, waits, amount, number,
                       calls, outcome, disturbed>>
    BY <1>2 DEF BurnRefused, RpcFails, Return, token, reads, args, TypeInv, TypeOK
  <2>2. calls \in Nat  BY Constants DEF TypeInv, TypeOK
  <2>3. CASE d # c
    BY <2>1, <2>2, <2>3, UntouchedCallKept DEF TypeInv, TypeOK
  <2>4. CASE d = c
    <3>1. PoolInv(c) /\ LookInv(c) /\ WaitInv(c)  BY DEF CallInv
    <3>2. /\ pc'[c] = "idle" /\ outcome[c] = "none"
          /\ result'[c] = "Refused" => BurnRefused(c)
      BY <2>1, <3>1 DEF PoolInv, TypeInv, TypeOK
    <3>3. /\ Positions' = Positions
          /\ \A i : /\ OwnAt(c, i)' <=> OwnAt(c, i)
                    /\ BurnAt(c, i)' <=> BurnAt(c, i)
      BY <2>1 DEF Positions, OwnAt, BurnAt, Own
    <3>4. PoolInv(c)'  BY <2>1, <3>1, <3>2, <3>3 DEF PoolInv
    <3>5. LookInv(c)'  BY <2>1, <3>2 DEF LookInv
    <3>6. WaitInv(c)'
      BY <2>1, <3>2, <3>3, RefusalNeedsOthers DEF WaitInv
    <3> QED  BY <2>4, <3>4, <3>5, <3>6
  <2> QED  BY <2>3, <2>4
<1>3. CASE UNCHANGED vars
  <2> SUFFICES ASSUME NEW d \in Callers
               PROVE  (PoolInv(d) /\ LookInv(d) /\ WaitInv(d))'
    BY DEF CallInv
  <2>1. calls \in Nat  BY Constants DEF TypeInv, TypeOK
  <2> QED  BY <1>3, <2>1, UntouchedCallKept DEF vars
<1>4. ASSUME NEW c \in Callers, Proceed(c) PROVE CallInv'
  BY <1>1, <1>2, <1>4, CallInvRead, CallInvSendApproval, CallInvSendBurn
  DEF Proceed
<1> QED
  BY <1>3, <1>4, CallInvMine, CallInvBegin DEF Next

\* Left alone, a call that looked at balance and allowance burns: only another
\* call of its owner makes its burn revert.
THEOREM RevertsOnlyIfDisturbed == Spec => []BurnRevertsOnlyIfDisturbed
<1>1. CallInv => BurnRevertsOnlyIfDisturbed
  BY DEF CallInv, LookInv, BurnRevertsOnlyIfDisturbed
<1> QED
  BY TypeInvInit, TypeInvStep, CallInvInit, CallInvStep, <1>1, PTL DEF Spec

\* A call that waits for its approval is refused its burn only if another call
\* of its owner interferes.
THEOREM WaitingIsNotRefused == Spec => []WaitingCallIsNotRefused
<1>1. TypeInv /\ CallInv => WaitingCallIsNotRefused
  <2> SUFFICES ASSUME TypeInv, CallInv, NEW c \in Callers,
                      result[c] = "Refused", waits[c], checked[c],
                      ~ disturbed[c]
               PROVE  Foreign(c)
    BY DEF WaitingCallIsNotRefused
  <2>1. \E i \in Positions : ~ OwnAt(c, i)  BY DEF CallInv, WaitInv
  <2>2. Positions = DOMAIN pool  BY DEF TypeInv, TypeOK, Positions
  <2> QED  BY <2>1, <2>2 DEF Foreign, OwnAt
<1> QED
  BY TypeInvInit, TypeInvStep, CallInvInit, CallInvStep, <1>1, PTL DEF Spec

---------------------------------------------------------------------------
(* The end of a call *)

\* The steps that the call of c may still take, at most.
AnswersLeft(c) == (IF "balance" \in unread[c] THEN 1 ELSE 0)
                  + (IF "allowance" \in unread[c] THEN 1 ELSE 0)
StepsLeft(c) == CASE pc[c] = "idle"    -> 0
                  [] pc[c] = "burn"    -> 1
                  [] pc[c] = "confirm" -> 2
                  [] pc[c] = "approve" -> 3
                  [] pc[c] = "read"    -> 3 + AnswersLeft(c)

\* The bound is at most five, and zero only for a call that has returned.
THEOREM StepsLeftIsBounded ==
  Spec => [](\A c \in Callers : /\ StepsLeft(c) \in 0 .. 5
                                /\ StepsLeft(c) = 0 <=> pc[c] = "idle")
<1>1. TypeOK => \A c \in Callers : /\ StepsLeft(c) \in 0 .. 5
                                   /\ StepsLeft(c) = 0 <=> pc[c] = "idle"
  BY DEF TypeOK, PCs, StepsLeft, AnswersLeft
<1> QED  BY <1>1, TypeCorrect, PTL

\* A step of the call that moves it along its labels lowers the bound.
LEMMA LaterLabel ==
  ASSUME TypeOK, NEW c \in Callers,
         \/ pc[c] # "idle" /\ pc'[c] = "idle"
         \/ pc[c] \in {"read", "approve", "confirm"} /\ pc'[c] = "burn"
         \/ pc[c] = "approve" /\ pc'[c] = "confirm"
  PROVE  StepsLeft(c)' < StepsLeft(c)
<1>1. pc[c] \in PCs  BY DEF TypeOK
<1> QED  BY <1>1 DEF StepsLeft, AnswersLeft, PCs

\* An answer lowers it: one read less, or the last one decides.
LEMMA AnswerLowers ==
  ASSUME TypeOK, NEW c \in Callers, NEW what \in Reads, Read(c, what)
  PROVE  StepsLeft(c)' < StepsLeft(c)
<1>1. /\ pc[c] = "read" /\ what \in unread[c] /\ what \in {"balance", "allowance"}
      /\ unread'[c] = unread[c] \ {what}
  BY ReadCases DEF TypeOK, Reads
<1>2. pc'[c] \in {"read", "idle", "approve", "burn"}
  BY <1>1, ReadCases DEF TypeOK, Return, Goto
<1>3. AnswersLeft(c) \in Nat /\ AnswersLeft(c)' < AnswersLeft(c)
  BY <1>1 DEF AnswersLeft
<1>4. AnswersLeft(c)' \in Nat
  BY DEF AnswersLeft
<1> QED  BY <1>1, <1>2, <1>3, <1>4 DEF StepsLeft

\* Every step of the call lowers the bound.
LEMMA StepLowersOwn ==
  ASSUME TypeOK, NEW c \in Callers, Proceed(c)
  PROVE  StepsLeft(c)' < StepsLeft(c)
<1> USE DEF TypeOK, Return, Goto
<1>1. CASE SendApproval(c)
  <2>1. pc[c] = "approve" /\ pc'[c] \in {"confirm", "burn", "idle"}
    BY <1>1 DEF SendApproval
  <2> QED  BY <2>1, LaterLabel
<1>2. CASE Confirm(c)
  <2>1. pc[c] = "confirm" /\ pc'[c] = "burn"  BY <1>2 DEF Confirm
  <2> QED  BY <2>1, LaterLabel
<1>3. CASE SendBurn(c) \/ BurnRefused(c) \/ RpcFails(c)
  <2>1. pc[c] # "idle" /\ pc'[c] = "idle"
    BY <1>3 DEF SendBurn, BurnRefused, RpcFails
  <2> QED  BY <2>1, LaterLabel
<1> QED  BY <1>1, <1>2, <1>3, AnswerLowers DEF Proceed

\* The steps of the others leave a running call where it is.
LEMMA OthersKeepSteps ==
  ASSUME TypeOK, [Next]_vars, NEW c \in Callers, pc[c] # "idle", ~ Proceed(c)
  PROVE  StepsLeft(c)' = StepsLeft(c)
<1> USE DEF TypeOK, Return, Goto
<1>1. CASE pc'[c] = pc[c] /\ unread'[c] = unread[c]
  BY <1>1 DEF StepsLeft, AnswersLeft
<1>2. CASE Mine \/ UNCHANGED vars
  BY <1>1, <1>2 DEF Mine, call, vars
<1>3. ASSUME NEW d \in Callers, NEW a \in Amounts, NEW b \in BOOLEAN,
             NEW w \in WaitChoices, Begin(d, a, b, w)
      PROVE  StepsLeft(c)' = StepsLeft(c)
  <2>1. d # c  BY <1>3 DEF Begin
  <2> QED  BY <1>1, <1>3, <2>1 DEF Begin
<1>4. ASSUME NEW d \in Callers, d # c, Proceed(d)
      PROVE  StepsLeft(c)' = StepsLeft(c)
  <2>1. CASE \E what \in Reads : Read(d, what)
    <3>1. pc'[c] = pc[c] /\ unread'[c] = unread[c]
      BY <1>4, <2>1, ReadCases
    <3> QED  BY <1>1, <3>1
  <2>2. CASE \/ SendApproval(d) \/ Confirm(d) \/ SendBurn(d)
             \/ BurnRefused(d) \/ RpcFails(d)
    <3>1. pc'[c] = pc[c] /\ unread'[c] = unread[c]
      BY <1>4, <2>2 DEF SendApproval, Confirm, SendBurn, BurnRefused, RpcFails, reads
    <3> QED  BY <1>1, <3>1
  <2> QED  BY <1>4, <2>1, <2>2 DEF Proceed
<1> QED  BY <1>2, <1>3, <1>4 DEF Next

\* Each step of a call lowers its bound, and no step of the chain or of another call
\* changes it: the reads, the approval and the burn of one call come to an end,
\* whatever the other callers of the same owner do.
THEOREM CallStepsRunOut ==
  Spec => [][\A c \in Callers :
                /\ Proceed(c) => StepsLeft(c)' < StepsLeft(c)
                /\ pc[c] # "idle" /\ ~ Proceed(c) => StepsLeft(c)' = StepsLeft(c)]_vars
<1>1. TypeOK /\ [Next]_vars =>
        [\A c \in Callers :
            /\ Proceed(c) => StepsLeft(c)' < StepsLeft(c)
            /\ pc[c] # "idle" /\ ~ Proceed(c) => StepsLeft(c)' = StepsLeft(c)]_vars
  BY StepLowersOwn, OthersKeepSteps
<1> QED  BY <1>1, TypeCorrect, PTL DEF Spec

\* The pending transactions of c's call are among the first k of the pool.
OwnWithin(c, k) == \A i \in Positions : OwnAt(c, i) => i <= k

\* A call that waits for its approval is not starved: what other callers send goes
\* behind its approval, and each mined transaction brings it one place closer.
THEOREM WaitIsNotStarved ==
  Spec => [][\A c \in Callers, k \in Nat :
                pc[c] = "confirm" /\ OwnWithin(c, k) =>
                    /\ OwnWithin(c, k)'
                    /\ Mine => OwnWithin(c, k - 1)']_vars
<1>1. TypeInv /\ [Next]_vars =>
        [\A c \in Callers, k \in Nat :
            pc[c] = "confirm" /\ OwnWithin(c, k) =>
                /\ OwnWithin(c, k)'
                /\ Mine => OwnWithin(c, k - 1)']_vars
  <2> SUFFICES ASSUME TypeInv, [Next]_vars, NEW c \in Callers, NEW k \in Nat,
                      pc[c] = "confirm", OwnWithin(c, k)
               PROVE  OwnWithin(c, k)' /\ (Mine => OwnWithin(c, k - 1)')
    OBVIOUS
  <2> USE DEF TypeInv, TypeOK
  <2>1. CASE Mine
    <3>1. /\ pool' = Tail(pool) /\ number' = number /\ pool # <<>>
          /\ Len(pool') = Len(pool) - 1
          /\ \A i \in 1 .. Len(pool') : pool'[i] = pool[i + 1]
      BY <2>1 DEF Mine, call
    <3>2. ASSUME NEW i \in 1 .. Len(pool'), OwnAt(c, i)'
          PROVE  i <= k - 1
      <4>1. i + 1 \in Positions /\ OwnAt(c, i + 1)
        BY <3>1, <3>2 DEF Own, OwnAt, Positions
      <4> QED  BY <4>1 DEF OwnWithin
    <3>3. OwnWithin(c, k - 1)'
      BY <3>2 DEF OwnWithin, Positions
    <3>4. OwnWithin(c, k)'
      <4>1. \A i \in 1 .. Len(pool') : i <= k - 1 => i <= k
        OBVIOUS
      <4> QED  BY <3>2, <4>1 DEF OwnWithin, Positions
    <3> QED  BY <3>3, <3>4
  <2>2. CASE UNCHANGED <<pool, number>>
    <3>1. ~ Mine
      BY <2>2 DEF Mine
    <3> QED  BY <2>2, <3>1 DEF OwnWithin, OwnAt, Own, Positions
  <2>3. ASSUME NEW d \in Callers, NEW kind \in {"approve", "burn"}, d # c,
               Send(Tx(kind, amount[d], d)), UNCHANGED number
        PROVE  OwnWithin(c, k)' /\ ~ Mine
    <3>1. PICK n \in Nat : Appended(n, kind, d)
      BY <2>3, SendAppends
    <3>2. ~ OwnAt(c, n)' /\ Positions' = Positions \cup {n}
          /\ \A i \in Positions : OwnAt(c, i)' <=> OwnAt(c, i)
      BY <2>3, <3>1 DEF Appended
    <3>3. OwnWithin(c, k)'
      BY <3>2 DEF OwnWithin
    <3>4. ~ Mine
      <4>1. Len(pool') = Len(pool) + 1 /\ Len(pool) \in Nat
        BY <2>3 DEF Send
      <4>2. Mine => Len(pool') = Len(pool) - 1
        BY DEF Mine
      <4> QED  BY <4>1, <4>2
    <3> QED  BY <3>3, <3>4
  <2>4. ASSUME NEW d \in Callers, NEW a \in Amounts, NEW b \in BOOLEAN,
               NEW w \in WaitChoices, Begin(d, a, b, w)
        PROVE  OwnWithin(c, k)' /\ ~ Mine
    <3>1. d # c /\ pool' = pool /\ number'[c] = number[c] /\ ~ Mine
      BY <2>4 DEF Begin, Mine
    <3> QED  BY <3>1 DEF OwnWithin, OwnAt, Own, Positions
  <2>5. ASSUME NEW d \in Callers, Proceed(d)
        PROVE  OwnWithin(c, k)' /\ (Mine => OwnWithin(c, k - 1)')
    <3>1. CASE SendApproval(d) \/ SendBurn(d)
      <4>1. d # c /\ number' = number
        BY <3>1 DEF SendApproval, SendBurn, args
      <4>2. \E kind \in {"approve", "burn"} : Send(Tx(kind, amount[d], d))
        BY <3>1 DEF SendApproval, SendBurn
      <4> QED  BY <2>3, <4>1, <4>2
    <3>2. CASE Confirm(d) \/ BurnRefused(d) \/ RpcFails(d)
      BY <2>2, <3>2 DEF Confirm, BurnRefused, RpcFails, args
    <3>3. CASE \E what \in Reads : Read(d, what)
      BY <2>2, <3>3, ReadCases
    <3> QED  BY <2>5, <3>1, <3>2, <3>3 DEF Proceed
  <2>6. CASE UNCHANGED vars
    BY <2>2, <2>6 DEF vars
  <2> QED  BY <2>1, <2>4, <2>5, <2>6 DEF Next
<1> QED  BY <1>1, TypeInvInit, TypeInvStep, PTL DEF Spec
=============================================================================
