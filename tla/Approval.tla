------------------------------- MODULE Approval -------------------------------
(***************************************************************************)
(* The source side before a burn: calls that make sure the token messenger *)
(* may spend the owner's tokens, and then burn.  ensure_approval reads the *)
(* allowance and, if it is too small, sends an approval that it does not   *)
(* wait for; the applications of the documentation first read balance and  *)
(* allowance with batch_token_state, or wait for the approval to be mined. *)
(* Several calls may run for one owner at once, and the transactions of    *)
(* earlier calls may still be pending.                                     *)
(*                                                                         *)
(* External: the token (approve sets the allowance, a burn takes from it), *)
(* the chain, which executes the transactions of one account in the order  *)
(* they were sent, and the node, which answers reads from the last block   *)
(* and may estimate the gas of a transaction, on the last block or on top  *)
(* of the pending transactions, refusing it if it would revert there.      *)
(***************************************************************************)
EXTENDS Naturals, Sequences

CONSTANTS
    Callers,      \* tasks that share the owner's account
    Amounts,      \* what a call burns
    Balance,      \* the owner's tokens at the beginning
    Allowances,   \* what the messenger may spend at the beginning
    WaitChoices,  \* whether a call waits for its approval to be mined
    MaxCalls,     \* bound: calls made
    MaxPending    \* bound: transactions pending at once

ASSUME AmountsAssumption == Amounts \subseteq Nat \ {0} /\ Allowances \subseteq Nat
ASSUME BoundsAssumption == Balance \in Nat /\ MaxCalls \in Nat /\ MaxPending \in Nat
ASSUME WaitAssumption == WaitChoices \subseteq BOOLEAN

VARIABLES
    allowance,  \* token: what the messenger may still spend
    balance,    \* token: what the owner has
    pool,       \* chain: the owner's pending transactions, in nonce order
    pc,         \* call: "idle", "read", "approve", "confirm", "burn"
    unread,     \* call: the reads not answered yet
    short,      \* call: what the answers so far found too small
    checked,    \* call: whether the application reads the balance as well
    waits,      \* call: whether it waits for its approval
    amount,     \* call: its argument
    result,     \* call: "none", "Sent", "Refused", "InsufficientBalance", "Error"
    number,     \* history: which call of all this one is
    calls,      \* history: calls made
    outcome,    \* history: what became of the call's burn
    disturbed   \* history: since it looked, a transaction of another call was
                \* mined, or one was pending when it looked

token == <<allowance, balance>>
reads == <<unread, short>>
args  == <<checked, waits, amount, number, calls>>
call  == <<pc, unread, short, checked, waits, amount, result, number, calls>>
vars  == <<allowance, balance, pool, pc, unread, short, checked, waits, amount, result,
           number, calls, outcome, disturbed>>

Reads == {"balance", "allowance"}
PCs == {"idle", "read", "approve", "confirm", "burn"}
Results == {"none", "Sent", "Refused", "InsufficientBalance", "Error"}
Outcomes == {"none", "pending", "burned", "reverted"}

\* Seeded fault: the approval is for what is missing only, as if it added up.
TxForShortfall(kind, a, c) ==
    [kind |-> kind, amount |-> IF kind = "approve" THEN a - allowance ELSE a,
     by |-> c, call |-> number[c]]

\* A transaction of the call that task c makes.
Tx(kind, a, c) == [kind |-> kind, amount |-> a, by |-> c, call |-> number[c]]
Txs == [kind : {"approve", "burn"}, amount : Amounts, by : Callers, call : 0 .. MaxCalls]

Own(tx, c) == tx.by = c /\ tx.call = number[c]
Pending(c) == \E i \in DOMAIN pool : Own(pool[i], c)
Foreign(c) == \E i \in DOMAIN pool : ~Own(pool[i], c)

-----------------------------------------------------------------------------
(* The token and the chain *)

\* The state of the token after a transaction: [allowance, balance].
Apply(s, tx) ==
    IF tx.kind = "approve" THEN [s EXCEPT !.allowance = tx.amount]
    ELSE IF tx.amount <= s.allowance /\ tx.amount <= s.balance
         THEN [allowance |-> s.allowance - tx.amount, balance |-> s.balance - tx.amount]
         ELSE s

Latest == [allowance |-> allowance, balance |-> balance]

\* The state of the token once the pool has been executed.
AfterPool ==
    LET after[i \in 0 .. Len(pool)] == IF i = 0 THEN Latest ELSE Apply(after[i - 1], pool[i])
    IN after[Len(pool)]

Executes(s, tx) ==
    tx.kind = "burn" => tx.amount <= s.allowance /\ tx.amount <= s.balance

Mine ==
    /\ pool # <<>>
    /\ LET tx == Head(pool)
           s == Apply(Latest, tx)
       IN /\ allowance' = s.allowance
          /\ balance' = s.balance
          /\ outcome' = IF tx.kind = "burn" /\ Own(tx, tx.by)
                        THEN [outcome EXCEPT ![tx.by] =
                                 IF Executes(Latest, tx) THEN "burned" ELSE "reverted"]
                        ELSE outcome
          /\ disturbed' = [c \in Callers |-> disturbed[c] \/ ~Own(tx, c)]
    /\ pool' = Tail(pool)
    /\ UNCHANGED call

-----------------------------------------------------------------------------
(* The calls *)

Return(c, r) == /\ pc' = [pc EXCEPT ![c] = "idle"]
                /\ result' = [result EXCEPT ![c] = r]

Goto(c, label) == pc' = [pc EXCEPT ![c] = label] /\ UNCHANGED result

Begin(c, a, b, w) ==
    /\ pc[c] = "idle"
    /\ calls < MaxCalls
    /\ calls' = calls + 1
    /\ number' = [number EXCEPT ![c] = calls + 1]
    /\ pc' = [pc EXCEPT ![c] = "read"]
    /\ unread' = [unread EXCEPT ![c] = IF b THEN Reads ELSE {"allowance"}]
    /\ short' = [short EXCEPT ![c] = {}]
    /\ result' = [result EXCEPT ![c] = "none"]
    /\ checked' = [checked EXCEPT ![c] = b]
    /\ waits' = [waits EXCEPT ![c] = w]
    /\ amount' = [amount EXCEPT ![c] = a]
    /\ outcome' = [outcome EXCEPT ![c] = "none"]
    /\ disturbed' = [disturbed EXCEPT ![c] = pool # <<>>]
    /\ UNCHANGED <<token, pool>>

\* Seeded fault: any allowance will do.
NeedsApprovalIfNone(a, n) == a = 0

\* Seeded fault: an allowance just short of the amount will do.
NeedsApprovalOffByOne(a, n) == a + 1 < n

\* TokenState::needs_approval; ensure_approval returns early in the other case.
NeedsApproval(a, n) == a < n

Lacks(c, what) == IF what = "balance" THEN balance < amount[c]
                  ELSE NeedsApproval(allowance, amount[c])

\* Seeded fault: a call that finds the balance too small looks again at both.
ReadUntilFunded(c, what) ==
    /\ pc[c] = "read"
    /\ what \in unread[c]
    /\ unread' = [unread EXCEPT ![c] = IF @ # {what} THEN @ \ {what}
                                       ELSE IF Lacks(c, "balance") THEN Reads
                                       ELSE {}]
    /\ IF unread'[c] = {} THEN Goto(c, IF Lacks(c, "allowance") THEN "approve" ELSE "burn")
                          ELSE UNCHANGED <<pc, result>>
    /\ UNCHANGED <<token, pool, short, args, outcome, disturbed>>

\* One answer comes back, and the last one decides.  batch_token_state asks for
\* both at once: they come in any order, and perhaps from different blocks.
Read(c, what) ==
    /\ pc[c] = "read"
    /\ what \in unread[c]
    /\ unread' = [unread EXCEPT ![c] = @ \ {what}]
    /\ LET lacking == short[c] \cup {x \in {what} : Lacks(c, x)} IN
         \/ /\ unread'[c] # {}
            /\ short' = [short EXCEPT ![c] = lacking]
            /\ UNCHANGED <<pc, result>>
         \/ /\ unread'[c] = {}
            /\ short' = [short EXCEPT ![c] = {}]
            /\ IF "balance" \in lacking THEN Return(c, "InsufficientBalance")
               ELSE Goto(c, IF "allowance" \in lacking THEN "approve" ELSE "burn")
    /\ UNCHANGED <<token, pool, args, outcome, disturbed>>

\* Where the node may estimate the gas of a transaction, it would revert.
Refuses(tx) == ~Executes(Latest, tx) \/ ~Executes(AfterPool, tx)

\* A transaction whose gas the node does not estimate is always accepted.
Send(tx) == Len(pool) < MaxPending /\ pool' = Append(pool, tx)

\* approve returns the hash of the approval at once, unless the reply is lost.
SendApproval(c) ==
    /\ pc[c] = "approve"
    /\ Send(Tx("approve", amount[c], c))
    /\ Goto(c, IF waits[c] THEN "confirm" ELSE "burn") \/ Return(c, "Error")
    /\ UNCHANGED <<token, reads, args, outcome, disturbed>>

\* The application waits for the approval of its call.
Confirm(c) == /\ pc[c] = "confirm"
              /\ ~Pending(c)
              /\ Goto(c, "burn")
              /\ UNCHANGED <<token, pool, reads, args, outcome, disturbed>>

SendBurn(c) == /\ pc[c] = "burn"
               /\ Send(Tx("burn", amount[c], c))
               /\ Return(c, "Sent") \/ Return(c, "Error")
               /\ outcome' = [outcome EXCEPT ![c] = "pending"]
               /\ UNCHANGED <<token, reads, args, disturbed>>

\* The gas estimation of the burn reverts, and the error ends the call.
BurnRefused(c) == /\ pc[c] = "burn"
                  /\ Refuses(Tx("burn", amount[c], c))
                  /\ Return(c, "Refused")
                  /\ UNCHANGED <<token, pool, reads, args, outcome, disturbed>>

\* Any request may fail, and the failure ends the call.
RpcFails(c) == /\ pc[c] \in {"read", "approve", "burn"}
               /\ Return(c, "Error")
               /\ unread' = [unread EXCEPT ![c] = {}]
               /\ short' = [short EXCEPT ![c] = {}]
               /\ UNCHANGED <<token, pool, args, outcome, disturbed>>

-----------------------------------------------------------------------------

Init == /\ allowance \in Allowances
        /\ balance = Balance
        /\ pool = <<>>
        /\ pc = [c \in Callers |-> "idle"]
        /\ unread = [c \in Callers |-> {}]
        /\ short = [c \in Callers |-> {}]
        /\ checked = [c \in Callers |-> FALSE]
        /\ waits = [c \in Callers |-> FALSE]
        /\ amount = [c \in Callers |-> 0]
        /\ result = [c \in Callers |-> "none"]
        /\ number = [c \in Callers |-> 0]
        /\ calls = 0
        /\ outcome = [c \in Callers |-> "none"]
        /\ disturbed = [c \in Callers |-> FALSE]

Proceed(c) == \/ \E what \in Reads : Read(c, what)
              \/ SendApproval(c)
              \/ Confirm(c)
              \/ SendBurn(c)
              \/ BurnRefused(c)
              \/ RpcFails(c)

Next == \/ Mine
        \/ \E c \in Callers, a \in Amounts, b \in BOOLEAN, w \in WaitChoices :
             Begin(c, a, b, w)
        \/ \E c \in Callers : Proceed(c)

Spec == Init /\ [][Next]_vars

\* Requests are answered or time out, and pending transactions are mined.
FairSpec == Spec /\ WF_vars(Mine) /\ \A c \in Callers : WF_vars(Proceed(c))

-----------------------------------------------------------------------------
(* Properties *)

TypeOK == /\ allowance \in Nat
          /\ balance \in 0 .. Balance
          /\ pool \in Seq(Txs) /\ Len(pool) <= MaxPending
          /\ pc \in [Callers -> PCs]
          /\ unread \in [Callers -> SUBSET Reads]
          /\ short \in [Callers -> SUBSET Reads]
          /\ checked \in [Callers -> BOOLEAN]
          /\ waits \in [Callers -> BOOLEAN]
          /\ amount \in [Callers -> Amounts \cup {0}]
          /\ result \in [Callers -> Results]
          /\ number \in [Callers -> 0 .. MaxCalls]
          /\ calls \in 0 .. MaxCalls
          /\ outcome \in [Callers -> Outcomes]
          /\ disturbed \in [Callers -> BOOLEAN]

\* A burn that was sent reverts, for lack of allowance or balance, only if another
\* call of the same owner interfered: left alone, a call that looked at both burns
\* what it was asked to, whether or not it waits for its approval.
BurnRevertsOnlyIfDisturbed ==
    \A c \in Callers :
        outcome[c] = "reverted" /\ checked[c] => disturbed[c]

\* A call that waits for its approval, and that no other call interferes with,
\* is never refused its burn.
WaitingCallIsNotRefused ==
    \A c \in Callers :
        /\ result[c] = "Refused" /\ waits[c] /\ checked[c]
        => disturbed[c] \/ Foreign(c)

\* Every call returns, however long its approval takes.
CallsReturn == \A c \in Callers : pc[c] # "idle" ~> pc[c] = "idle"

\* What the documentation says after approve, "Now burn is safe to call": a call
\* that no other interferes with, and whose owner has the tokens, burns.
BurnIsSafe ==
    \A c \in Callers :
        checked[c] /\ ~disturbed[c] /\ ~Foreign(c) => result[c] # "Refused"

=============================================================================
