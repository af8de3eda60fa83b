-------------------------- MODULE CrossChainPayment --------------------------
(***************************************************************************)
(* What a caller of CctpV2 may believe about its money.  A burn goes       *)
(* through phases that only the two chains and Circle decide on; a caller  *)
(* is told something about one burn at a time.  The promise of the library *)
(* is in the guards of Tell: a transfer is called complete only once it    *)
(* can no longer be stopped, delivered only once it is, and lost only if   *)
(* it can never be delivered.                                              *)
(***************************************************************************)
EXTENDS Naturals

CONSTANTS
    Burns,    \* the burn transactions there may be
    Callers,  \* the callers of the library
    NoBurn    \* stands for no burn

VARIABLES
    phase,  \* how far each burn has come
    told    \* what each caller was told last, and about which burn

vars == <<phase, told>>

Phases == {"none", "submitted", "reverted", "burned", "failed", "attested",
           "delivered"}
Verdicts == {"unknown", "complete", "delivered", "lost"}

Unknown == [verdict |-> "unknown", burn |-> NoBurn]

\* What may be said of a burn in this phase.
Supports(p, v) == CASE v = "unknown"   -> TRUE
                    [] v = "complete"  -> p \in {"attested", "delivered"}
                    [] v = "delivered" -> p = "delivered"
                    [] v = "lost"      -> p = "failed"

Init == /\ phase = [b \in Burns |-> "none"]
        /\ told = [c \in Callers |-> Unknown]

Move(b, from, to) == phase[b] = from /\ phase' = [phase EXCEPT ![b] = to]

\* A burn is sent; a caller whose reply is lost is left in the dark.
Submit(b) == /\ Move(b, "none", "submitted")
             /\ \E c \in Callers : told' \in {told, [told EXCEPT ![c] = Unknown]}

\* The source chain executes it, or it reverts.
Settle(b) == /\ \E p \in {"burned", "reverted"} : Move(b, "submitted", p)
             /\ UNCHANGED told

\* Circle signs its message, or refuses to.
Attest(b) == /\ \E p \in {"attested", "failed"} : Move(b, "burned", p)
             /\ UNCHANGED told

\* The destination chain mints what it carries.
Deliver(b) == Move(b, "attested", "delivered") /\ UNCHANGED told

Tell(c, v, b) == /\ Supports(phase[b], v)
                 /\ told' = [told EXCEPT ![c] = [verdict |-> v, burn |-> b]]
                 /\ UNCHANGED phase

Forget(c) == told' = [told EXCEPT ![c] = Unknown] /\ UNCHANGED phase

Next == \/ \E b \in Burns : Submit(b) \/ Settle(b) \/ Attest(b) \/ Deliver(b)
        \/ \E c \in Callers, v \in Verdicts \ {"unknown"}, b \in Burns : Tell(c, v, b)
        \/ \E c \in Callers : Forget(c)

Spec == Init /\ [][Next]_vars

-----------------------------------------------------------------------------

\* What a caller was told about a burn stays true, whatever happens afterwards.
ToldIsTrue ==
    \A c \in Callers :
        told[c].verdict # "unknown" => /\ told[c].burn \in Burns
                                       /\ Supports(phase[told[c].burn], told[c].verdict)

=============================================================================
