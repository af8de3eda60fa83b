--------------------------- MODULE SettledAnswers ---------------------------
(***************************************************************************)
(* What the library's two questions have in common: get_attestation asks   *)
(* Circle about a burn, is_message_received the destination chain about a  *)
(* message.  The outside world settles each subject once and for good, at  *)
(* a time of its own; whoever asks awaits replies, sleeps and asks again,  *)
(* so that what it decides on may be old.  The promise is in the guard of  *)
(* Answer: nothing is answered that is not settled already.  An error or a *)
(* timeout claims nothing, and may be returned at any time.                *)
(***************************************************************************)

CONSTANTS
    Subjects,  \* what there is to ask about
    Askers,    \* who asks
    Outcomes,  \* how a subject may be settled
    Open,      \* stands for no outcome
    NoSubject  \* stands for no subject

VARIABLES
    world,    \* what is settled of each subject
    answered  \* what each asker was answered last, and about which subject

vars == <<world, answered>>

NoAnswer == [outcome |-> Open, subject |-> NoSubject]

Init == /\ world = [s \in Subjects |-> Open]
        /\ answered = [a \in Askers |-> NoAnswer]

Settle(s, o) == /\ world[s] = Open
                /\ world' = [world EXCEPT ![s] = o]
                /\ UNCHANGED answered

Answer(a, s, o) == /\ world[s] = o
                   /\ answered' = [answered EXCEPT ![a] = [outcome |-> o, subject |-> s]]
                   /\ UNCHANGED world

\* The asker asks anew, is told nothing, or is gone.
Withdraw(a) == /\ answered' = [answered EXCEPT ![a] = NoAnswer]
               /\ UNCHANGED world

Next == \/ \E s \in Subjects, o \in Outcomes : Settle(s, o)
        \/ \E a \in Askers, s \in Subjects, o \in Outcomes : Answer(a, s, o)
        \/ \E a \in Askers : Withdraw(a)

Spec == Init /\ [][Next]_vars

-----------------------------------------------------------------------------

\* What was answered about a subject is so, whatever happens afterwards.
AnswersAreTrue ==
    \A a \in Askers :
        answered[a] # NoAnswer =>
            /\ answered[a].subject \in Subjects
            /\ answered[a].outcome \in Outcomes
            /\ world[answered[a].subject] = answered[a].outcome

=============================================================================
