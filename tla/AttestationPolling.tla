------------------------- MODULE AttestationPolling -------------------------
(***************************************************************************)
(* One call of get_attestation, in its two versions: CctpV1 asks Circle's  *)
(* Iris API about one message hash, CctpV2 about every message that a burn *)
(* transaction emitted.  The loop is the same: validate the configuration, *)
(* ask, decide, sleep, ask again, and give up after max_attempts requests. *)
(*                                                                         *)
(* Iris is external.  It is modelled by what the client relies on: it does *)
(* not know the transaction (404), then lists its messages, and the entry  *)
(* of each message changes until it is final.  Iris moves between any two  *)
(* steps of the client, so every reply may be stale when it is decided on. *)
(***************************************************************************)
EXTENDS Integers

CONSTANTS
    NumMessages,     \* messages the burn transaction emitted
    IrisEntries,     \* the entries Iris may publish for one message
    PollingConfigs,  \* the configurations a caller may pass
    RateLimitSecs,   \* the sleep after a 429 reply
    U64Max           \* the largest u64

AttestationStatus == {"complete", "pending", "pending_confirmations", "failed"}

\* The status "unreadable" stands for an entry that serde rejects (an unknown
\* status, a field that is not hex): it makes the whole reply undecodable.
Entry == [status : AttestationStatus \cup {"unreadable"},
          message : BOOLEAN, attestation : BOOLEAN]

PollingConfig == [max_attempts : Nat, poll_interval_secs : Nat]

ASSUME NumMessagesAssumption == NumMessages \in Nat \ {0}
ASSUME IrisEntriesAssumption == IrisEntries \subseteq Entry
ASSUME PollingConfigsAssumption == PollingConfigs \subseteq PollingConfig
ASSUME SecondsAssumption == RateLimitSecs \in Nat \ {0} /\ U64Max \in Nat

VARIABLES
    version,   \* "v1" or "v2": which bridge runs the call
    config,    \* the polling configuration of the call
    listing,   \* what Iris knows of the transaction: "unknown", "empty", "listed"
    iris,      \* the entry of each message, once listed
    pc,        \* where the call is
    attempt,   \* the loop variable
    reply,     \* the reply being decided on
    nap,       \* the seconds of the sleep in progress
    result,    \* what the call returned
    requests,  \* history: requests sent
    limited,   \* history: 429 replies received
    slept,     \* history: seconds slept
    sawUsable  \* history: a readable reply held a usable entry

irisVars == <<listing, iris>>
history  == <<requests, limited, slept, sawUsable>>
vars == <<version, config, listing, iris, pc, attempt, reply, nap, result,
          requests, limited, slept, sawUsable>>

Slots == 1 .. NumMessages
Versions == {"v1", "v2"}
PendingStatuses == {"pending", "pending_confirmations"}
ReplyKinds == {"none", "transport_error", "rate_limited", "not_found",
               "empty", "served"}
Errors == {"InvalidConfig", "Network", "ApiReportedFailed",
           "AttestationMissing", "MessageMissing", "AttestationTimeout"}

NoResult == [kind |-> "none", message |-> 0, attestation |-> 0]

\* An error of the call carries no data.
Err(kind) == [kind |-> kind, message |-> 0, attestation |-> 0]

\* v1 looks at the only message its hash names.
Asked(v) == IF v = "v1" THEN {1} ELSE Slots

\* An entry from which this version can return: complete, with the fields it uses.
Usable(v, e) == /\ e.status = "complete"
                /\ e.attestation
                /\ v = "v2" => e.message

\* Iris never takes back a failure, an attestation it signed or its message.
Keeps(e, f) == /\ e.status = "failed" => f.status = "failed"
               /\ e.status = "complete" /\ e.attestation =>
                    /\ f.status = "complete" /\ f.attestation
                    /\ e.message => f.message

Readable(v, es) == \A i \in Asked(v) : es[i].status # "unreadable"
UsableSlots(v, es) == {i \in Asked(v) : Usable(v, es[i])}
First(i, S) == i \in S /\ \A j \in S : i <= j

SomeStatus(v, es, S) == \E i \in Asked(v) : es[i].status \in S

-----------------------------------------------------------------------------
(* Configuration *)

\* Seeded fault: zero is let through.
ValidIgnoringInterval(c) == c.max_attempts > 0

\* PollingConfig::validate.
Valid(c) == c.max_attempts > 0 /\ c.poll_interval_secs > 0

\* PollingConfig::total_timeout_secs, a saturating product.
TotalTimeoutSecs(c) ==
    LET secs == c.max_attempts * c.poll_interval_secs
    IN IF secs > U64Max THEN U64Max ELSE secs

-----------------------------------------------------------------------------
(* Deciding on a readable reply *)

\* Seeded fault: a failed entry outranks a pending sibling.
FailedFirst(v, es) ==
    IF UsableSlots(v, es) # {} THEN "Ready"
    ELSE IF SomeStatus(v, es, {"failed"}) THEN "Failed"
    ELSE IF SomeStatus(v, es, PendingStatuses) THEN "Pending"
    ELSE IF \E i \in Asked(v) : es[i].attestation THEN "MessageMissing"
    ELSE "AttestationMissing"

\* Seeded fault: only the first entry of the array is read.
FirstEntryOnly(v, es) ==
    IF Usable(v, es[1]) THEN "Ready"
    ELSE IF es[1].status = "failed" THEN "Failed"
    ELSE IF es[1].status = "complete" THEN "AttestationMissing"
    ELSE "Pending"

\* select_v2_attestation; for v1 the match on the status of the one entry,
\* which is the same choice over a single entry whose message is not used.
Outcome(v, es) ==
    IF UsableSlots(v, es) # {} THEN "Ready"
    ELSE IF SomeStatus(v, es, PendingStatuses) THEN "Pending"
    ELSE IF SomeStatus(v, es, {"complete"})
         THEN IF \E i \in Asked(v) :
                    /\ First(i, {j \in Asked(v) : es[j].status = "complete"})
                    /\ es[i].attestation
              THEN "MessageMissing"
              ELSE "AttestationMissing"
    ELSE "Failed"

-----------------------------------------------------------------------------
(* Iris *)

IrisIndexes == /\ listing = "unknown"
               /\ listing' = "empty"
               /\ UNCHANGED <<version, config, iris, pc, attempt, reply, nap,
                              result, history>>

\* The messages of a transaction are indexed together, as the transaction is.
IrisLists == /\ listing = "empty"
             /\ listing' = "listed"
             /\ UNCHANGED <<version, config, iris, pc, attempt, reply, nap,
                            result, history>>

IrisUpdates(i, e) == /\ listing = "listed"
                     /\ Keeps(iris[i], e)
                     /\ iris' = [iris EXCEPT ![i] = e]
                     /\ UNCHANGED <<version, config, listing, pc, attempt, reply,
                                    nap, result, history>>

-----------------------------------------------------------------------------
(* The call *)

Return(r) == pc' = "done" /\ result' = r /\ nap' = nap

SleepFor(secs) == pc' = "sleeping" /\ nap' = secs /\ result' = result

\* The configuration is checked before any request is sent.
Start == /\ pc = "start"
         /\ \/ /\ Valid(config)
               /\ pc' = "request"
               /\ attempt' = 1
               /\ UNCHANGED <<nap, result>>
            \/ /\ ~Valid(config)
               /\ Return(Err("InvalidConfig"))
               /\ UNCHANGED attempt
         /\ UNCHANGED <<version, config, irisVars, reply, history>>

\* What Iris answers now if it answers at all: it may always fail to, or limit.
Answers == {"transport_error", "rate_limited",
            CASE listing = "unknown" -> "not_found"
              [] listing = "empty"   -> "empty"
              [] listing = "listed"  -> "served"}

\* fetch_attestation_response: the reply holds the entries of this instant.
Request == /\ pc = "request"
           /\ \E k \in Answers :
                /\ reply' = [kind |-> k, entries |-> iris]
                /\ sawUsable' = \/ sawUsable
                                \/ /\ k = "served"
                                   /\ Readable(version, iris)
                                   /\ UsableSlots(version, iris) # {}
           /\ requests' = requests + 1
           /\ pc' = "decide"
           /\ UNCHANGED <<version, config, irisVars, attempt, nap, result, limited,
                          slept>>

Deciding(k) == /\ pc = "decide"
               /\ reply.kind = k
               /\ reply' = [reply EXCEPT !.kind = "none"]
               /\ UNCHANGED <<version, config, irisVars, attempt, requests, slept,
                              sawUsable>>

\* No connection, a timeout of the 30 s client, a status that is neither 2xx,
\* 404 nor 429, a body that breaks off: the first one ends the call.
DecideTransportError == /\ Deciding("transport_error")
                        /\ Return(Err("Network"))
                        /\ UNCHANGED limited

\* Seeded fault: a limited request sleeps as any other.
LimitedSleepsPollInterval == /\ Deciding("rate_limited")
                             /\ SleepFor(config.poll_interval_secs)
                             /\ limited' = limited + 1

\* Seeded fault: the sleep is topped up to the poll interval, which underflows.
LimitedTopsUp == /\ Deciding("rate_limited")
                 /\ SleepFor(config.poll_interval_secs - RateLimitSecs)
                 /\ limited' = limited + 1

\* A 429 sleeps five minutes, whatever the poll interval.
DecideRateLimited == /\ Deciding("rate_limited")
                     /\ SleepFor(RateLimitSecs)
                     /\ limited' = limited + 1

\* The transaction is not known yet, or its messages are not listed: for v2 an
\* empty array, for v1 a body without a status, which does not decode.
DecideNotFound == /\ \E k \in {"not_found", "empty"} : Deciding(k)
                  /\ SleepFor(config.poll_interval_secs)
                  /\ UNCHANGED limited

\* One entry that serde rejects hides its siblings.
DecideUndecodable == /\ Deciding("served")
                     /\ ~Readable(version, reply.entries)
                     /\ SleepFor(config.poll_interval_secs)
                     /\ UNCHANGED limited

\* Seeded fault: message and attestation are searched for separately.
MixedSlots(i, j) ==
    /\ First(i, {k \in Asked(version) : /\ reply.entries[k].status = "complete"
                                        /\ reply.entries[k].message})
    /\ First(j, {k \in Asked(version) : /\ reply.entries[k].status = "complete"
                                        /\ reply.entries[k].attestation})

\* The pair returned is that of the first usable entry.
ReadySlots(i, j) == /\ First(i, UsableSlots(version, reply.entries))
                    /\ j = i

DecideServed ==
    /\ Deciding("served")
    /\ Readable(version, reply.entries)
    /\ LET outcome == Outcome(version, reply.entries) IN
         \/ /\ outcome = "Ready"
            /\ \E i, j \in Slots :
                 /\ ReadySlots(i, j)
                 /\ Return([kind |-> "Ok", message |-> i, attestation |-> j])
         \/ outcome = "Pending" /\ SleepFor(config.poll_interval_secs)
         \/ outcome = "Failed" /\ Return(Err("ApiReportedFailed"))
         \/ /\ outcome \in {"AttestationMissing", "MessageMissing"}
            /\ Return(Err(outcome))
    /\ UNCHANGED limited

\* Seeded fault: the loop stops one attempt early.
WakeStopsEarly ==
    /\ pc = "sleeping"
    /\ slept' = slept + nap
    /\ nap' = 0
    /\ \/ /\ attempt + 1 < config.max_attempts
          /\ attempt' = attempt + 1
          /\ pc' = "request"
          /\ UNCHANGED result
       \/ /\ attempt + 1 >= config.max_attempts
          /\ pc' = "done"
          /\ result' = Err("AttestationTimeout")
          /\ UNCHANGED attempt
    /\ UNCHANGED <<version, config, irisVars, reply, requests, limited, sawUsable>>

\* Seeded fault: a limited reply is waited out in place and read again.
WakeStillLimited ==
    /\ pc = "sleeping"
    /\ IF nap = RateLimitSecs
       THEN UNCHANGED <<pc, nap, attempt, slept>>
       ELSE attempt' = attempt + 1 /\ nap' = 0 /\ slept' = slept + nap /\ pc' = "done"
    /\ UNCHANGED <<version, config, irisVars, result, reply, requests, limited,
                   sawUsable>>

\* The sleep of the last attempt is taken too: it is followed by no request.
Wake == /\ pc = "sleeping"
        /\ slept' = slept + nap
        /\ nap' = 0
        /\ \/ /\ attempt < config.max_attempts
              /\ attempt' = attempt + 1
              /\ pc' = "request"
              /\ UNCHANGED result
           \/ /\ attempt >= config.max_attempts
              /\ pc' = "done"
              /\ result' = Err("AttestationTimeout")
              /\ UNCHANGED attempt
        /\ UNCHANGED <<version, config, irisVars, reply, requests, limited,
                       sawUsable>>

\* The call has returned; Iris alone goes on.
Returned == pc = "done" /\ UNCHANGED vars

-----------------------------------------------------------------------------

\* Iris starts every message unconfirmed; the caller picks any configuration.
Init == /\ version \in Versions
        /\ config \in PollingConfigs
        /\ listing = "unknown"
        /\ iris = [i \in Slots |-> [status |-> "pending_confirmations",
                                    message |-> FALSE, attestation |-> FALSE]]
        /\ pc = "start"
        /\ attempt = 0
        /\ reply = [kind |-> "none", entries |-> iris]
        /\ nap = 0
        /\ result = NoResult
        /\ requests = 0
        /\ limited = 0
        /\ slept = 0
        /\ sawUsable = FALSE

Client == \/ Start
          \/ Request
          \/ DecideTransportError
          \/ DecideRateLimited
          \/ DecideNotFound
          \/ DecideUndecodable
          \/ DecideServed
          \/ Wake

Next == \/ IrisIndexes
        \/ IrisLists
        \/ \E i \in Slots, e \in IrisEntries : IrisUpdates(i, e)
        \/ Client
        \/ Returned

Spec == Init /\ [][Next]_vars

\* Every request is answered or cut off by the client's timeout, and every
\* sleep ends; nothing is assumed of Iris.
FairSpec == Spec /\ WF_vars(Client)

-----------------------------------------------------------------------------
(* What a call promises *)

\* What Iris has settled of the transaction, as this version asks for it.
VerdictOf(v, es) == IF \E i \in Asked(v) : Usable(v, es[i]) THEN "attested"
                    ELSE IF \A i \in Asked(v) : es[i].status = "failed" THEN "failed"
                    ELSE "open"

\* What the call has answered; an error of the client claims nothing.
AnswerOf(r) == CASE r.kind = "Ok" -> [outcome |-> "attested", subject |-> "burn"]
                 [] r.kind = "ApiReportedFailed" ->
                      [outcome |-> "failed", subject |-> "burn"]
                 [] OTHER -> [outcome |-> "open", subject |-> "none"]

Inquiry == INSTANCE SettledAnswers WITH
               Subjects <- {"burn"}, Askers <- {"call"},
               Outcomes <- {"attested", "failed"}, Open <- "open", NoSubject <- "none",
               world <- [s \in {"burn"} |-> VerdictOf(version, iris)],
               answered <- [a \in {"call"} |-> AnswerOf(result)]

-----------------------------------------------------------------------------
(* Properties *)

TypeOK == /\ version \in Versions
          /\ config \in PollingConfig
          /\ listing \in {"unknown", "empty", "listed"}
          /\ iris \in [Slots -> Entry]
          /\ pc \in {"start", "request", "decide", "sleeping", "done"}
          /\ attempt \in Nat
          /\ reply \in [kind : ReplyKinds, entries : [Slots -> Entry]]
          /\ nap \in Nat
          /\ result \in [kind : Errors \cup {"none", "Ok"},
                         message : 0 .. NumMessages, attestation : 0 .. NumMessages]
          /\ requests \in Nat
          /\ limited \in Nat
          /\ slept \in Nat
          /\ sawUsable \in BOOLEAN

\* What get_attestation returns can be minted: the message and the attestation
\* are those of one and the same burn message, and Iris still vouches for it.
ReturnedPairIsAttested ==
    result.kind = "Ok" =>
        /\ result.message = result.attestation
        /\ result.message \in Asked(version)
        /\ Usable(version, iris[result.message])

\* A caller who is told that the attestation failed can give the burn up: no
\* message of the transaction is usable, then or later, whatever Iris still does.
FailureIsFinal ==
    result.kind = "ApiReportedFailed" =>
        \A i \in Asked(version) : iris[i].status = "failed"

\* The call implements SettledAnswers: although Iris moves between its reply and
\* the decision on it, a pair is returned only of a burn that is attested, and a
\* failure reported only of one that can never be.
AnswersAreSettled == Inquiry!Spec

\* A readable reply that holds a usable entry ends the call with success, in
\* whatever position the entry is and whatever its siblings say.
UsableReplyIsReturned ==
    sawUsable /\ pc # "decide" => result.kind = "Ok"

\* A timeout is reported only after max_attempts requests went out; and at no
\* time does the call send more than that many.
TimeoutMeansExhausted ==
    /\ requests <= config.max_attempts
    /\ result.kind = "AttestationTimeout" =>
         requests = config.max_attempts /\ ~sawUsable

\* The time a call waits: one poll interval for each unsuccessful request,
\* five minutes instead for each one that was limited, the last included.
WaitIsAccounted ==
    result.kind = "AttestationTimeout" =>
        slept = (config.max_attempts - limited) * config.poll_interval_secs
                  + limited * RateLimitSecs

\* Between two requests at least a second passes: the configuration that would
\* poll without a pause never gets as far as a second request.
RequestsArePaced == requests > 0 => slept >= requests - 1

\* Every call returns.
CallReturns == <>(pc = "done")

\* What the documentation of total_timeout_secs promises, "the total maximum
\* wait time in seconds": the call never sleeps longer.
WithinTotalTimeout == slept <= TotalTimeoutSecs(config)

=============================================================================
