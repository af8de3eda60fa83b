---------------------------- MODULE BridgeSession ----------------------------
(***************************************************************************)
(* One burn from the construction of a bridge to its mint, for the data it *)
(* carries: the chains and the mode of the bridge, the fee quoted, the     *)
(* request sent, the message in the logs, the message that Iris completes  *)
(* and signs, and the contract it is given to.  Retries, crashes and       *)
(* relayers are in Transfer and MintRelay; the polling loop, here its      *)
(* window only, is in AttestationPolling.                                  *)
(*                                                                         *)
(* The contracts and Iris are external: the messenger refuses an empty     *)
(* burn, a cap that is not below the amount or, behind a fee switch, below *)
(* the minimum it charges by then, its own domain and an empty hook, and   *)
(* may refuse a token the registry does not have; Iris fills the nonce and *)
(* what it executed, attests at fast finality when the cap covers the fee  *)
(* it publishes by then, and signs every message of a transaction; the     *)
(* transmitter accepts what was signed for its domain in its environment.  *)
(***************************************************************************)
EXTENDS Fees, MessageCodec

CONSTANTS
  SessionChains,   \* the chains a bridge may be built between
  SessionModes,    \* the modes it may be built with
  Amounts,         \* the amounts burned
  FeeLevels,       \* the fast fees Iris may publish
  Buffer,          \* buffer_percent of the quotes
  MaxFeeChanges    \* bound: how often the fast fee and the minimum change

Mode == [kind : ModeKinds, max_fee : Nat, hook_data : Seq({"byte"})]

ASSUME SessionAssumption ==
  /\ SessionChains \subseteq Chains
  /\ SessionModes \subseteq Mode
  /\ Amounts \subseteq Nat
  /\ FeeLevels \subseteq Nat /\ FeeLevels # {}
  /\ Buffer \in Nat /\ MaxFeeChanges \in Nat

VARIABLES
  version,    \* "none", then "v1" or "v2": which bridge the client built
  validated,  \* whether it was built from a CctpV2Route
  built,      \* its fields
  quote,      \* <<>>, or the quote its cap comes from
  pc,         \* where the session is
  err,        \* the error it ended with
  tx,         \* <<>>, or the burn transaction
  extracted,  \* what get_message_sent_event returned last
  taken,      \* "none", or whose message get_attestation returned: its "own",
              \* or that of a "sibling" in the same transaction
  published,  \* Iris: the fast fee of the route
  minimum,    \* source chain: the least cap of a burn behind a fee switch
  changes,    \* how often the two have changed
  logs,       \* source chain: the logs of the burn
  canonical   \* Iris: NoBytes, or the message it signed

client == <<version, validated, built, quote, pc, err, tx, extracted, taken>>
world  == <<published, minimum, changes, logs, canonical>>
vars   == <<version, validated, built, quote, pc, err, tx, extracted, taken,
            published, minimum, changes, logs, canonical>>

StandardMode == [kind |-> "Standard", max_fee |-> 0, hook_data |-> <<>>]
NoBridge == FromRoute(<<"none", "none">>, StandardMode)

PCs == {"start", "ready", "sent", "mined", "reverted", "attested", "minted",
        "refused", "timedout", "mintrefused"}
Over == {"minted", "refused", "timedout", "mintrefused"}

---------------------------------------------------------------------------
(* The client.                                                             *)

Refuse(e) == pc' = "refused" /\ err' = e

Built(v, fromRoute, b) ==
  /\ version' = v /\ validated' = fromRoute /\ built' = b
  /\ pc' = "ready"
  /\ UNCHANGED <<quote, err, tx, extracted, taken, world>>

\* CctpV2::builder() takes any two chains.
BuildV2(source, destination, mode) ==
  /\ pc = "start"
  /\ Built("v2", FALSE, FromRoute(<<source, destination>>, mode))

\* CctpV2Route::new, then CctpV2::from_route.
BuildFromRoute(source, destination, mode) ==
  LET route == RouteNew(source, destination)
  IN /\ pc = "start"
     /\ \/ /\ route.ok
           /\ Built("v2", TRUE, FromRoute(route.val, mode))
        \/ /\ ~ route.ok
           /\ Refuse(route.err)
           /\ UNCHANGED <<version, validated, built, quote, tx, extracted,
                          taken, world>>

\* Cctp::builder(), between chains that is_supported accepts.
BuildV1(source, destination) ==
  /\ pc = "start"
  /\ {source, destination} \subseteq IsSupportedV1
  /\ Built("v1", FALSE, FromRoute(<<source, destination>>, StandardMode))

\* A fast cap is quoted, and the bridge rebuilt with it.
QuoteFastFee(amount, response) ==
  LET cap == CalculateFastTransferMaxFee(built, "USDC", amount, Buffer, response)
  IN /\ pc = "ready" /\ version = "v2" /\ quote = <<>>
     /\ ~ UsesFeeSwitch(built.mode)
     /\ \/ /\ cap.ok
           /\ quote' = <<[fee |-> published, amount |-> amount, cap |-> cap.val]>>
           /\ built' =
                [built EXCEPT
                   !.mode.kind = IF HasHook(built.mode) THEN "FastWithHook"
                                                        ELSE "Fast",
                   !.mode.max_fee = cap.val]
           /\ UNCHANGED <<pc, err>>
        \/ /\ ~ cap.ok
           /\ Refuse(cap.err)
           /\ UNCHANGED <<quote, built>>
     /\ UNCHANGED <<version, validated, tx, extracted, taken, world>>

\* The cap of a fee switch is what getMinFeeAmount answers.
QuoteStandardFee ==
  LET cap == GetMinStandardTransferFeeAmount(built, minimum)
  IN /\ pc = "ready" /\ version = "v2" /\ UsesFeeSwitch(built.mode)
     /\ \/ /\ cap.ok
           /\ built' = [built EXCEPT !.mode.max_fee = cap.val]
           /\ UNCHANGED <<pc, err>>
        \/ /\ ~ cap.ok
           /\ Refuse(cap.err)
           /\ UNCHANGED built
     /\ UNCHANGED <<version, validated, quote, tx, extracted, taken, world>>

FeeResponses ==
  {Ok(<<TransferFee(2000, 0), TransferFee(1000, published)>>),
   Ok(<<TransferFee(2000, 0)>>), Err("Network")}

\* Seeded fault: the hash of the burn is not kept.
SubmitUnrecorded(request) ==
  /\ pc = "ready"
  /\ \/ request.ok /\ pc' = "sent" /\ UNCHANGED err
     \/ ~ request.ok /\ Refuse(request.err)
  /\ UNCHANGED <<version, validated, built, quote, tx, extracted, taken, world>>

Submit(request) ==
  /\ pc = "ready"
  /\ \/ request.ok /\ pc' = "sent" /\ tx' = <<request.val>> /\ UNCHANGED err
     \/ ~ request.ok /\ Refuse(request.err) /\ UNCHANGED tx
  /\ UNCHANGED <<version, validated, built, quote, extracted, taken, world>>

\* An amount that was quoted is the amount burned.
Quoted(amount) == (quote # <<>>) => (quote[1].amount = amount)

BurnTokens(token, amount) ==
  /\ version = "v2" /\ Quoted(amount)
  /\ Submit(Burn(built, token, amount))

BurnAssets(asset, amount) ==
  /\ version = "v2" /\ Quoted(amount)
  /\ Submit(BurnAsset(built, asset, amount))

BurnTokensV1(token, amount) ==
  version = "v1" /\ Submit(BurnV1(built, token, amount))

---------------------------------------------------------------------------
(* The source chain and Iris.                                              *)

Log(topic, message) == [topic |-> topic, message |-> message]

\* The unified messenger of the environment sends and receives the message.
TemplateV2(call, to, source) ==
  [header |-> MessageHeader(DomainIdV2Arms[source], FromU32Arms[call.domain],
                "zero", AddressWord(to), AddressWord(to),
                AddressWord(call.caller), call.min_finality, 0),
   body   |-> WithMaxFee(NewWithHooks(call.token, call.recipient, call.amount,
                                      "sender", call.hook), call.max_fee)]

\* The SDK does not look into a v1 message.
MessageOfBurn ==
  IF version = "v1" THEN BytesOf(<<Cell(248, tx[1].call)>>)
  ELSE Encode(TemplateV2(tx[1].call, tx[1].to, built.source))

ForeignMessage == NoBytes   \* the message of another burn, in the same transaction

LocalDomain ==
  AsU32[IF version = "v1" THEN DomainIdV1Arms[built.source]
                          ELSE DomainIdV2Arms[built.source]]

HasFeeSwitch ==
  version = "v2" /\ SupportsStandardTransferFeeSwitch(built.source) = Ok(TRUE)

\* What the messenger requires of a request, whichever the mode is.
BurnIsAccepted(call) ==
  /\ call.amount > 0
  /\ call.max_fee < call.amount
  /\ HasFeeSwitch => call.max_fee >= minimum
  /\ call.domain # LocalDomain
  /\ call.fn = "depositForBurnWithHook" => call.hook # <<>>

\* The messengers burn the tokens of the registry, and perhaps others.
IsRegistered(token) ==
  \E asset \in Assets : V2BridgeTokenAddress(asset, built.source) = Ok(token)

\* `before` are the logs of what a batch put before the burn.
MineBurn(before) ==
  /\ pc = "sent"
  /\ \/ /\ BurnIsAccepted(tx[1].call)
        /\ pc' = "mined"
        /\ logs' = <<Log("Transfer", NoBytes)>> \o before
                   \o <<Log("MessageSent", MessageOfBurn),
                        Log("DepositForBurn", NoBytes)>>
     \/ /\ ~ BurnIsAccepted(tx[1].call) \/ ~ IsRegistered(tx[1].call.token)
        /\ pc' = "reverted" /\ UNCHANGED logs
  /\ UNCHANGED <<version, validated, built, quote, err, tx, extracted, taken,
                 published, minimum, changes, canonical>>

ChangeFee ==
  /\ changes < MaxFeeChanges /\ canonical = NoBytes /\ pc \notin Over
  /\ published' \in FeeLevels \ {published}
  /\ changes' = changes + 1
  /\ UNCHANGED <<client, minimum, logs, canonical>>

\* What getMinFeeAmount may answer; zero while the switch is off.
MinFeeAmounts == {0, 1}

\* A minimum that changes once the burn is mined does not concern it.
ChangeMinimum ==
  /\ changes < MaxFeeChanges /\ HasFeeSwitch /\ pc \in {"ready", "sent"}
  /\ minimum' \in MinFeeAmounts \ {minimum}
  /\ changes' = changes + 1
  /\ UNCHANGED <<client, published, logs, canonical>>

ExecutesFast(call) ==
  /\ call.min_finality = FinalityAsU32.Fast
  /\ call.max_fee >= ApplyToAmount(published, call.amount)

Completed(message, call, takes) ==
  [header |-> [message.header EXCEPT
     !.nonce = "assigned",
     !.finality_threshold_executed =
       FinalityAsU32[IF ExecutesFast(call) THEN "Fast" ELSE "Standard"]],
   body |-> WithExpirationBlock(
     [message.body EXCEPT
        !.fee_executed = IF ExecutesFast(call) THEN ApplyToAmount(published, call.amount)
                                               ELSE takes], 1)]

\* A standard transfer pays what the fee switch takes, up to its cap.
IrisSigns(takes) ==
  /\ pc = "mined" /\ canonical = NoBytes
  /\ canonical' = IF version = "v1" THEN MessageOfBurn
                  ELSE Encode(Completed(
                    TemplateV2(tx[1].call, tx[1].to, built.source),
                    tx[1].call, takes))
  /\ UNCHANGED <<client, published, minimum, changes, logs>>

---------------------------------------------------------------------------
(* get_message_sent_event, the same code in both versions.                 *)

\* Seeded fault: the log of the burn is taken by its place.
FirstLogMessage(receipt) ==
  CASE receipt.kind = "error"  -> Err("Rpc")
    [] receipt.kind = "absent" -> Err("TransactionNotFound")
    [] receipt.kind = "found"  ->
         IF receipt.logs = <<>> THEN Err("MessageSentEventMissing")
         ELSE Ok(<<receipt.logs[1].message, Keccak256(receipt.logs[1].message)>>)

GetMessageSentEvent(receipt) ==
  CASE receipt.kind = "error"  -> Err("Rpc")
    [] receipt.kind = "absent" -> Err("TransactionNotFound")
    [] receipt.kind = "found"  ->
         LET sent == Find(receipt.logs, LAMBDA log : log.topic = "MessageSent")
         IN IF ~ sent.ok THEN Err("MessageSentEventMissing")
            ELSE Ok(<<sent.val.message, Keccak256(sent.val.message)>>)

\* No other burn of the transaction has logged a message.
Alone ==
  \A i, j \in DOMAIN logs :
    logs[i].topic = "MessageSent" /\ logs[j].topic = "MessageSent" => i = j

Receipt == [kind |-> IF pc = "sent" THEN "absent" ELSE "found", logs |-> logs]

Extract(receipt) ==
  /\ pc \in {"sent", "mined", "reverted"}
  /\ extracted' = GetMessageSentEvent(receipt)
  /\ extracted' # extracted
  /\ UNCHANGED <<version, validated, built, quote, pc, err, tx, taken, world>>

---------------------------------------------------------------------------
(* get_attestation, for its window, and mint.                              *)

DefaultPolling == [max_attempts |-> 30, poll_interval_secs |-> 60]
FastPolling    == [max_attempts |-> 30, poll_interval_secs |-> 5]

\* Seeded fault: every v2 burn is polled for as a fast one.
AlwaysFastPolling == FastPolling

\* transfer() chooses by the mode; v1 has the default only.
PollingOfBridge ==
  IF version = "v2" /\ IsFast(built.mode) THEN FastPolling ELSE DefaultPolling

\* The last request leaves before the last sleep.
LastRequestSecs(config) == (config.max_attempts - 1) * config.poll_interval_secs

\* The chain's own time to the finality that was executed.
FinalitySecs ==
  IF version = "v1" THEN ConfirmationAverageTime(built.source).val
  ELSE IF AttestedFinality(Decode(canonical).val.header) = Ok("Fast")
  THEN FastTransferConfirmationTime(built.source).val
  ELSE StandardTransferConfirmationTime(built.source).val

\* v2 asks for the transaction, v1 for the hash it extracted.
Asked == \/ version = "v2"
         \/ extracted.ok /\ extracted.val[2] = Keccak256(canonical)

AwaitSigned ==
  /\ pc = "mined" /\ canonical # NoBytes /\ Asked
  /\ \/ /\ FinalitySecs =< LastRequestSecs(PollingOfBridge)
        /\ pc' = "attested" /\ taken' = "own" /\ UNCHANGED err
     \/ /\ FinalitySecs > LastRequestSecs(PollingOfBridge)
        /\ pc' = "timedout" /\ err' = "AttestationTimeout" /\ UNCHANGED taken
  /\ UNCHANGED <<version, validated, built, quote, tx, extracted, world>>

\* Iris lists the messages of a transaction in their order, of which v2 takes
\* the first that is ready, and v1 asks for the hash of the first.
SiblingIsAsked ==
  /\ ~ Alone
  /\ version = "v1" =>
       extracted.ok /\ extracted.val[2] = Keccak256(ForeignMessage)

\* Iris signs the message of another burn too, earlier than this one or later.
AwaitSibling ==
  /\ pc = "mined" /\ SiblingIsAsked
  /\ pc' = "attested" /\ taken' = "sibling"
  /\ UNCHANGED <<version, validated, built, quote, err, tx, extracted, world>>

\* Seeded fault: an attempt before the burn is mined is not counted.
AwaitNothingOnceMined ==
  /\ pc \in {"mined", "reverted"}
  /\ version = "v1" => extracted.ok
  /\ canonical = NoBytes \/ ~ Asked
  /\ pc' = "timedout" /\ err' = "AttestationTimeout"
  /\ UNCHANGED <<version, validated, built, quote, tx, extracted, taken, world>>

\* Every attempt finds nothing: the burn is not mined, or Iris is not ready, be
\* it for this message or, where that is asked for, for the sibling's.
AwaitNothing ==
  /\ pc \in {"sent", "mined", "reverted"}
  /\ version = "v1" => extracted.ok
  /\ canonical = NoBytes \/ ~ Asked
  /\ pc' = "timedout" /\ err' = "AttestationTimeout"
  /\ UNCHANGED <<version, validated, built, quote, tx, extracted, taken, world>>

\* receiveMessage on the destination chain.
DestinationAccepts ==
  /\ IsTestnet(built.source) = IsTestnet(built.destination)
  /\ version = "v2" =>
       /\ DestinationDomainId(built) =
            Ok(Decode(canonical).val.header.destination_domain)
       /\ ~ HasPlaceholderNonce(Decode(canonical).val.header)

TransmitterOfBridge ==
  IF version = "v1" THEN MessageTransmitterAddress(built.destination)
                    ELSE MessageTransmitterV2Contract(built)

\* The sibling may be for this destination, or for another.
Mint ==
  /\ pc = "attested"
  /\ \/ /\ ~ TransmitterOfBridge.ok
        /\ Refuse(TransmitterOfBridge.err)
     \/ /\ TransmitterOfBridge.ok /\ (taken = "own" => DestinationAccepts)
        /\ pc' = "minted" /\ UNCHANGED err
     \/ /\ TransmitterOfBridge.ok /\ (taken = "own" => ~ DestinationAccepts)
        /\ pc' = "mintrefused" /\ UNCHANGED err
  /\ UNCHANGED <<version, validated, built, quote, tx, extracted, taken, world>>

---------------------------------------------------------------------------

SessionInit ==
  /\ version = "none" /\ validated = FALSE /\ built = NoBridge
  /\ quote = <<>> /\ pc = "start" /\ err = "none" /\ tx = <<>>
  /\ extracted = Err("none") /\ taken = "none"
  /\ published \in FeeLevels /\ minimum = 0 /\ changes = 0
  /\ logs = <<>> /\ canonical = NoBytes

Build ==
  \E s, d \in SessionChains :
    \/ \E m \in SessionModes : BuildV2(s, d, m) \/ BuildFromRoute(s, d, m)
    \/ BuildV1(s, d)

\* A raw burn names its token: that of the chain, or whatever was passed.
RawTokens == {"1234"} \cup (IF UsdcEvmTokenAddress(built.source).ok
                            THEN {UsdcEvmTokenAddress(built.source).val} ELSE {})

Burns ==
  \E amount \in Amounts :
    \/ \E token \in RawTokens : \/ BurnTokens(token, amount)
                                \/ BurnTokensV1(token, amount)
    \/ \E asset \in Assets : BurnAssets(asset, amount)

Environment ==
  \/ \E before \in {<<>>, <<Log("MessageSent", ForeignMessage)>>} : MineBurn(before)
  \/ ChangeFee \/ ChangeMinimum
  \/ \E takes \in {0} \cup (IF tx = <<>> THEN {} ELSE {tx[1].call.max_fee}) :
       IrisSigns(takes)

Polling == AwaitSigned \/ AwaitSibling \/ AwaitNothing

Ended == pc \in Over /\ UNCHANGED vars

SessionNext ==
  \/ Build
  \/ \E amount \in Amounts, response \in FeeResponses :
       QuoteFastFee(amount, response)
  \/ QuoteStandardFee
  \/ Burns
  \/ Environment
  \/ \E receipt \in {Receipt, [kind |-> "error", logs |-> <<>>]} : Extract(receipt)
  \/ Polling
  \/ Mint
  \/ Ended

---------------------------------------------------------------------------
(* Properties.                                                             *)

\* Every variable has its type, and what a session holds agrees with how far
\* it is: a bridge once built, a burn once sent, a signature once mined.
TypeOK ==
  /\ version \in {"none", "v1", "v2"} /\ validated \in BOOLEAN
  /\ built.mode \in Mode
  /\ {built.source, built.destination} \subseteq Chains \cup {"none"}
  /\ pc \in PCs /\ published \in FeeLevels /\ changes \in 0 .. MaxFeeChanges
  /\ minimum \in MinFeeAmounts /\ taken \in {"none", "own", "sibling"}
  /\ (pc = "start") => (version = "none")
  /\ (pc \in {"start", "ready"}) => (tx = <<>>)
  /\ (pc \in PCs \ {"start", "ready", "refused", "timedout"}) => (tx # <<>>)
  /\ (canonical # NoBytes) => (tx # <<>>)
  /\ (pc \in {"attested", "minted", "mintrefused"}) => (taken # "none")
  /\ (taken = "own") => (canonical # NoBytes)

\* The message of a validated route is never refused by the transmitter it is
\* taken to, as those of the plain builder may be (CctpV2Route::new): only that
\* of another burn, which v2 may have been given in its place, can be.
ValidatedRouteMints ==
  validated /\ pc = "mintrefused" => taken = "sibling"

\* What the messenger requires and burn does not check, on a validated route:
\* an amount, a token of the registry, a hook of some bytes, a fast cap below
\* the amount, which a quoted one is but for dust, and, behind a fee switch, a
\* cap of at least the minimum, of which the standard modes send none and the
\* fee-switch modes what was quoted or passed. For no other reason is a burn
\* that passed the guards of burn reverted for what it asks.
OnlyUncheckedBurnsRevert ==
  validated /\ pc = "reverted" =>
    LET call == tx[1].call
    IN \/ call.amount = 0
       \/ ~ IsRegistered(call.token)
       \/ HasHook(built.mode) /\ built.mode.hook_data = <<>>
       \/ HasFeeSwitch /\ call.max_fee < minimum
       \/ /\ IsFast(built.mode) /\ call.max_fee >= call.amount
          /\ quote # <<>> => call.amount =< 2

Signed == version = "v2" /\ canonical # NoBytes

\* What Iris signs asks for what the accessors of the bridge report: its
\* finality, fee cap, hook, recipient and domain (issue 218).
WireAgreesWithMode ==
  Signed =>
    LET message == Decode(canonical)
        h == message.val.header
        b == message.val.body
    IN /\ message.ok
       /\ h.min_finality_threshold = FinalityAsU32[FinalityThreshold(built.mode)]
       /\ Ok(h.destination_domain) = DestinationDomainId(built)
       /\ IsPermissionless(h)
       /\ b.max_fee = (IF MaxFee(built).ok THEN MaxFee(built).val ELSE 0)
       /\ b.hook_data = (IF ModeHookData(built.mode).ok
                         THEN ModeHookData(built.mode).val ELSE <<>>)
       /\ b.mint_recipient = AddressWord(built.recipient)

\* The summary of the signed message tells the mode of the bridge, but for the
\* modes it cannot tell: is_fast_transfer, a cap above zero, also holds for
\* the fee switch, fails for a fast mode of cap zero, and has_hooks fails for
\* a hook of no bytes.
SummaryTellsTheMode ==
  Signed =>
    LET s == SummaryParse(canonical).val
        mode == built.mode
    IN /\ s.requested_finality = TraitView(built).finality_threshold
       /\ \/ s.is_fast_transfer = IsFast(mode)
          \/ UsesFeeSwitch(mode)
          \/ IsFast(mode) /\ ModeMaxFee(mode) = 0
       /\ s.has_hooks = HasHook(mode) \/ mode.hook_data = <<>>
       /\ s.is_fast_transfer /\ s.attested_finality = Ok("Fast") =>
            s.fee_executed =< s.max_fee

\* A burn with a quoted cap is still attested at fast finality when the fee
\* has risen since the quote, by no more than the buffer.
QuoteSurvivesRise ==
  Signed /\ quote # <<>> =>
    \/ BUFFER_PERCENT_DENOMINATOR * published
         > (BUFFER_PERCENT_DENOMINATOR + Buffer) * quote[1].fee
    \/ AttestedFinality(Decode(canonical).val.header) = Ok("Fast")

\* The message in the log is the signed one with a placeholder nonce and
\* nothing executed: neither its bytes nor its hash are those of the message
\* to mint, and everything the client asked for is the same in both.
TemplateIsCompletedByIris ==
  Signed /\ extracted.ok =>
    \/ extracted.val[1] = ForeignMessage
    \/ LET t == Decode(extracted.val[1]).val
          c == Decode(canonical).val
      IN /\ HasPlaceholderNonce(t.header) /\ ~ AttestedFinality(t.header).ok
         /\ ~ HasPlaceholderNonce(c.header) /\ AttestedFinality(c.header).ok
         /\ extracted.val[2] # MessageHash(c)
         /\ t = [header |-> [c.header EXCEPT
                   !.nonce = t.header.nonce, !.finality_threshold_executed = 0],
                 body |-> [c.body EXCEPT
                   !.fee_executed = 0, !.expiration_block = 0]]

\* The message extracted is that of the burn, unless another burn came before
\* it in the transaction; then a v1 session, which asks Iris for the hash it
\* extracted, is never given its own message: it mints the other one, or none.
ExtractionFindsOwnBurn ==
  /\ extracted.ok =>
       /\ extracted.val[1] = (IF Alone THEN MessageOfBurn ELSE ForeignMessage)
       /\ extracted.val[2] = Keccak256(extracted.val[1])
  /\ version = "v1" /\ taken = "own" => Alone

\* A polling call gives up on a signed message only where the chain's finality
\* outlasts it: standard finality of Linea (eight hours), and a fast burn
\* executed at standard finality, polled for with the fast window.
WindowCoversFinality ==
  Signed /\ pc = "timedout" =>
    /\ AttestedFinality(Decode(canonical).val.header) = Ok("Standard")
    /\ built.source = "Linea" \/ IsFast(built.mode)

\* Wherever a session starts, decode and parse accept the same bytes, those
\* that are well formed; what they return encodes to these bytes again, header
\* and body apart too, so that its hash is theirs; the two ways to build a body
\* with a cap and a hook give the same; and a summary lacks an address only
\* because its domain has none, never because its padding was dropped
\* (protocol/message.rs).
CodecAgrees ==
  pc = "start" =>
    /\ DecodersAgree
    /\ EncodersInvert
    /\ BuildersCommute
    /\ SummariesKeepAddresses

\* Wherever a session starts, an amount is read as it was printed, by both
\* parsers, which differ only on zero; a text means the same to both; a fee
\* survives its JSON form, and one with more digits than the type keeps is
\* rounded up, never down; a gas limit or price with its percentage is below
\* the estimate exactly where a sum or product is beyond its type.
AmountsAgree ==
  pc = "start" =>
    /\ PrintedAmountsAreRead
    /\ TextsMeanAmounts
    /\ FeesRoundUp
    /\ FeesSurviveJson
    /\ PercentsAreAdded

\* is_supported tells the chains that CCTP v1 can be used on: a burn between
\* two of them is not refused because a chain is unsupported.
SupportedChainsAreServed ==
  version = "v1" /\ {built.source, built.destination} \subseteq IsSupportedV1
    => err # "UnsupportedChain"
=============================================================================
