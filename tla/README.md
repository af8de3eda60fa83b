# A TLA+ model of cctp-rs

`cctp-rs` moves USDC between chains with Circle's Cross-Chain Transfer Protocol:
it burns tokens on a source chain, polls Circle's Iris API until the burn has been
attested, and mints on a destination chain, where third-party relayers may be
faster. The library keeps no state of its own between two calls. What makes it hard
is what happens between two of its `await`s: two chains, an attestation service,
relayers and the caller's other tasks all move, requests fail on the way there or
on the way back, and what was sent is not waited for.

The specifications in this directory model those parts, TLC checks them on small
instances, and TLAPS proves the safety properties for every value of the constants.

## Inventory

| Component | State | Operations | Interacts with |
|---|---|---|---|
| Attestation polling (`bridge/v2.rs`, `bridge/cctp.rs`, `bridge/config.rs`, `protocol/attestation.rs`) | the loop variable and the reply in hand | `get_attestation` (v1, v2), `PollingConfig::validate` | Iris over HTTP |
| Destination side (`bridge/v2.rs`, `contracts/v2/message_transmitter_v2.rs`) | the transfer's message, the loop variable of a wait | `mint`, `mint_if_needed`, `is_message_received`, `wait_for_receive` | destination node, relayers, other clients |
| Flows (`bridge/v2.rs`, `provider.rs`, the README of the crate) | the burn hash, the attested pair | `transfer`, `transfer_asset`, stepwise flows, `with_retry` | all of the above |
| Approval (`bridge/v2.rs`, `bridge/multicall.rs`, `contracts/erc20.rs`) | the balance and allowance read | `get_allowance`, `approve`, `ensure_approval`, `batch_token_state`, `burn` | token contract, source node, the owner's other tasks |
| Error classification (`error.rs`) | none | `is_already_relayed`, `is_timeout`, `is_rate_limited`, `is_transient` | decides retries and races |
| Burn requests (`bridge/transfer_mode.rs`, `bridge/v2.rs`, `contracts/v2/token_messenger_v2.rs`) | the transfer mode | `validate_transfer_mode`, `burn`, `burn_asset`, the request builders, the accessors | chain registry, source node |
| Fees and amounts (`protocol/fees.rs`, `primitives.rs`, `bridge/v2.rs`) | none | parsing, printing and rounding of fees and amounts, fee queries, `calculate_fast_transfer_max_fee` | Iris |
| Chain registry and routes (`chain/`, `primitives.rs`, `protocol/domain_id.rs`, `protocol/finality.rs`) | static tables | support, domain, address, token and time lookups, `CctpV2Route`, `CctpTransferAsset` | every operation |
| Message codec (`protocol/message.rs`) | none | parse, decode, encode, hash, summary | event extraction, tools |
| Event extraction (`bridge/v2.rs`, `bridge/cctp.rs`) | none | `get_message_sent_event` | source node |
| v1 bridge (`bridge/cctp.rs`, `contracts/token_messenger.rs`) | its two chains | lookups, extraction, polling, the burn request | registry, source node, Iris |
| Provider helpers (`provider.rs`) | none | gas estimates and prices | source and destination nodes |
| Examples (`examples/`) | what they read and were told | two that spend testnet funds, four that ask the registry, others that print | all of the above |
| Tracing (`spans.rs`) | none | spans and events | nothing depends on it |

Hard behaviours, and the properties that make each component correct:

* *Polling.* Every reply is a snapshot, stale when it is decided on; a transaction
  may have several messages, each with a status of its own. What is returned must
  be usable, a failure must be final, a usable reply must not be missed, and the
  call must end after the configured number of attempts.
* *Destination side.* A relayer may act between the check and the submission, and a
  submission may be executed although its reply was lost. What is reported as
  complete must be complete, and nothing that was submitted may be lost.
* *Flows.* A crash, a retry or an error between the burn and the mint must not burn
  twice, must not lose a burn whose hash was known, and must not tell the caller
  anything untrue about its money.
* *Approval.* Reads are stale, approvals are pending when the burn is sent, and two
  tasks of one owner share an allowance that each of them overwrites.
* *Data along a transfer.* The same facts are written down several times: the mode
  in the bridge, in the request and in the message; offsets in an encoder and a
  decoder; lists of chains beside tables of addresses; a fee at the time of the quote
  and at the time of the burn. They must agree from the builder to the mint.
* *Numbers.* Decimal texts, percentages and fees are rounded; every rounding must be
  on the safe side, and the boundaries of the types must not be crossed silently.
* *Examples.* They hold copies of the library's tables and spend real (testnet)
  funds: the copies must agree, and nothing may be spent unasked.

The `hazards` of `PROJECT.json` list them one by one, at their lines.

## Modules

| Module | Models | Checked by |
|---|---|---|
| `AttestationPolling` | one call of `get_attestation`, v1 or v2 | `polling`, `polling_wait` |
| `MintRelay` | `mint`, `mint_if_needed`, `is_message_received`, `wait_for_receive` by several clients | `relay`, `relay_minted`, `relay_nonce` |
| `SettledAnswers` | the abstract promise of a question: nothing is answered that is not settled | as a property of `polling` and `relay` |
| `CrossChainPayment` | the abstract promise to a caller | as a property of `transfer` |
| `Transfer` | the flows end to end, with retries, crashes and resumptions | `transfer`, `transfer_retry`, `transfer_transient` |
| `Approval` | the calls before a burn | `approval`, `approval_safe` |
| `Routes` | the tables of the registry and the routes | through the modules that extend it |
| `TransferModes` | the modes, the guards of `burn`, the request builders | through the modules that extend it |
| `Fees` | fees, amounts, gas buffers, fee queries | through the modules that extend it |
| `MessageCodec` | the v2 message: header, body, encoders, decoders, summary | through `BridgeSession` |
| `BridgeSession` | one burn, v1 or v2, from the builder to the mint, for the data it carries | `session`, `session_supported` |
| `OfflineExamples` | the examples that only ask the registry | through `ExamplePrograms` |
| `ExamplePrograms` | the programs that drive a session: an application, or an example | `session`, `session_supported` |

They form two towers. `AttestationPolling`, `MintRelay`, `Transfer` and `Approval` are
about *who does what when* and keep data abstract: a message is a name, a burn a number.
`Routes`, `TransferModes`, `Fees`, `MessageCodec`, `BridgeSession` and
`ExamplePrograms` extend one another in this order and are about *what is carried*:
there the order of events is that of one session, and the data are modelled down to
offsets, roundings and rows of tables. Where the two meet, the step is atomic in one
and detailed in the other: polling is a window in `BridgeSession`, a step in `Transfer`
and a loop in `AttestationPolling`; a look at the destination chain is a step in
`Transfer` and a race in `MintRelay`. `SettledAnswers` is what the coarse and the detailed
versions have in common, and each of them is proved to implement it.

The proofs are in eight modules: `...Proofs` beside `AttestationPolling`, `MintRelay`,
`Transfer`, `Approval`, `MessageCodec`, `BridgeSession` and `ExamplePrograms`, and
`RequestProofs` for what `Routes`, `TransferModes` and `Fees` say of a request. Each `MC*`
module extends its specification and gives TLC its sets of values. Definitions whose
comment begins with "Seeded fault" are not part of any specification: each is a
plausible bug in the definition that follows it, and shows that a property can fail.

### AttestationPolling

`pc` is the place in the loop, `attempt` the loop variable, `reply` the HTTP answer
(its kind and, for a 200, the array of entries at that instant), `nap` the sleep in
progress. `Request` and the `Decide...` actions are separate steps: Iris may change
its entries in between. `Outcome` is `select_v2_attestation`, and at the same time
the `match` of v1, which is that choice over one entry. An entry is a status and the
presence of its two byte fields; a status that serde does not know, or a field that
is not hex, makes the whole reply undecodable. Iris is assumed to keep its word: a
failure stays a failure, a signed attestation stays signed (`Keeps`). Without this
assumption nothing a poll reports could be relied upon, with it everything else of
Iris is arbitrary, including moving from failed or pending siblings to complete ones.

`requests`, `limited`, `slept` and `sawUsable` are history variables.

### MintRelay

The chain is a pool of numbered transactions (`txStatus`, `txMsg`, `txBy`) and the set
`used` of executed messages. A transaction is mined at any time after it was accepted, in
any order; the first of a message mints, later ones revert. `Submit` is
`send_transaction`: the transaction enters the pool and the reply arrives or is lost.
`Rejected` is a node that simulates the transaction and finds the message executed; nodes
that do not simulate are covered too, because `Submit` has no such guard. `HashKeyed` says
whether the mapping `usedNonces` is keyed by the hash of the message, which is what
`is_message_received` asks for (its tests answer whatever key they are asked). The
documents of the repository speak of the nonce of the message (`verification/README.md`,
and the mapping's name `usedNonces`), and the contract is not part of the repository, so
both cases are checked and proved: `relay` says what the code achieves if its lookup is
right, `relay_nonce` what happens if the documents are, and `LooksCorrect` states both, each
for its key (`LooksAreBlind`: no call ever hears of a receipt).

### SettledAnswers

The library asks the outside world two things: Circle about a burn, the destination
chain about a message. `world` is what is settled of each subject, once and for good;
`answered` what each asker was told last. The promise is the guard of `Answer`: nothing
is answered that is not settled. An error or a timeout answers nothing. In
`AttestationPolling` the subject is the burn, settled when one of its messages is usable
or all have failed (`VerdictOf`); in `MintRelay` the subjects are the messages, settled
when executed. `TransferProofs` and `BridgeSessionProofs` instantiate it for their own
steps. That it suffices, that is that an answer stays true, is proved from the
abstract specification alone (`AnswersStayTrue`).

### CrossChainPayment, Transfer

`CrossChainPayment` has two variables: how far each burn has come, and what each caller
was told last. Its guards are the promise: "complete" may be said once a burn is attested,
"delivered" once it is, "lost" once Circle refused to attest it. `Transfer` composes burn,
attestation, check, submission and wait into the three flows, in which `get_attestation`
is one step (`StepsAreAnswers` shows that it asks no more of that step than
`AttestationPolling` achieves), and adds what an application adds: `Retry` is the
`with_retry` of `provider.rs`, `Crash` forgets everything but the burn hashes the
application was given (`known`), and `Resume` takes such a burn up again, also while
another process works on it. A burn is `InReach` while its hash is known to the application
or held by a running call. `transfer` gives its hash back with a success only, so that each
of its errors after the burn, that of a mint which a relayer's had made superfluous among
them, puts the burn out of reach; `OnlyTransferForgetsItsBurn` says that nothing else does. The
refinement mapping reads a burn's phase off the chains
(`PhaseOf`) and the verdict off the last result (`Verdict`).

### Approval

`pool` holds the owner's pending transactions in nonce order. A call reads (one read,
or the two of `batch_token_state`, answered one at a time), approves if the allowance
is too small, and burns. Whether it waits for its approval is the caller's choice
(`WaitChoices`). A node may estimate the gas of a transaction on the last block or on
the pending state, and refuses it if it would revert there (`Refuses`).

### Routes, TransferModes, Fees

A chain is named by its `NamedChain` variant, a domain by its `DomainId` variant, an
address by its first two bytes. A Rust `match` with a last arm that is an error is a
function whose `DOMAIN` is what the other arms list, so that the tables are compared
row by row; every list of the source is written down separately here too, because
their agreement is what is in question. A `Result` is `Ok(v)` or `Err(e)`, and `?` is
`AndThen`: the first error of a chain of calls is the one returned, which keeps the
order of the guards.

A bridge is the record of its builder's fields, a request the record of its wire
values (`BurnCall`). `Burn` runs the guards of `burn` in their order and then
`BurnRequest`. A decimal text is the record of what the parsers look at (sign, digits,
number of points, further digits, anything unclean), a fee a number of hundredths of a
basis point, as in the code. The widths `u32`, `u64`, `u128` and `U256` are constants. The
two helpers of `provider.rs` add a percentage to an estimate: `100 + buffer` is a sum of
`u64`, which panics or wraps beyond the type, depending on the build (`BuildProfiles`); the
gas limit is a product that saturates, the gas price one that wraps.

### MessageCodec

Bytes are cells, each at its offset, with a width and a value. An encoder pushes cells in
the order of the code, each where the one before ends (`BytesOf`, `Extend`); a decoder
reads at the offsets *written in the decoder*, so that the two agree only if the offsets
do: an exchange of two fields of one width, which a round trip cannot see, is seen. An
address word is its first 12 bytes and its last 20; a hash is a pair that does not
collide. `parse` and `decode` are the two decoders, with their own guards.

### BridgeSession

`version`, `validated` and `built` are the bridge and how it was built; `quote` the fee
quote its cap comes from; `tx` the request that was sent; `extracted` what
`get_message_sent_event` returned; `taken` whose message
`get_attestation` returned; `published`, `minimum`, `logs` and `canonical` are Iris' fee,
the minimum of the source's fee switch, the logs of the source chain and the message that
Iris signed. `BuildV2`,
`BuildFromRoute` and `BuildV1` are the builders; `QuoteFastFee` and `QuoteStandardFee`
the two ways to a cap; `BurnTokens`, `BurnAssets` and `BurnTokensV1` the burns;
`Extract` may run before the burn is mined, or meet an RPC error; `AwaitSigned`
compares the chain's own time to finality with the window `transfer` polls for;
`AwaitSibling` is a poll that ends with the message of another burn of the transaction;
`Mint` is `receiveMessage` at the transmitter of the bridge. External are the
messenger, which refuses an amount of zero, a cap that is not below the amount or, behind
a fee switch, below the minimum charged *by then*, its own domain and an empty hook
(`BurnIsAccepted`), and may refuse a token the registry does not have; Iris, which assigns
a nonce, executes fast finality if the cap covers the fee it publishes *by then*, and signs
every message; and the transmitter, which takes what was signed for its domain in its
environment. The contracts are not part of the repository: of the messenger's
requirements, the README of the crate documents the minimum of a fee switch, the guards of
`burn` imply the cap below the amount, and the rest is what Circle's contract is known to
require. The fee and the minimum change up to `MaxFeeChanges` times between them.

The logs may hold the message of another burn of the same transaction, before this one's.
Extraction then finds the other, and a v1 session polls for the other's hash: it mints the
other's message, or none. A v2 poll asks for the transaction, and may be answered with
either.

### ExamplePrograms, OfflineExamples

`program` is an application, which may call the session as it likes, or one of six
examples. The two that spend funds run stage by stage (`stage`): configuration from the
environment, balances, the `EXECUTE_TRANSFER` gate, the bridge, the fee quote, the
approval, the burn, the polling, the mint; each stage takes the session's own action, so
that what holds of a session holds of an example. An error is the end of the process,
and undoes nothing. The offline examples are the conjunction of what they assert:
`OfflineExamples` writes their copies of the tables down a second time.

## Runs, and what they show

| Run | Shows |
|---|---|
| `polling` | a returned pair is usable, a call answers what is settled only (`SettledAnswers`), no usable reply is missed, timeouts are earned, waiting is accounted for, every call ends |
| `polling_wait` | *violated as documented*: `total_timeout_secs` is not the maximum wait |
| `relay` | `AlreadyRelayed` and `Received` are said of executed messages only (`SettledAnswers`); submissions are not lost; gas is wasted only in a race; `Minted` leads to delivery; calls return |
| `relay_minted` | *violated as documented*: "We successfully minted" |
| `relay_nonce` | *violated*: against a mapping keyed by the header nonce, as documented, a wait times out on a delivered transfer |
| `transfer` | the flows implement `CrossChainPayment`; stepwise payments burn once; a burn gets out of reach through `transfer` only; complete payments are delivered |
| `transfer_retry` | *violated as documented*: `transfer` cannot be retried on every transient error |
| `transfer_transient` | *violated as documented*: a network failure of a contract read is not transient |
| `approval` | an undisturbed burn never reverts; a call that waits for its approval is not refused; calls return |
| `approval_safe` | *violated as documented*: "Now burn is safe to call" |
| `session` | what was configured, quoted, requested, logged, signed and summarised agree; the own message of a validated route is never refused at its end; burns revert only for what `burn` does not check; a v1 session whose extraction found another burn never gets its own message; a quote survives a rise within its buffer; polling windows cover finality but for two documented cases; encoders and decoders, and parsers and printers, agree; the examples agree with the registry, spend only on demand, and end |
| `session_supported` | *violated*: `is_supported` of v1 names three testnets that no other v1 table has |

The runs without an expected violation check deadlock where a specification has a
final state of its own (`polling`); the others stop when the bound on calls is
reached, and say `CHECK_DEADLOCK FALSE`.

### Bounds

* `polling`: two messages in the transaction (enough for every precedence between
  siblings and positions), seven shapes of entries (each status, with and without
  each field that the decision looks at), four configurations (zero attempts, zero
  interval, one attempt, three attempts).
* `relay`: one message, two clients with two calls each, three transactions: enough
  for a client to lose a race to another client and to a relayer, and to call again
  after a lost reply. Calls for different messages share nothing but transaction
  numbers. Waits of zero and two attempts: refused, and with a look after a sleep.
* `transfer`: two processes, two burns, two payments or resumptions, two attempts of
  `with_retry`, two pending mints per message: two payments side by side, a retried
  `transfer`, a resumption by the other process while the first one mints. 497 293
  distinct states.
* `session`: six chains, chosen so that every pair of cases is there: two that are fast
  and of one environment (Mainnet, Linea, the latter with eight hours to finality), the
  only one with a fee switch (Sei), two testnets, and one that no table has (Moonbeam).
  Eight modes: each kind, with caps of zero, below and at an amount, and hooks of one
  byte and of none. Amounts of zero, of dust (2, where the fee rounds up to the amount)
  and of 100 000; fees of 1.3 and 1.56 basis points, that is a rise by exactly the
  buffer of 20 %, or a fall, and minima of zero (the switch is off) and one; either the fee
  or the minimum changes once per session. 675 environments of the funded examples:
  aliases, other names, unknown names, absent names; endpoints from each source, good,
  bad and missing; token overrides; values of `EXECUTE_TRANSFER` near "true".
  TLC's integers have 32 bits, so the widths are scaled down (`U32Max` and so on), with
  sample numbers on both sides of them, percentages at the end of `u64` among them.
  245 392 distinct states. `MessageCodec` and
  `Fees` are evaluated over their sample inputs in the initial states: each pair of EVM
  and other domains, padding present and absent, and each field a parser can reject;
  each shape of a decimal.
* `session_supported`: the three chains in question; no modes, no examples' environments.
* `approval`: two tasks, three calls, amounts 2 and 3 of a balance of 4 with an
  allowance of 2 (covered, one short of covered), two pending transactions: a call
  after a call that left its transactions pending, and two calls at once.

### Fairness

Weak fairness of the steps of a running call: the HTTP client has a timeout of 30 s,
RPC requests end with an answer or an error, and sleeps end. Weak fairness of the
mining of transactions that are pending. Nothing is assumed of Iris, of relayers, of
callers (nobody has to call, retry or resume), nor, in `Transfer`, of burns.

In `ExamplePrograms`, weak fairness of the steps of an example: it is a program that
runs. Iris and the chains owe it nothing, and it ends all the same, because a poll that
finds nothing gives up.

## What is proved

All theorems hold for any number of messages, clients, processes, burns and calls,
and for every set of chains, modes, amounts, fees and environments, under the named
assumptions on the constants, which say only that the bounds are natural numbers and the
model values are distinct. One theorem has a hypothesis of its own (`FeesAreModest`,
below).

* `AttestationPollingProofs`: the inductive invariant has three parts. `Control` says what
  each `pc` implies for the loop variable and the result; `Account` relates requests,
  attempts, limited replies and seconds slept; `Snapshot` says that the entries in hand
  are `Keeps`-related to what Iris holds now, which makes decisions on stale replies right
  (`ReturnedPairIsAttested` and `FailureIsFinal` are not inductive without it). Every
  invariant of the run follows, and so does `FailureIsFinal`. The refinement `Spec =>
  Inquiry!Spec` rests on them: Iris either settles the verdict or changes nothing of it
  (`VerdictIsKept`), and a step of the call leaves Iris alone, so that what it answers is
  judged by the two verdict properties of the next state. `ClientStepsRunOut` is the
  part of termination that needs no fairness: a bound (`StepsLeft`, at most
  `3 * max_attempts + 1`) that each step of the call lowers and no step of Iris raises.
* `MintRelayProofs`: the invariant relates transaction numbers, their status and
  `used` (a minted or reverted transaction's message was executed), and a call's
  result and submission to them. `CompletionIsReal`, `SubmissionIsNotLost` and the
  refinement of `SettledAnswers` hold whatever the key of `usedNonces`: with a wrong key
  nothing false is said of a completion. `LooksCorrect` says what a look is worth, for
  either key. If it is the hash, `GasIsWastedOnlyInARace` and `TimeoutIsHonest` hold
  (`Looked` is what a call that looked may conclude); if it is not, `LooksAreBlind`: no
  wait ends well, and only the simulation of a submission can tell `mint_if_needed` that
  a message was executed. `CallStepsRunOut`: each step of a call lowers its bound
  and the steps of the chain, the relayers and the other clients leave it alone, so that
  no race keeps a mint or a wait going (`Counted` adds that a wait counts its looks).
* `TransferProofs`: the invariant orders the chain events (nothing is attested that
  was not mined, nothing is received or pending that was not attested), says what each
  step of a flow holds, what each result means, how many burns a call may have
  sent, and which burns are in reach (`Kept`: a stepwise flow runs with a burn whose hash
  the application has, so that it may fail or crash and lose nothing; from it follows
  `OnlyTransferForgetsItsBurn`, in `ForgettingCorrect`). From it follow the invariants of the
  run, that what a caller was told stays true (`Payment!ToldIsTrue`), and, with that as a
  lemma about the next state, the refinement `Spec => Payment!Spec`, one lemma per group of actions. `StepsAreAnswers`
  proves two more: of `SettledAnswers`, for get_attestation and for the looks.
  `FlowStepsRunOut` bounds a flow *and its retries*: a retry uses up an attempt, which
  pays for the stages it goes back; only a crash or a new call sets the bound up again.
* `ApprovalProofs`: the invariant has three parts for each call. `PoolInv` says which
  of the pending transactions are the call's (its amounts, at most one burn, none while
  it looks); `LookInv` says that what an undisturbed call read is still true, and that
  its allowance suffices *or will, once its own approval, which comes before its burn in
  nonce order, is mined*, which is why a burn that waits for nothing does not revert;
  `WaitInv` says that a call that waited has nothing of its own pending. A call takes
  five steps at most (`StepsLeftIsBounded`, `CallStepsRunOut`), and while it waits for its
  approval, whatever other callers send goes behind it (`WaitIsNotStarved`).
* `RequestProofs`: with no state involved. Over all chains of the registry: a validated
  route resolves (contracts, domains, one endpoint, one messenger at both ends, another
  domain); the request of every mode carries what the accessors report;
  `BurnMeetsTheMessenger` says which of the messenger's requirements a burn that is not
  refused meets, and which are left to the caller; a refusal on a
  validated route is for the mode, never for the chains; an asset's route has its token
  at both ends. For every fee, amount and buffer: a cap with a buffer covers the charge
  at any fee that has risen by no more than the buffer, through both roundings up. For
  every estimate, percentage and build: a gas limit is at least its estimate exactly where
  `100 + buffer` and a hundred times the estimate are `u64`, and a gas price covers its
  base and tip where its products and sums are within their types
  (`BufferedGasCoversEstimate`).
  For texts of any length, printed or read: every amount is read as it was printed
  (`PrintedAmountIsRead`); the two parsers of amounts accept the same texts, the decimal
  ones of at most six places in their range, and read the same units
  (`TextsMeanTheirAmount`); a fee is its text rounded up to a hundredth of a basis point,
  and is refused only if it is no number or too large (`ParsedFeeRoundsUp`); what is
  written to JSON is read from it (`FeeSurvivesJson`). The value of a row of digits and
  the digits of a number are recursive functions, of which a prover knows nothing: that
  they exist and are unique is proved by induction on sets of naturals
  (`NatSetInduction`, from the least-number principle), and so is what they satisfy.
* `MessageCodecProofs`: for every message and every string of bytes, with hooks of any
  length. Where the cells of an encoder start is a recursion over the fields
  (`Starts`); unfolded for the eight fields of a header and the eight or nine of a body
  it gives the offsets (`HeaderLayout`, `BodyLayout`), which are then compared with those
  that the decoders read at. From it: what is encoded is read back by both decoders
  (`EncodedMessageIsRead`); both decoders accept the same bytes, those that are
  well-formed, and read the same in them (`DecodersAgreeOnBytes`); what is accepted encodes
  to the same bytes, and so hashes to the same (`ParsedMessageIsEncoded`); a summary loses
  an address only where the domain has none (`SummaryKeepsEveryAddress`). `CodecAgrees`, which
  TLC evaluates over samples, is an instance of them.
* `ExampleProgramsProofs`: `StageInv` says what an example has established at each stage
  (nothing is touched before the bridge stage; after it the gate was passed on a testnet
  route), `TokenInv` that the token configured is the library's for the chain the bridge
  burns on. Both theorems hold for every set of environments, chains, modes and fees.
* `BridgeSessionProofs`: first, `SessionStep` is what a step of *any* program does to the
  session, an application's, an example's or the chains' (`ProgramSteps`). The inductive
  invariant `SessionInv` then has a part for each thing a session holds: the bridge and
  the quote its cap comes from (`BridgeInv`), what it has at each `pc` (`PhaseInv`), the
  request as what `burn` returned for that bridge (`RequestInv`), the logs, the signature
  and the extraction as those of that request (`LogInv`, `SignInv`, `ExtractInv`), and why
  a session ended (`EndInv`). It is inductive because a session that has burned keeps its
  bridge and request, and what is logged or signed never changes (`Settled`). With the
  lemmas of `MessageCodecProofs` the message that Iris signed is read back into the fields
  of the request (`SignedFields`), and with those of `RequestProofs` compared with the
  bridge. All invariants of the `session` run follow: `AmountsAgree` (the samples are
  instances of the theorems about texts above), `ValidatedRouteMints`,
  `WireAgreesWithMode`, `SummaryTellsTheMode`, `QuoteSurvivesRise`, `WindowCoversFinality`,
  `TemplateIsCompletedByIris`, `ExtractionFindsOwnBurn`, `CodecAgrees`,
  `OfflineExamplesPass`, `TypeOK`, and `OnlyUncheckedBurnsRevert`. The last needs
  `FeesAreModest`: four times a fee, with hundredths of a basis point as its unit, is at
  most the whole (25 %), and the buffer at most 100 %. No code bounds what Iris may
  publish, and without a bound a quoted cap can reach an amount that is not dust; the fees
  of the run, and Circle's, are thousands of times smaller. `WindowIsSettled` is the
  refinement of `SettledAnswers`.

Only model-checked:

* liveness (`CallReturns`, `MintedLeadsToReceived`, `CompleteLeadsToReceived`, `CallsReturn`,
  `FundedRunEnds`), which the prover does not handle under fairness. For calls and
  flows the part that needs no fairness is proved, above: a bound that every step lowers.
  That a step is possible and is taken, and the end of an example's run, TLC checks.

## What reading the code showed besides

Not contradictions of a document that a run could check, but worth a reader's time:

* `recover_transfer` appends the API key to an endpoint that already ends with it.
* `debug_message` appends a key to `ARBITRUM_SEPOLIA_RPC_URL`, whatever that holds.
* `BurnMessageV2::is_fast_transfer` tells fast by a cap above zero. A standard burn that
  pays the fee switch has one too; `SummaryTellsTheMode` names this exception, and the
  finality threshold of the header is what tells the two apart.
* The v2 message extracted from the logs has no nonce yet. Its hash is neither the key
  of a lookup nor of use with the v2 endpoint (`TemplateIsCompletedByIris`).
* `burn` leaves five things to the messenger (`OnlyUncheckedBurnsRevert`): an amount of
  zero, a token that is not the chain's, a fast cap that reaches the amount, a hook of no
  bytes, and the minimum of a fee switch. The plain standard modes send a cap of zero
  behind a fee switch too, and are reverted whenever it charges; a cap that was asked for
  may be too low once the burn is mined.
* Two burns in one transaction are more than the library can follow. v2 returns the first
  usable pair and nobody mints the others; v1 extracts the first message and mints that
  one, whosever it is.
* `100 + buffer` in `provider.rs` panics with overflow checks for a buffer near the end
  of `u64`; without them the buffer wraps and the limit is below the estimate.
* `testnet_validation` sleeps five seconds after its approval and then burns, mined or
  not. `Approval` has the two calls in this order (`BurnIsSafe`).
* `transfer` polls for half an hour whatever the chain; standard finality of Linea takes
  eight (`WindowCoversFinality`).

## Not modelled

* The expiration of a message (`expirationBlock`) and the re-attestation of expired
  messages: the library has no operation for it.
* Which transactions a chain reorganisation takes back. Finality is Circle's concern
  and the source chain's; a message is attested once its burn is final enough.
* Messages of a transaction that come after the burn's, and how many there are: one other
  before it is enough for extraction and polling to miss it.
* How the minimum of a fee switch depends on the amount: it is one number that may change
  at any time before the burn is mined.
* The wording of errors, and with it the substrings that `is_already_relayed` and
  `is_rate_limited` look for: what nodes answer is not in the repository. `MintRelay`
  assumes that an executed message is recognised as such.
* The fetch of the Fast Transfer allowance: one request whose number nothing acts on
  (its decimal parser is modelled). An exhausted allowance, which turns a fast burn into
  a standard one however good its cap, is left out as well; that outcome occurs in
  `BridgeSession` for caps that are too low only.
* The presets of `ProviderConfig`: values that no code of the repository reads.
* The bytes inside a v1 message, which the library never looks into.
* Spans and events, and the examples that print them or print tables. They record, and
  nothing reads them.
* The Lean development under `verification/`, which has proofs of its own; like the
  tests it was read as documentation.

The map of `PROJECT.json` covers about a third of the lines of the implementation. The
rest are builders and getters without a condition, documentation, tests inside the
modules, error texts, tracing, and the examples and parts listed above.

## Plan

Done: the two towers, their runs, and the proofs above.

Left, in order of what matters most to a caller's money:

1. What a submission leaves behind (`SubmissionIsNotLost`) as an abstract specification that
   `Transfer`'s `MintSent` and `MintFails` implement too.
2. Several sessions in one transaction, should the library ever return more than one
   message of a transaction.
