---------------------------- MODULE MessageCodec ----------------------------
(***************************************************************************)
(* The CCTP v2 message format (protocol/message.rs): the header, the burn  *)
(* body, their encoders and decoders, and the summary given to tools.      *)
(*                                                                         *)
(* Bytes are the cells they hold, each at its offset, with its width and   *)
(* its value, and a length.  An encoder pushes cells in the order of the   *)
(* code, a decoder reads at the offsets written in the code, so that the   *)
(* two agree only where the offsets do.  A 32-byte word is its first 12    *)
(* bytes and its last 20; a nonce is a name, "zero" for the placeholder.   *)
(***************************************************************************)
EXTENDS TransferModes

Cell(width, value) == [w |-> width, v |-> value]

NoBytes == [len |-> 0, at |-> <<>>]

\* Each cell starts where the one pushed before it ends; the last entry is
\* where the next one would.
Starts(cells) ==
  LET start[i \in 1 .. Len(cells) + 1] ==
        IF i = 1 THEN 0 ELSE start[i - 1] + cells[i - 1].w
  IN start

BytesOf(cells) ==
  LET start == Starts(cells)
  IN [len |-> start[Len(cells) + 1],
      at  |-> [o \in {start[i] : i \in DOMAIN cells} |->
                 cells[CHOOSE i \in DOMAIN cells : start[i] = o]]]

\* Vec::extend_from_slice
Extend(raw, more) ==
  [len |-> raw.len + more.len,
   at  |-> [o \in DOMAIN raw.at \cup {raw.len + k : k \in DOMAIN more.at} |->
              IF o \in DOMAIN raw.at THEN raw.at[o] ELSE more.at[o - raw.len]]]

\* &bytes[from..to], where it is one cell.
Slice(raw, from, to) ==
  IF from \in DOMAIN raw.at /\ raw.at[from].w = to - from
  THEN raw.at[from].v ELSE "misaligned"

\* &bytes[from..]
SliceFrom(raw, from) ==
  [len |-> raw.len - from,
   at  |-> [o \in {k - from : k \in {j \in DOMAIN raw.at : j >= from}} |->
              raw.at[o + from]]]

ReadU32(raw, offset) == Slice(raw, offset, offset + 4)

AddressWord(address) == [lead |-> 0, tail |-> address]

IsCanonicalEvmAddressWord(word) == word.lead = 0

DecodeAddressWord(word) ==
  IF IsCanonicalEvmAddressWord(word) THEN Ok(word.tail) ELSE Err("None")

CheckCanonicalAddressWord(word) ==
  IF IsCanonicalEvmAddressWord(word) THEN Ok("unit") ELSE Err("ParseMessage")

CheckWordForDomain(domain, word) ==
  IF IsEvm(domain) THEN CheckCanonicalAddressWord(word) ELSE Ok("unit")

CheckSupportedVersion(found, supported) ==
  IF found = supported THEN Ok("unit") ELSE Err("ParseMessage")

\* Result::ok, Option::ok_or_else
OrElse(r, e) == IF r.ok THEN r ELSE Err(e)

---------------------------------------------------------------------------
(* MessageHeader.                                                          *)

CCTP_V2_MESSAGE_VERSION == 1
HEADER_SIZE == 148

MessageHeader(source, dest, nonce, sender, recipient, caller, min, executed) ==
  [version |-> CCTP_V2_MESSAGE_VERSION, source_domain |-> source,
   destination_domain |-> dest, nonce |-> nonce, sender |-> sender,
   recipient |-> recipient, destination_caller |-> caller,
   min_finality_threshold |-> min, finality_threshold_executed |-> executed]

HeaderCells(h) ==
  << Cell(4, h.version), Cell(4, AsU32[h.source_domain]),
     Cell(4, AsU32[h.destination_domain]), Cell(32, h.nonce),
     Cell(32, h.sender), Cell(32, h.recipient),
     Cell(32, h.destination_caller), Cell(4, h.min_finality_threshold),
     Cell(4, h.finality_threshold_executed) >>

EncodeHeader(h) == BytesOf(HeaderCells(h))

\* The two thresholds are read at the offsets given.
DecodeHeaderAt(raw, minFinality, executed) ==
  IF raw.len < HEADER_SIZE \/ ReadU32(raw, 0) # CCTP_V2_MESSAGE_VERSION
  THEN Err("None")
  ELSE OrElse(
    AndThen(DomainFromU32(ReadU32(raw, 4)), LAMBDA source :
    AndThen(DomainFromU32(ReadU32(raw, 8)), LAMBDA destination :
      Ok(MessageHeader(source, destination, Slice(raw, 12, 44),
           Slice(raw, 44, 76), Slice(raw, 76, 108), Slice(raw, 108, 140),
           ReadU32(raw, minFinality), ReadU32(raw, executed))))), "None")

\* Seeded fault: the two thresholds are exchanged.
DecodeHeaderSwapped(raw) == DecodeHeaderAt(raw, 144, 140)

DecodeHeader(raw) == DecodeHeaderAt(raw, 140, 144)

ParseHeader(raw) ==
  IF raw.len < HEADER_SIZE THEN Err("ParseMessage")
  ELSE AndThen(CheckSupportedVersion(ReadU32(raw, 0),
                                     CCTP_V2_MESSAGE_VERSION),
               LAMBDA unit : OrElse(DecodeHeader(raw), "ParseMessage"))

HasPlaceholderNonce(h) == h.nonce = "zero"

IsPermissionless(h) == h.destination_caller = AddressWord(Anyone)

\* The last 20 bytes, whatever the first 12 are.
SenderAddress(h) ==
  IF IsEvm(h.source_domain) THEN Ok(h.sender.tail) ELSE Err("None")

RecipientAddress(h) ==
  IF IsEvm(h.destination_domain) THEN Ok(h.recipient.tail) ELSE Err("None")

DestinationCallerAddress(h) ==
  IF IsPermissionless(h) \/ ~ IsEvm(h.destination_domain)
  THEN Err("None") ELSE Ok(h.destination_caller.tail)

RequestedFinality(h) ==
  OrElse(FinalityFromU32(h.min_finality_threshold), "None")

AttestedFinality(h) ==
  OrElse(FinalityFromU32(h.finality_threshold_executed), "None")

---------------------------------------------------------------------------
(* BurnMessageV2.                                                          *)

CCTP_V2_BURN_BODY_VERSION == 1
MIN_SIZE == 228

BurnMessage(token, recipient, amount, sender) ==
  [version |-> 1, burn_token |-> AddressWord(token),
   mint_recipient |-> AddressWord(recipient), amount |-> amount,
   message_sender |-> AddressWord(sender), max_fee |-> 0,
   fee_executed |-> 0, expiration_block |-> 0, hook_data |-> <<>>]

NewWithFastTransfer(token, recipient, amount, sender, maxFee) ==
  [BurnMessage(token, recipient, amount, sender) EXCEPT !.max_fee = maxFee]

NewWithHooks(token, recipient, amount, sender, hook) ==
  [BurnMessage(token, recipient, amount, sender) EXCEPT !.hook_data = hook]

WithHookData(body, hook)        == [body EXCEPT !.hook_data = hook]
WithMaxFee(body, maxFee)        == [body EXCEPT !.max_fee = maxFee]
WithExpirationBlock(body, block) == [body EXCEPT !.expiration_block = block]

BodyCells(b) ==
  << Cell(4, b.version), Cell(32, b.burn_token), Cell(32, b.mint_recipient),
     Cell(32, b.amount), Cell(32, b.message_sender), Cell(32, b.max_fee),
     Cell(32, b.fee_executed), Cell(32, b.expiration_block) >>
  \o (IF b.hook_data = <<>> THEN <<>>
                            ELSE << Cell(Len(b.hook_data), b.hook_data) >>)

EncodeBody(b) == BytesOf(BodyCells(b))

DecodeBody(raw) ==
  IF raw.len < MIN_SIZE \/ ReadU32(raw, 0) # CCTP_V2_BURN_BODY_VERSION
  THEN Err("None")
  ELSE Ok([version |-> ReadU32(raw, 0), burn_token |-> Slice(raw, 4, 36),
           mint_recipient |-> Slice(raw, 36, 68),
           amount |-> Slice(raw, 68, 100),
           message_sender |-> Slice(raw, 100, 132),
           max_fee |-> Slice(raw, 132, 164),
           fee_executed |-> Slice(raw, 164, 196),
           expiration_block |-> Slice(raw, 196, 228),
           hook_data |-> IF raw.len = MIN_SIZE THEN <<>>
                         ELSE Slice(raw, 228, raw.len)])

\* Whether the size and the version of a body are accepted.
BodyShape(raw) ==
  IF raw.len < MIN_SIZE THEN Err("ParseMessage")
  ELSE CheckSupportedVersion(ReadU32(raw, 0), CCTP_V2_BURN_BODY_VERSION)

ParseBody(raw) ==
  AndThen(BodyShape(raw),
          LAMBDA unit : OrElse(DecodeBody(raw), "ParseMessage"))

\* Seeded fault: the recipient is checked against the domain of the source.
ParseForOneDomain(raw, source, destination) ==
  AndThen(BodyShape(raw), LAMBDA u :
  AndThen(CheckWordForDomain(source, Slice(raw, 4, 36)), LAMBDA v :
  AndThen(CheckWordForDomain(source, Slice(raw, 36, 68)), LAMBDA w :
  AndThen(CheckWordForDomain(source, Slice(raw, 100, 132)), LAMBDA x :
    OrElse(DecodeBody(raw), "ParseMessage")))))

ParseForDomains(raw, source, destination) ==
  AndThen(BodyShape(raw), LAMBDA u :
  AndThen(CheckWordForDomain(source, Slice(raw, 4, 36)), LAMBDA v :
  AndThen(CheckWordForDomain(destination, Slice(raw, 36, 68)), LAMBDA w :
  AndThen(CheckWordForDomain(source, Slice(raw, 100, 132)), LAMBDA x :
    OrElse(DecodeBody(raw), "ParseMessage")))))

DecodeForDomains(raw, source, destination) ==
  OrElse(ParseForDomains(raw, source, destination), "None")

HasHooks(body) == body.hook_data # <<>>

\* Seeded fault: a cap of zero counts as a fast transfer.
IsFastTransferFromZero(body) == body.max_fee >= 0

IsFastTransfer(body) == body.max_fee > 0

---------------------------------------------------------------------------
(* ParsedV2Message and its summary.                                        *)

Encode(message) ==
  Extend(EncodeHeader(message.header), EncodeBody(message.body))

Decode(raw) ==
  AndThen(DecodeHeader(raw), LAMBDA h :
  AndThen(DecodeForDomains(SliceFrom(raw, HEADER_SIZE), h.source_domain,
                           h.destination_domain),
          LAMBDA b : Ok([header |-> h, body |-> b])))

Parse(raw) ==
  AndThen(ParseHeader(raw), LAMBDA h :
  AndThen(ParseForDomains(SliceFrom(raw, HEADER_SIZE), h.source_domain,
                          h.destination_domain),
          LAMBDA b : Ok([header |-> h, body |-> b])))

Keccak256(raw) == <<"keccak256", raw>>   \* no two byte strings collide

MessageHash(message) == Keccak256(Encode(message))

\* An address of the body, given for the domains that have one.
Projection(domain, word) ==
  IF IsEvm(domain) THEN DecodeAddressWord(word) ELSE Err("None")

Summary(message) ==
  LET h == message.header
      b == message.body
  IN [message_hash |-> MessageHash(message),
      message_len_bytes |-> Encode(message).len,
      source_domain |-> h.source_domain,
      destination_domain |-> h.destination_domain,
      nonce |-> h.nonce, has_placeholder_nonce |-> HasPlaceholderNonce(h),
      sender |-> SenderAddress(h), recipient |-> RecipientAddress(h),
      destination_caller |-> DestinationCallerAddress(h),
      permissionless_relay |-> IsPermissionless(h),
      requested_finality |-> RequestedFinality(h),
      attested_finality |-> AttestedFinality(h),
      burn_token |-> Projection(h.source_domain, b.burn_token),
      mint_recipient |-> Projection(h.destination_domain, b.mint_recipient),
      message_sender |-> Projection(h.source_domain, b.message_sender),
      amount |-> b.amount, max_fee |-> b.max_fee,
      fee_executed |-> b.fee_executed, hook_data |-> b.hook_data,
      has_hooks |-> HasHooks(b), is_fast_transfer |-> IsFastTransfer(b)]

SummaryParse(raw) ==
  AndThen(Parse(raw), LAMBDA message : Ok(Summary(message)))

---------------------------------------------------------------------------
(* Both decoders over sample byte strings: every pair of an EVM and a      *)
(* non-EVM domain, address words with and without padding, and each field  *)
(* that a parser rejects.                                                  *)

Word(lead) == [lead |-> lead, tail |-> "address"]

SampleMessages ==
  { [header |-> MessageHeader(ends[1], ends[2], "assigned", Word(leads[1]),
                  Word(leads[2]), AddressWord(Anyone), 2000, 1000),
     body   |-> [version |-> 1, burn_token |-> Word(leads[1]),
                 mint_recipient |-> Word(leads[2]), amount |-> 7,
                 message_sender |-> Word(leads[3]), max_fee |-> 3,
                 fee_executed |-> 2, expiration_block |-> 1,
                 hook_data |-> hook]] :
      ends \in {"Ethereum", "Solana"} \X {"Base", "Aptos"},
      leads \in {0, 1} \X {0, 1} \X {0, 1},
      hook \in {<<>>, <<"byte">>} }

With(raw, offset, value) == [raw EXCEPT !.at[offset].v = value]

Truncated(raw, len) ==
  [len |-> len,
   at  |-> [o \in {k \in DOMAIN raw.at : k + raw.at[k].w =< len} |-> raw.at[o]]]

SampleRaws ==
  UNION { {raw, With(raw, 0, 0), With(raw, 4, 4), With(raw, 8, 99),
           With(raw, HEADER_SIZE, 2), Truncated(raw, HEADER_SIZE - 1),
           Truncated(raw, HEADER_SIZE + MIN_SIZE - 1)} :
          raw \in {Encode(message) : message \in SampleMessages} }

\* What a message must be, as the documentation of parse lists it.
WellFormed(raw) ==
  /\ raw.len >= HEADER_SIZE + MIN_SIZE
  /\ raw.at[0].v = 1 /\ raw.at[HEADER_SIZE].v = 1
  /\ {raw.at[4].v, raw.at[8].v} \subseteq DOMAIN FromU32Arms
  /\ IsEvm(FromU32Arms[raw.at[4].v]) =>
       raw.at[152].v.lead = 0 /\ raw.at[248].v.lead = 0
  /\ IsEvm(FromU32Arms[raw.at[8].v]) => raw.at[184].v.lead = 0

DecodersAgreeOn(raw) ==
  /\ Parse(raw).ok <=> WellFormed(raw)
  /\ Decode(raw).ok <=> WellFormed(raw)
  /\ Parse(raw).ok => Decode(raw) = Parse(raw)

DecodersAgree == \A raw \in SampleRaws : DecodersAgreeOn(raw)

EncodersInvertOn(raw) ==
  LET message == Parse(raw).val
  IN /\ Encode(message) = raw /\ MessageHash(message) = Keccak256(raw)
     /\ EncodeHeader(message.header).len = HEADER_SIZE
     /\ SliceFrom(raw, HEADER_SIZE) = EncodeBody(message.body)
     /\ ParseBody(EncodeBody(message.body)) = Ok(message.body)

WellFormedRaws == {raw \in SampleRaws : WellFormed(raw)}

EncodersInvert == \A raw \in WellFormedRaws : EncodersInvertOn(raw)

BuildersCommute ==
  \A fee \in {0, 3}, hook \in {<<>>, <<"byte">>} :
    WithHookData(NewWithFastTransfer("token", "recipient", 7, "sender", fee), hook)
      = WithMaxFee(NewWithHooks("token", "recipient", 7, "sender", hook), fee)

SummaryKeepsAddresses(raw) ==
  LET s == SummaryParse(raw).val
  IN /\ s.burn_token.ok <=> IsEvm(s.source_domain)
     /\ s.message_sender.ok <=> IsEvm(s.source_domain)
     /\ s.mint_recipient.ok <=> IsEvm(s.destination_domain)

SummariesKeepAddresses == \A raw \in WellFormedRaws : SummaryKeepsAddresses(raw)
=============================================================================
