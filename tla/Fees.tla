-------------------------------- MODULE Fees --------------------------------
(***************************************************************************)
(* Transfer fees and decimal amounts: FeeBps, TransferFee and              *)
(* FastTransferAllowance (protocol/fees.rs), UsdcAmount (primitives.rs)    *)
(* and the fee queries of CctpV2 (bridge/v2.rs).                           *)
(*                                                                         *)
(* A fee is a number of hundredths of a basis point.  A decimal text is a  *)
(* record of what the parsers tell apart: its sign, the digits before the  *)
(* point, the number of points, the digits after the first point, and      *)
(* whether anything else stands among them.  The fee of an amount is       *)
(* computed without bound: amount * fee stays below 2^256 for every amount *)
(* a token has.  The gas of provider.rs is computed within its types.      *)
(***************************************************************************)
EXTENDS TransferModes, Sequences

CONSTANTS
  U32Max,    \* the largest u32, scaled down for TLC's integers
  U64Max,    \* the largest u64, scaled down
  U128Max,   \* the largest u128, scaled down
  U256Max    \* the largest U256, scaled down

ASSUME WidthAssumption ==
  /\ {U32Max, U64Max, U128Max, U256Max} \subseteq Nat
  /\ U32Max < U64Max /\ U64Max < U128Max /\ U128Max =< U256Max
  /\ 100 =< U64Max

BPS_HUNDREDTH_DENOMINATOR == 1000000
BUFFER_PERCENT_DENOMINATOR == 100
USDC_SCALE == 1000000

---------------------------------------------------------------------------
(* Decimal texts.                                                          *)

\* str::parse on a sequence of digits, read from the left.
DigitsValue(digits) ==
  LET value[n \in 0 .. Len(digits)] ==
        IF n = 0 THEN 0 ELSE 10 * value[n - 1] + digits[n]
  IN value[Len(digits)]

Zeros(n) == [i \in 1 .. n |-> 0]

\* The digits padded on the right to six places.
Padded(digits) == digits \o Zeros(6 - Len(digits))

\* Zeros at the end of a fraction are popped one by one.
TrimZeros(digits) ==
  LET kept == {i \in 1 .. Len(digits) : digits[i] # 0}
  IN IF kept = {} THEN <<>>
     ELSE SubSeq(digits, 1, CHOOSE i \in kept : \A j \in kept : j =< i)

\* to_string of an integer: its digits, without leading zeros.
DecimalDigits(value) ==
  LET decimal[v \in 0 .. value] ==
        IF v < 10 THEN <<v>> ELSE Append(decimal[v \div 10], v % 10)
  IN decimal[value]

\* {:0places}: the same, padded on the left.
DigitsOf(value, places) ==
  LET digits == DecimalDigits(value)
  IN Zeros(places - Len(digits)) \o digits

Text(sign, whole, points, frac, clean) ==
  [sign |-> sign, whole |-> whole, points |-> points, frac |-> frac,
   clean |-> clean]

\* Display of UsdcAmount, and format_usdc_atomic: the same algorithm twice.
FormatUsdcAtomic(units) ==
  LET whole    == DecimalDigits(units \div USDC_SCALE)
      fraction == TrimZeros(DigitsOf(units % USDC_SCALE, 6))
  IN IF units % USDC_SCALE = 0 THEN Text("", whole, 0, <<>>, TRUE)
                               ELSE Text("", whole, 1, fraction, TRUE)

\* Seeded fault: the fraction is not padded, so .5 is five atomic units.
ParseUsdcFractionUnpadded(frac) ==
  IF Len(frac) > 6 THEN Err("InvalidAmount") ELSE Ok(DigitsValue(frac))

\* The six-digit fraction, rejected when it is longer.
ParseUsdcFraction(frac) ==
  IF Len(frac) > 6 THEN Err("InvalidAmount") ELSE Ok(DigitsValue(Padded(frac)))

\* UsdcAmount::parse_decimal.
ParseDecimal(text) ==
  LET fraction == ParseUsdcFraction(text.frac)
      whole    == DigitsValue(text.whole)
      \* checked_mul, then checked_add, within u128.
      fits     == /\ whole =< U128Max
                  /\ whole =< U128Max \div USDC_SCALE
                  /\ whole * USDC_SCALE + fraction.val =< U128Max
  IN IF \/ text.sign # "" \/ text.points > 1
        \/ text.whole = <<>> /\ text.frac = <<>>
        \/ ~ text.clean \/ ~ fraction.ok
     THEN Err("InvalidAmount")
     ELSE IF ~ fits \/ whole * USDC_SCALE + fraction.val = 0
     THEN Err("InvalidAmount")
     ELSE Ok(whole * USDC_SCALE + fraction.val)

\* parse_usdc_atomic_decimal: the allowance of Iris, where zero is legal.
ParseUsdcAtomicDecimal(text) ==
  LET whole    == DigitsValue(text.whole)
      fraction == DigitsValue(Padded(text.frac))
  IN IF \/ text.sign # "" \/ text.points > 1
        \/ text.whole = <<>> /\ text.frac = <<>>
        \/ ~ text.clean \/ Len(text.frac) > 6
     THEN Err("allowance")
     ELSE IF \/ whole > U256Max \div USDC_SCALE
             \/ whole * USDC_SCALE + fraction > U256Max
     THEN Err("allowance")
     ELSE Ok(whole * USDC_SCALE + fraction)

---------------------------------------------------------------------------
(* FeeBps.                                                                 *)

CeilDiv(numerator, denominator) ==
  IF numerator = 0 THEN 0 ELSE (numerator - 1) \div denominator + 1

WholeBps(fee) == fee \div 100

ApplyToAmount(fee, amount) ==
  CeilDiv(amount * fee, BPS_HUNDREDTH_DENOMINATOR)

\* Seeded fault: the cap is rounded down, below the fee it must cover.
ApplyWithBufferRoundedDown(fee, amount, buffer) ==
  (ApplyToAmount(fee, amount) * (buffer + BUFFER_PERCENT_DENOMINATOR))
    \div BUFFER_PERCENT_DENOMINATOR

ApplyWithBuffer(fee, amount, buffer) ==
  CeilDiv(ApplyToAmount(fee, amount) * (buffer + BUFFER_PERCENT_DENOMINATOR),
          BUFFER_PERCENT_DENOMINATOR)

\* parse_fee_hundredths: digits past the second round the fee up.
ParseFeeHundredths(text) ==
  LET whole    == DigitsValue(text.whole)
      two      == DigitsValue(SubSeq(text.frac \o Zeros(2), 1, 2))
      round_up == \E i \in 3 .. Len(text.frac) : text.frac[i] # 0
      total    == whole * 100 + two + (IF round_up THEN 1 ELSE 0)
  IN IF \/ text.sign # "" \/ text.points > 1 \/ ~ text.clean
        \/ text.whole = <<>> /\ text.frac = <<>>
     THEN Err("fee")
     ELSE IF whole > U32Max \div 100 \/ total > U32Max THEN Err("fee")
     ELSE Ok(total)

\* Deserialize: an integer is whole basis points, anything else a text.
DeserializeFee(json) ==
  CASE json.type = "unsigned" ->
         IF json.value =< U32Max \div 100 THEN Ok(json.value * 100)
                                          ELSE Err("fee")
    [] json.type = "signed" ->
         IF json.value < 0 \/ json.value > U32Max \div 100
         THEN Err("fee") ELSE Ok(json.value * 100)
    [] json.type \in {"float", "string"} -> ParseFeeHundredths(json.value)

\* Serialize: whole basis points as an integer, others as a float, which
\* prints with the digits Display gives it.
FeeText(fee) ==
  LET rest == fee % 100
  IN Text("", DecimalDigits(WholeBps(fee)), IF rest = 0 THEN 0 ELSE 1,
          IF rest = 0 THEN <<>> ELSE TrimZeros(DigitsOf(rest, 2)), TRUE)

SerializeFee(fee) ==
  IF fee % 100 = 0 THEN [type |-> "unsigned", value |-> WholeBps(fee)]
                   ELSE [type |-> "float", value |-> FeeText(fee)]

---------------------------------------------------------------------------
(* TransferFee, as Iris returns it.                                        *)

TransferFee(threshold, fee) ==
  [finality_threshold |-> threshold, minimum_fee |-> fee]

MaxFeeWithBuffer(entry, amount, buffer) ==
  ApplyWithBuffer(entry.minimum_fee, amount, buffer)

---------------------------------------------------------------------------
(* The fee queries of CctpV2.  `response` is what the server answers to    *)
(* the URL: a sequence of entries, or an error of the request.             *)

TransferFeeDomainIds(bridge) ==
  AndThen(CctpV2DomainId(bridge.source), LAMBDA source :
  AndThen(CctpV2DomainId(bridge.destination), LAMBDA destination :
    Ok(<<AsU32[source], AsU32[destination]>>)))

CreateTransferFeesUrl(bridge, asset) ==
  AndThen(TransferFeeDomainIds(bridge), LAMBDA domains :
  AndThen(ValidatedAssetRoute(bridge, asset), LAMBDA route :
  AndThen(IrisFeePathSegment(asset), LAMBDA segment :
    Ok([host |-> ApiUrl(bridge), asset |-> segment, domains |-> domains]))))

CreateUrl(bridge, hash) ==
  AndThen(CctpV2DomainId(bridge.source), LAMBDA source :
    Ok([host |-> ApiUrl(bridge), domain |-> AsU32[source], tx |-> hash]))

GetTransferFees(bridge, asset, response) ==
  AndThen(CreateTransferFeesUrl(bridge, asset), LAMBDA url : response)

\* The first entry of the threshold, or none.
GetTransferFee(bridge, asset, finality, response) ==
  AndThen(GetTransferFees(bridge, asset, response), LAMBDA fees :
    LET entry == Find(fees, LAMBDA fee :
                   fee.finality_threshold = FinalityAsU32[finality])
    IN Ok(IF entry.ok THEN <<entry.val>> ELSE <<>>))

GetFastTransferFee(bridge, asset, response) ==
  AndThen(EnsureFastTransferSupported(bridge), LAMBDA unit :
    GetTransferFee(bridge, asset, "Fast", response))

\* getMinFeeAmount of the source TokenMessengerV2 answers `onchain`.
GetMinStandardTransferFeeAmount(bridge, onchain) ==
  AndThen(EnsureFeeSwitchSupported(bridge), LAMBDA unit :
  AndThen(TokenMessengerV2Contract(bridge), LAMBDA messenger : Ok(onchain)))

CalculateFastTransferMaxFee(bridge, asset, amount, buffer, response) ==
  AndThen(GetFastTransferFee(bridge, asset, response), LAMBDA fee :
    IF fee = <<>> THEN Err("TransferFeeUnavailable")
                  ELSE Ok(MaxFeeWithBuffer(fee[1], amount, buffer)))

---------------------------------------------------------------------------
(* provider.rs: a gas limit with a percentage added, a saturating product  *)
(* of u64, and the pair of gas prices, in U256, which wraps in every       *)
(* build.  The sum 100 + percent is one of u64: a build with overflow      *)
(* checks panics where it is beyond the type, one without them wraps.      *)

BuildProfiles == {"debug", "release"}

PercentFactor(percent, build) ==
  IF 100 + percent =< U64Max THEN Ok(100 + percent)
  ELSE IF build = "debug" THEN Err("panic")
  ELSE Ok((100 + percent) % (U64Max + 1))

WithPercent(estimate, percent, build) ==
  AndThen(PercentFactor(percent, build), LAMBDA factor :
    Ok((IF estimate * factor > U64Max THEN U64Max ELSE estimate * factor)
         \div 100))

WrappedU256(n) == n % (U256Max + 1)

\* max_fee_per_gas and max_priority_fee_per_gas.
GasPriceWithBuffer(base, priority, percent, build) ==
  AndThen(PercentFactor(percent, build), LAMBDA factor :
    LET buffered == WrappedU256(priority * factor) \div 100
    IN Ok(<<WrappedU256(WrappedU256(base * 2) + buffered), buffered>>))

---------------------------------------------------------------------------
(* What printers and parsers promise each other, for one amount, text,     *)
(* fee or gas limit.                                                       *)

\* One, and n zeros: the n-th power of ten.
PowerOfTen(n) == DigitsValue(<<1>> \o Zeros(n))

\* The text is a decimal number.
IsDecimal(text) ==
  /\ text.sign = "" /\ text.clean /\ text.points =< 1
  /\ ~ (text.whole = <<>> /\ text.frac = <<>>)

\* An amount is read as it was printed by each parser that can hold it.
AmountIsRead(units) ==
  /\ units \in 1 .. U128Max => ParseDecimal(FormatUsdcAtomic(units)) = Ok(units)
  /\ units \in 0 .. U256Max =>
       ParseUsdcAtomicDecimal(FormatUsdcAtomic(units)) = Ok(units)

\* A text is an amount if it is a decimal number of at most six places, and
\* then of the same units to both parsers, which differ on zero and in range.
TextMeansAmount(text) ==
  LET one   == ParseDecimal(text)
      two   == ParseUsdcAtomicDecimal(text)
      exact == IsDecimal(text) /\ Len(text.frac) =< 6
      units == DigitsValue(text.whole) * USDC_SCALE
                 + DigitsValue(text.frac) * PowerOfTen(6 - Len(text.frac))
  IN /\ two.ok <=> exact /\ units =< U256Max
     /\ one.ok <=> exact /\ units \in 1 .. U128Max
     /\ two.ok => two.val = units
     /\ one.ok => one.val = units

\* A fee of more digits than its type keeps is rounded up, never down.
FeeRoundsUp(text) ==
  LET fee   == ParseFeeHundredths(text)
      scale == PowerOfTen(Len(text.frac))
      exact == 100 * (DigitsValue(text.whole) * scale + DigitsValue(text.frac))
  IN /\ fee.ok <=> IsDecimal(text) /\ CeilDiv(exact, scale) =< U32Max
     /\ fee.ok => fee.val = CeilDiv(exact, scale)

\* A gas limit with its percentage is at least the estimate exactly where
\* 100 + percent is a u64 and so is a hundred times the estimate; beyond the
\* former the call panics or, without overflow checks, lowers the estimate.
LimitIsBuffered(estimate, percent, build) ==
  LET fits  == 100 + percent =< U64Max
      limit == WithPercent(estimate, percent, build)
  IN /\ limit.ok <=> fits \/ build = "release"
     /\ limit.ok => (limit.val >= estimate
                        <=> \/ estimate = 0
                            \/ fits /\ estimate =< U64Max \div 100)

\* A gas price with its percentage covers twice the base fee and the tip where
\* 100 + percent, the product and the sum are within their types; the wrapped
\* percentage of a build without overflow checks lowers the tip.
PriceIsBuffered(base, priority, percent, build) ==
  LET fits   == 100 + percent =< U64Max
      prices == GasPriceWithBuffer(base, priority, percent, build)
  IN /\ prices.ok <=> fits \/ build = "release"
     /\ /\ fits /\ priority * (100 + percent) =< U256Max
        /\ 2 * base + (priority * (100 + percent)) \div 100 =< U256Max
        => prices.val[2] >= priority /\ prices.val[1] = 2 * base + prices.val[2]
     /\ prices.ok /\ ~ fits /\ priority > 0 /\ 100 * priority =< U256Max
        => prices.val[2] < priority

---------------------------------------------------------------------------
(* The same over sample inputs.  The wholes reach U32Max as fees, and as   *)
(* amounts lie around U128Max and U256Max.                                 *)

SampleUnits ==
  {0, 1, 5, 10, 499999, 500000, 999999, 1000000, 1000001, 1500000, 123456789,
   200000000, 200000001, 299999999}

SampleTexts ==
  { text \in
      [ sign   : {"", "-"},
        whole  : {<<>>, <<0>>, <<0, 7>>, <<1, 3>>, <<5, 0>>, <<2, 0, 0>>, <<3, 0, 0>>},
        points : 0 .. 2,
        frac   : {<<>>, <<3>>, <<0, 5>>, <<3, 0, 0>>, <<0, 0, 1>>, <<9, 9, 9, 9>>,
                  <<0, 0, 0, 0, 0, 1>>, <<1, 0, 0, 0, 0, 0, 0>>},
        clean  : BOOLEAN ] :
      text.points = 0 => text.frac = <<>> }

PrintedAmountsAreRead == \A units \in SampleUnits : AmountIsRead(units)

TextsMeanAmounts == \A text \in SampleTexts : TextMeansAmount(text)

\* Four places: the products stay within TLC's integers.
FeesRoundUp ==
  \A text \in SampleTexts : Len(text.frac) =< 4 => FeeRoundsUp(text)

FeesSurviveJson ==
  \A fee \in 0 .. U32Max : DeserializeFee(SerializeFee(fee)) = Ok(fee)

\* Below and above U64Max \div 100, with percentages at the end of the type.
SampleGas == {0, 1, 250, 251, U64Max \div 100, U64Max \div 100 + 1, 21000}

PercentsAreAdded ==
  \A build \in BuildProfiles,
     percent \in ({0, 20, 50} \cup (U64Max - 101) .. U64Max) \cap 0 .. U64Max,
     gas \in SampleGas \cap 0 .. U64Max :
    /\ LimitIsBuffered(gas, percent, build)
    /\ \A base \in {0, 1, U256Max \div 2, U256Max} :
         PriceIsBuffered(base, gas, percent, build)
=============================================================================
