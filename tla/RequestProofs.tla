---------------------------- MODULE RequestProofs ----------------------------
(***************************************************************************)
(* What the registry, the request builders and the fee arithmetic          *)
(* guarantee for every bridge, fee, amount and buffer: a validated route   *)
(* leads from one domain to another of the same environment, the burn on   *)
(* it carries what its mode reports, and the cap a client computes covers  *)
(* the fee that is charged.  And what the printers and parsers of amounts  *)
(* and fees promise each other, for texts of any length: facts about the   *)
(* recursive functions of Fees, by induction over sets of naturals.        *)
(***************************************************************************)
EXTENDS Fees, WellFoundedInduction, TLAPS

\* A bridge of the builder, as far as a burn depends on it.
IsBridge(bridge) ==
  /\ bridge.mode.kind \in ModeKinds
  /\ bridge.mode.max_fee \in Nat

\* Two supported chains of one environment have one domain only if they are one
\* chain: the tables of chain/v2.rs and alloy's is_testnet agree.
LEMMA DomainsSeparateChains ==
  ASSUME NEW source \in SupportsCctpV2, NEW destination \in SupportsCctpV2,
         IsTestnet(source) = IsTestnet(destination),
         DomainIdV2Arms[source] = DomainIdV2Arms[destination]
  PROVE  source = destination
BY DEF SupportsCctpV2, IsTestnet, DomainIdV2Arms

\* Domains have distinct numbers (protocol/domain_id.rs).
LEMMA DomainNumbersAreDistinct ==
  ASSUME NEW one \in Domains, NEW two \in Domains, AsU32[one] = AsU32[two]
  PROVE  one = two
BY DEF Domains, AsU32

\* What CctpV2Route::new accepts.
LEMMA RouteNewAccepts ==
  ASSUME NEW source, NEW destination, RouteNew(source, destination).ok
  PROVE  /\ source \in SupportsCctpV2 /\ destination \in SupportsCctpV2
         /\ source # destination
         /\ IsTestnet(source) = IsTestnet(destination)
BY DEF RouteNew, Err

---------------------------------------------------------------------------

\* A bridge built from a CctpV2Route has everything it needs: its contracts and
\* its domains resolve, its endpoint is that of both chains, the messenger that
\* sends is the one that receives, and the message leaves the domain it is
\* sent from.
THEOREM ValidatedRouteResolves ==
  ASSUME NEW bridge, RouteNew(bridge.source, bridge.destination).ok
  PROVE  /\ TokenMessengerV2Contract(bridge).ok
         /\ MessageTransmitterV2Contract(bridge).ok
         /\ TokenMessengerV2Contract(bridge)
              = TokenMessengerV2Address(bridge.destination)
         /\ IrisApiUrl(bridge.source) = IrisApiUrl(bridge.destination)
         /\ DestinationDomainId(bridge)
              = Ok(DomainIdV2Arms[bridge.destination])
         /\ AsU32[DomainIdV2Arms[bridge.destination]]
              # AsU32[DomainIdV2Arms[bridge.source]]
<1> DEFINE s == bridge.source
           d == bridge.destination
<1>1. /\ s \in SupportsCctpV2 /\ d \in SupportsCctpV2
      /\ s # d /\ IsTestnet(s) = IsTestnet(d)
  BY RouteNewAccepts
<1>2. /\ TokenMessengerV2Contract(bridge).ok
      /\ MessageTransmitterV2Contract(bridge).ok
      /\ TokenMessengerV2Contract(bridge) = TokenMessengerV2Address(d)
  BY <1>1 DEF TokenMessengerV2Contract, MessageTransmitterV2Contract,
              TokenMessengerV2Address, MessageTransmitterV2Address,
              IfSupported, Ok
<1>3. IrisApiUrl(s) = IrisApiUrl(d)  BY <1>1 DEF IrisApiUrl
<1>4. \A chain \in SupportsCctpV2 :
        chain \in DOMAIN DomainIdV2Arms /\ DomainIdV2Arms[chain] \in Domains
  BY DEF SupportsCctpV2, DomainIdV2Arms, Domains, AsU32
<1>5. DestinationDomainId(bridge) = Ok(DomainIdV2Arms[d])
  BY <1>1, <1>4 DEF DestinationDomainId, CctpV2DomainId, IfSupported
<1>6. AsU32[DomainIdV2Arms[d]] # AsU32[DomainIdV2Arms[s]]
  BY <1>1, <1>4, DomainsSeparateChains, DomainNumbersAreDistinct
<1> QED  BY <1>2, <1>3, <1>5, <1>6

\* A burn that is not refused is the request of the mode, sent to the messenger
\* of the source chain, for the domain of the destination.
LEMMA BurnReturnsRequest ==
  ASSUME NEW bridge, NEW token, NEW amount, Burn(bridge, token, amount).ok
  PROVE  /\ ~ (UsesFeeSwitch(bridge.mode) /\ CapReachesAmount(bridge.mode, amount))
         /\ DestinationDomainId(bridge).ok
         /\ Burn(bridge, token, amount).val.call
              = BurnRequest(bridge, DestinationDomainId(bridge).val, token, amount)
<1> DEFINE domain == DestinationDomainId(bridge)
<1>1. ~ (UsesFeeSwitch(bridge.mode) /\ CapReachesAmount(bridge.mode, amount))
  BY DEF Burn, AndThen, Err
<1>2. domain.ok
  BY <1>1 DEF Burn, AndThen, Err
<1>3. \E to : Burn(bridge, token, amount)
                = Ok([to |-> to,
                      call |-> BurnRequest(bridge, domain.val, token, amount)])
  BY <1>1 DEF Burn, AndThen, Err
<1> HIDE DEF domain
<1> QED  BY <1>1, <1>2, <1>3 DEF Ok, domain

\* The request of a burn carries what the accessors of its mode report: the
\* finality, the fee cap, the hook, and no caller (issue 218 was a hook burn
\* that asked for another finality).
THEOREM BurnAsksForTheMode ==
  ASSUME NEW bridge, IsBridge(bridge), NEW domain, NEW token, NEW amount
  PROVE  LET call == BurnRequest(bridge, domain, token, amount)
             mode == bridge.mode
         IN /\ call.min_finality = FinalityAsU32[FinalityThreshold(mode)]
            /\ call.max_fee = ModeMaxFee(mode)
            /\ call.hook = (IF HasHook(mode) THEN mode.hook_data ELSE <<>>)
            /\ call.domain = AsU32[domain]
            /\ call.amount = amount
            /\ call.token = token /\ call.recipient = bridge.recipient
            /\ call.caller = Anyone
BY DEF IsBridge, ModeKinds, BurnRequest, HasHook, ModeMaxFee, DepositForBurn,
       DepositForBurnFast, DepositForBurnWithFee, DepositForBurnInternal,
       DepositForBurnWithHooks, BurnCall

\* What burn and a validated route leave of the messenger's requirements. A burn
\* that is not refused has a cap below its amount unless it is fast, whose cap is
\* not compared; it is for another domain; it has a hook of no bytes only if its
\* mode does; and it sends no cap in the modes Standard and StandardWithHook,
\* whatever minimum the source charges. The amount, the token and the minimum are
\* not looked at.
THEOREM BurnMeetsTheMessenger ==
  ASSUME NEW bridge, IsBridge(bridge),
         RouteNew(bridge.source, bridge.destination).ok,
         NEW token, NEW amount \in Nat, Burn(bridge, token, amount).ok
  PROVE  LET call == Burn(bridge, token, amount).val.call
             mode == bridge.mode
         IN /\ \/ call.max_fee < call.amount
               \/ amount = 0
               \/ IsFast(mode) /\ CapReachesAmount(mode, amount)
            /\ call.domain # AsU32[DomainIdV2Arms[bridge.source]]
            /\ call.fn = "depositForBurnWithHook" =>
                 HasHook(mode) /\ call.hook = mode.hook_data
            /\ mode.kind \in {"Standard", "StandardWithHook"} => call.max_fee = 0
            /\ call.token = token /\ call.amount = amount
<1> DEFINE domain == DestinationDomainId(bridge).val
           call   == BurnRequest(bridge, domain, token, amount)
<1>1. /\ Burn(bridge, token, amount).val.call = call
      /\ ~ (UsesFeeSwitch(bridge.mode) /\ CapReachesAmount(bridge.mode, amount))
  BY BurnReturnsRequest
<1>2. /\ call.max_fee = ModeMaxFee(bridge.mode)
      /\ call.hook = (IF HasHook(bridge.mode) THEN bridge.mode.hook_data ELSE <<>>)
      /\ call.amount = amount /\ call.domain = AsU32[domain]
      /\ call.token = token
  BY BurnAsksForTheMode
<1>3. \/ ModeMaxFee(bridge.mode) < amount
      \/ amount = 0
      \/ IsFast(bridge.mode) /\ CapReachesAmount(bridge.mode, amount)
  BY <1>1 DEF IsBridge, ModeKinds, ModeMaxFee, IsFast, UsesFeeSwitch,
              CapReachesAmount
<1>4. AsU32[domain] # AsU32[DomainIdV2Arms[bridge.source]]
  BY ValidatedRouteResolves DEF Ok
<1>5. call.fn = "depositForBurnWithHook" => HasHook(bridge.mode)
  BY DEF IsBridge, ModeKinds, BurnRequest, HasHook, DepositForBurn,
         DepositForBurnFast, DepositForBurnWithFee, DepositForBurnInternal, BurnCall
<1>6. bridge.mode.kind \in {"Standard", "StandardWithHook"} =>
        ModeMaxFee(bridge.mode) = 0
  BY DEF ModeMaxFee
<1> HIDE DEF domain, call
<1> QED  BY <1>1, <1>2, <1>3, <1>4, <1>5, <1>6

\* On a validated route burn is refused only for its mode: by the fast or the
\* fee-switch capability of the source, or because the cap of the fee switch
\* reaches the amount; never for its chains.
THEOREM ValidatedBurnIsRefusedForItsMode ==
  ASSUME NEW bridge, RouteNew(bridge.source, bridge.destination).ok,
         NEW token, NEW amount, ~ Burn(bridge, token, amount).ok
  PROVE  Burn(bridge, token, amount).err \in
           {"FastTransferUnsupported", "StandardTransferFeeSwitchUnsupported",
            "InvalidAmount"}
<1>1. bridge.source \in SupportsCctpV2  BY RouteNewAccepts
<1>2. TokenMessengerV2Contract(bridge).ok /\ DestinationDomainId(bridge).ok
  BY ValidatedRouteResolves DEF Ok
<1>3. \/ ValidateTransferMode(bridge).ok
      \/ /\ ~ ValidateTransferMode(bridge).ok
         /\ ValidateTransferMode(bridge).err \in
              {"FastTransferUnsupported", "StandardTransferFeeSwitchUnsupported"}
  BY <1>1 DEF ValidateTransferMode, EnsureFastTransferSupported,
              EnsureFeeSwitchSupported, SupportsFastTransfer, IfSupported,
              SupportsStandardTransferFeeSwitch, AndThen, Ok, Err
<1>4. CASE ~ ValidateTransferMode(bridge).ok
  BY <1>3, <1>4 DEF Burn, AndThen
<1>5. CASE ValidateTransferMode(bridge).ok
  BY <1>2, <1>5 DEF Burn, AndThen, Ok, Err
<1> QED  BY <1>4, <1>5

\* A route validated for an asset has the token of the asset on both of its
\* chains: the asset's lists of chains and of addresses agree.
THEOREM AssetRouteHasTokens ==
  ASSUME NEW source, NEW destination, NEW asset \in Assets,
         ForAsset(source, destination, asset).ok
  PROVE  /\ V2BridgeTokenAddress(asset, source).ok
         /\ V2BridgeTokenAddress(asset, destination).ok
<1>1. /\ RouteNew(source, destination).ok
      /\ ValidateV2Route(asset, RouteNew(source, destination).val).ok
  BY DEF ForAsset, AndThen
<1>2. RouteNew(source, destination).val = <<source, destination>>
  BY <1>1 DEF RouteNew, Ok, Err
<1>3. ValidateV2Route(asset, <<source, destination>>).ok  BY <1>1, <1>2
<1>4. source \in SupportsCctpV2 /\ destination \in SupportsCctpV2
  BY <1>1, RouteNewAccepts
<1>5. CASE asset = "USDC"
  BY <1>4, <1>5 DEF V2BridgeTokenAddress, UsdcEvmTokenAddress, SupportsCctpV2, Ok
<1>6. CASE asset = "EURC"
  <2>1. {source, destination} \in {{"Mainnet", "Base"}, {"Sepolia", "BaseSepolia"}}
    BY <1>3, <1>6 DEF ValidateV2Route, Err
  <2>2. {source, destination} \subseteq {"Mainnet", "Base", "Sepolia", "BaseSepolia"}
    BY <2>1
  <2> QED  BY <1>6, <2>2 DEF V2BridgeTokenAddress, EurcEvmTokenAddress, Ok
<1>7. CASE asset = "USYC"
  BY <1>3, <1>7 DEF ValidateV2Route, Err
<1> QED  BY <1>5, <1>6, <1>7 DEF Assets

---------------------------------------------------------------------------
(* Fees.                                                                   *)

\* CeilDiv (checked_ceil_div of fees.rs) is the least integer that is no less
\* than the quotient: what it bounds is what the multiple of d bounds.
LEMMA CeilDivIsLeast ==
  ASSUME NEW n \in Nat, NEW d \in Nat \ {0}, NEW r \in Nat
  PROVE  (CeilDiv(n, d) =< r) <=> (n =< d * r)
<1>1. CASE n = 0
  <2>1. CeilDiv(n, d) = 0  BY <1>1 DEF CeilDiv
  <2>2. d * r >= 0  BY SMT
  <2> QED  BY <1>1, <2>1, <2>2
<1>2. CASE n # 0
  <2> DEFINE q == (n - 1) \div d
  <2>1. CeilDiv(n, d) = q + 1  BY <1>2 DEF CeilDiv
  <2>2. n - 1 \in Nat  BY <1>2
  <2>3. q \in Nat  BY <2>2, SMT
  <2>4. d * q =< n - 1 /\ n - 1 < d * q + d  BY <2>2, SMT
  <2> HIDE DEF q
  <2>5. ASSUME q + 1 =< r PROVE n =< d * r
    <3>1. PICK k \in Nat : r = q + 1 + k  BY <2>3, <2>5
    <3>2. d * r = d * q + d + d * k  BY <2>3, <3>1, SMT
    <3>3. d * k >= 0 /\ d * q \in Nat  BY <2>3, SMT
    <3> QED  BY <2>4, <3>2, <3>3
  <2>6. ASSUME ~ (q + 1 =< r) PROVE ~ (n =< d * r)
    <3>1. PICK k \in Nat : q = r + k  BY <2>3, <2>6
    <3>2. d * q = d * r + d * k  BY <3>1, SMT
    <3>3. d * k >= 0 /\ d * r \in Nat  BY SMT
    <3> QED  BY <2>2, <2>4, <3>2, <3>3
  <2> QED  BY <2>1, <2>5, <2>6
<1> QED  BY <1>1, <1>2

\* A quotient rounded up is a number.
LEMMA CeilDivNat ==
  ASSUME NEW n \in Nat, NEW d \in Nat \ {0}
  PROVE  CeilDiv(n, d) \in Nat
<1>1. CASE n = 0  BY <1>1 DEF CeilDiv
<1>2. CASE n # 0
  <2>1. n - 1 \in Nat  BY <1>2
  <2>2. (n - 1) \div d \in Nat  BY <2>1, SMT
  <2> QED  BY <1>2, <2>2 DEF CeilDiv
<1> QED  BY <1>1, <1>2

\* Products keep the order of their factors.
LEMMA TimesIsMonotone ==
  ASSUME NEW k \in Nat, NEW x \in Nat, NEW y \in Nat, x =< y
  PROVE  k * x =< k * y
<1>1. PICK z \in Nat : y = x + z  BY SMT
<1>2. k * y = k * x + k * z  BY <1>1, SMT
<1>3. k * z \in Nat /\ k * x \in Nat  BY SMT
<1> QED  BY <1>2, <1>3

---------------------------------------------------------------------------

\* A cap quoted for a fee (apply_to_amount_with_buffer of fees.rs, by
\* calculate_fast_transfer_max_fee of bridge/v2.rs) is no less than what is
\* charged on the same amount for a fee that has risen since, as long as it
\* has risen by no more than the buffer: neither of the two roundings, nor
\* their order, loses a unit.
THEOREM BufferedCapCoversRise ==
  ASSUME NEW quoted \in Nat, NEW risen \in Nat, NEW amount \in Nat,
         NEW buffer \in Nat,
         BUFFER_PERCENT_DENOMINATOR * risen
           =< (BUFFER_PERCENT_DENOMINATOR + buffer) * quoted
  PROVE  ApplyToAmount(risen, amount) =< ApplyWithBuffer(quoted, amount, buffer)
<1> DEFINE charged == ApplyToAmount(quoted, amount)
           cap     == ApplyWithBuffer(quoted, amount, buffer)
<1> USE DEF BPS_HUNDREDTH_DENOMINATOR, BUFFER_PERCENT_DENOMINATOR
<1>1. amount * quoted \in Nat /\ amount * risen \in Nat  BY SMT
<1>2. charged \in Nat /\ amount * quoted =< 1000000 * charged
  <2>1. charged = CeilDiv(amount * quoted, 1000000)  BY DEF ApplyToAmount
  <2>2. charged \in Nat  BY <1>1, <2>1, CeilDivNat
  <2> QED  BY <1>1, <2>1, <2>2, CeilDivIsLeast
<1> HIDE DEF charged
<1>3. cap \in Nat /\ charged * (buffer + 100) =< 100 * cap
  <2>1. charged * (buffer + 100) \in Nat  BY <1>2, SMT
  <2>2. cap = CeilDiv(charged * (buffer + 100), 100)
    BY DEF ApplyWithBuffer, charged
  <2>3. cap \in Nat  BY <2>1, <2>2, CeilDivNat
  <2> QED  BY <2>1, <2>2, <2>3, CeilDivIsLeast
<1> HIDE DEF cap
<1>4. amount * risen =< 1000000 * cap
  <2>1. 100 * (amount * risen) =< (100 + buffer) * (amount * quoted)
    <3>1. 100 * risen \in Nat /\ (100 + buffer) * quoted \in Nat  BY SMT
    <3>2. amount * (100 * risen) =< amount * ((100 + buffer) * quoted)
      BY <3>1, TimesIsMonotone
    <3>3. amount * (100 * risen) = 100 * (amount * risen)  BY SMT
    <3>4. amount * ((100 + buffer) * quoted) = (100 + buffer) * (amount * quoted)
      BY SMT
    <3> QED  BY <3>2, <3>3, <3>4
  <2>2. (100 + buffer) * (amount * quoted)
          =< (100 + buffer) * (1000000 * charged)
    <3>1. 100 + buffer \in Nat /\ 1000000 * charged \in Nat  BY <1>2
    <3> QED  BY <1>1, <1>2, <3>1, TimesIsMonotone
  <2>3. (100 + buffer) * (1000000 * charged)
          = 1000000 * (charged * (buffer + 100))  BY <1>2, SMT
  <2>4. 1000000 * (charged * (buffer + 100)) =< 1000000 * (100 * cap)
    <3>1. charged * (buffer + 100) \in Nat  BY <1>2, SMT
    <3> QED  BY <1>3, <3>1
  <2>5. 100 * (amount * risen) =< 100 * (1000000 * cap)
    <3>1. (100 + buffer) * (amount * quoted) \in Nat  BY <1>1, SMT
    <3>2. (100 + buffer) * (1000000 * charged) \in Nat  BY <1>2, SMT
    <3> QED  BY <1>1, <1>3, <2>1, <2>2, <2>3, <2>4, <3>1, <3>2
  <2> QED  BY <1>1, <1>3, <2>5
<1>5. ApplyToAmount(risen, amount) =< cap
  BY <1>1, <1>3, <1>4, CeilDivIsLeast DEF ApplyToAmount
<1> QED  BY <1>5 DEF cap

\* A number below the divisor is its own remainder, and adding the divisor to it
\* changes nothing.
LEMMA RemainderOfLess ==
  ASSUME NEW n \in Nat, NEW width \in Nat \ {0}, n < width
  PROVE  n % width = n
  BY SMT

LEMMA RemainderOfSum ==
  ASSUME NEW n \in Nat, NEW width \in Nat \ {0}, n < width
  PROVE  (n + width) % width = n
  BY SMT

\* 100 + percent, if it is no u64, is a percentage below one hundred in a build
\* that wraps, and a panic in one that checks.
LEMMA FactorOfPercent ==
  ASSUME NEW percent \in 0 .. U64Max, NEW build \in BuildProfiles
  PROVE  /\ 100 + percent =< U64Max =>
              PercentFactor(percent, build) = Ok(100 + percent)
         /\ ~ (100 + percent =< U64Max) /\ build # "release" =>
              PercentFactor(percent, build) = Err("panic")
         /\ ~ (100 + percent =< U64Max) /\ build = "release" =>
              \E factor \in 0 .. 99 : PercentFactor(percent, build) = Ok(factor)
<1>1. U64Max \in Nat /\ 100 =< U64Max  BY WidthAssumption
<1>2. ASSUME ~ (100 + percent =< U64Max), build = "release"
      PROVE  \E factor \in 0 .. 99 : PercentFactor(percent, build) = Ok(factor)
  <2> DEFINE width  == U64Max + 1
             factor == 100 + percent - width
  <2>1. width \in Nat \ {0} /\ factor \in 0 .. 99 /\ factor < width
    BY <1>1, <1>2
  <2>2. 100 + percent = factor + width /\ 100 + percent \in Nat  BY <1>1
  <2> HIDE DEF width, factor
  <2>3. (factor + width) % width = factor  BY <2>1, RemainderOfSum
  <2>4. PercentFactor(percent, build) = Ok((100 + percent) % width)
    BY <1>2 DEF PercentFactor, width
  <2> QED  BY <2>1, <2>2, <2>3, <2>4
<1> QED  BY <1>2 DEF PercentFactor, BuildProfiles

\* A percentage of a hundred or more raises, one below it lowers.
LEMMA PercentOfNumber ==
  ASSUME NEW n \in Nat, NEW factor \in Nat
  PROVE  /\ n * factor \in Nat /\ (n * factor) \div 100 \in Nat
         /\ factor >= 100 => (n * factor) \div 100 >= n
         /\ factor >= 100 => 100 * n =< n * factor
         /\ factor =< 99 /\ n > 0 => (n * factor) \div 100 < n
         /\ factor =< 99 => n * factor =< 100 * n
<1> DEFINE product == n * factor
<1>1. product \in Nat  BY SMT
<1>2. factor >= 100 => 100 * n =< product
  <2>1. factor >= 100 => n * 100 =< n * factor  BY TimesIsMonotone
  <2> QED  BY <2>1
<1>3. factor =< 99 => product =< 99 * n
  <2>1. factor =< 99 => n * factor =< n * 99  BY TimesIsMonotone
  <2> QED  BY <2>1
<1> HIDE DEF product
<1>4. /\ product \div 100 \in Nat
      /\ 100 * n =< product => product \div 100 >= n
      /\ product =< 99 * n /\ n > 0 => product \div 100 < n
      /\ product =< 99 * n => product =< 100 * n
  BY <1>1
<1> QED  BY <1>1, <1>2, <1>3, <1>4 DEF product

\* For every estimate, percentage and build, a gas limit is at least the estimate
\* exactly where 100 + percent and a hundred times the estimate are u64, and a
\* gas price covers its base and its tip where all its terms are within their
\* types (estimate_gas_with_buffer, calculate_gas_price_with_buffer).
THEOREM BufferedGasCoversEstimate ==
  ASSUME NEW estimate \in 0 .. U64Max, NEW percent \in 0 .. U64Max,
         NEW base \in 0 .. U256Max, NEW priority \in 0 .. U256Max,
         NEW build \in BuildProfiles
  PROVE  /\ LimitIsBuffered(estimate, percent, build)
         /\ PriceIsBuffered(base, priority, percent, build)
<1> DEFINE fits   == 100 + percent =< U64Max
           factor == PercentFactor(percent, build)
<1>1. U64Max \in Nat /\ 100 =< U64Max /\ U256Max \in Nat  BY WidthAssumption
<1>2. /\ fits => factor = Ok(100 + percent)
      /\ ~ fits /\ build # "release" => factor = Err("panic")
      /\ ~ fits /\ build = "release" => \E low \in 0 .. 99 : factor = Ok(low)
  BY FactorOfPercent
<1>3. 100 + percent \in Nat /\ 100 + percent >= 100  OBVIOUS
<1>4. factor.ok <=> fits \/ build = "release"  BY <1>2 DEF Ok, Err
<1>5. ~ factor.ok => /\ ~ WithPercent(estimate, percent, build).ok
                     /\ ~ GasPriceWithBuffer(base, priority, percent, build).ok
  BY DEF WithPercent, GasPriceWithBuffer, AndThen
<1>6. ASSUME NEW f \in Nat, factor = Ok(f)
      PROVE  LET product  == estimate * f
                 buffered == WrappedU256(priority * f) \div 100
             IN /\ WithPercent(estimate, percent, build)
                     = Ok((IF product > U64Max THEN U64Max ELSE product) \div 100)
                /\ GasPriceWithBuffer(base, priority, percent, build)
                     = Ok(<<WrappedU256(WrappedU256(base * 2) + buffered), buffered>>)
  BY <1>6 DEF WithPercent, GasPriceWithBuffer, AndThen, Ok
<1> HIDE DEF factor
<1>7. LimitIsBuffered(estimate, percent, build)
  <2> DEFINE limit == WithPercent(estimate, percent, build)
  <2>1. ASSUME NEW f \in Nat, factor = Ok(f)
        PROVE  /\ limit.ok
               /\ limit.val = (IF estimate * f > U64Max THEN U64Max
                                                       ELSE estimate * f) \div 100
    BY <1>6, <2>1 DEF Ok
  <2>2. limit.ok <=> factor.ok
    <3>1. factor.ok => \E f \in Nat : factor = Ok(f)  BY <1>2, <1>3, <1>4
    <3> QED  BY <1>5, <2>1, <3>1
  <2> HIDE DEF limit
  <2>3. ASSUME fits
        PROVE  limit.val >= estimate <=> estimate =< U64Max \div 100
    <3> DEFINE product == estimate * (100 + percent)
    <3>1. /\ product \in Nat /\ product \div 100 >= estimate
          /\ 100 * estimate =< product
      BY <1>3, PercentOfNumber
    <3>2. limit.val = (IF product > U64Max THEN U64Max ELSE product) \div 100
      BY <1>2, <1>3, <2>1, <2>3
    <3> HIDE DEF product
    <3>3. CASE product > U64Max
      BY <1>1, <3>2, <3>3
    <3>4. CASE ~ (product > U64Max)
      <4>1. 100 * estimate =< U64Max  BY <1>1, <3>1, <3>4
      <4>2. estimate =< U64Max \div 100  BY <1>1, <4>1
      <4> QED  BY <3>1, <3>2, <3>4, <4>2
    <3> QED  BY <3>3, <3>4
  <2>4. ASSUME ~ fits, build = "release"
        PROVE  limit.val >= estimate <=> estimate = 0
    <3>1. PICK low \in 0 .. 99 : factor = Ok(low)  BY <1>2, <2>4
    <3> DEFINE product == estimate * low
    <3>2. /\ product \in Nat
          /\ estimate > 0 => product \div 100 < estimate
      BY PercentOfNumber
    <3>3. limit.val = (IF product > U64Max THEN U64Max ELSE product) \div 100
      BY <2>1, <3>1
    <3>4. product \div 100 \in Nat  BY PercentOfNumber
    <3> HIDE DEF product
    <3>5. limit.val \in Nat /\ limit.val =< product \div 100
      BY <1>1, <3>2, <3>3
    <3> QED  BY <3>2, <3>4, <3>5
  <2>5. estimate = 0 => estimate =< U64Max \div 100  BY <1>1
  <2> QED  BY <1>4, <2>2, <2>3, <2>4, <2>5 DEF LimitIsBuffered, limit
<1>8. PriceIsBuffered(base, priority, percent, build)
  <2> DEFINE prices == GasPriceWithBuffer(base, priority, percent, build)
  <2>1. ASSUME NEW f \in Nat, factor = Ok(f)
        PROVE  /\ prices.ok
               /\ prices.val[2] = WrappedU256(priority * f) \div 100
               /\ prices.val[1]
                    = WrappedU256(WrappedU256(base * 2) + prices.val[2])
    BY <1>6, <2>1 DEF Ok
  <2>2. prices.ok <=> factor.ok
    <3>1. factor.ok => \E f \in Nat : factor = Ok(f)  BY <1>2, <1>3, <1>4
    <3> QED  BY <1>5, <2>1, <3>1
  <2> HIDE DEF prices
  <2>3. \A n \in 0 .. U256Max : WrappedU256(n) = n
    <3> SUFFICES ASSUME NEW n \in 0 .. U256Max PROVE WrappedU256(n) = n
      OBVIOUS
    <3>1. n \in Nat /\ U256Max + 1 \in Nat \ {0} /\ n < U256Max + 1  BY <1>1
    <3> QED  BY <3>1, RemainderOfLess DEF WrappedU256
  <2>4. ASSUME fits, priority * (100 + percent) =< U256Max,
               2 * base + (priority * (100 + percent)) \div 100 =< U256Max
        PROVE  prices.val[2] >= priority /\ prices.val[1] = 2 * base + prices.val[2]
    <3> DEFINE product == priority * (100 + percent)
    <3>1. /\ product \in Nat /\ product \div 100 \in Nat
          /\ product \div 100 >= priority
      BY <1>3, PercentOfNumber
    <3>2. /\ prices.val[2] = WrappedU256(product) \div 100
          /\ prices.val[1] = WrappedU256(WrappedU256(base * 2) + prices.val[2])
      BY <1>2, <1>3, <2>1, <2>4
    <3>3. product =< U256Max /\ 2 * base + product \div 100 =< U256Max
      BY <2>4
    <3> HIDE DEF product
    <3>4. WrappedU256(product) = product  BY <1>1, <2>3, <3>1, <3>3
    <3>5. base * 2 \in 0 .. U256Max /\ base * 2 + product \div 100 \in 0 .. U256Max
      BY <1>1, <3>1, <3>3
    <3>6. /\ WrappedU256(base * 2) = base * 2
          /\ WrappedU256(base * 2 + product \div 100) = base * 2 + product \div 100
      BY <2>3, <3>5
    <3> QED  BY <3>1, <3>2, <3>4, <3>6
  <2>5. ASSUME ~ fits, build = "release", priority > 0, 100 * priority =< U256Max
        PROVE  prices.val[2] < priority
    <3>1. PICK low \in 0 .. 99 : factor = Ok(low)  BY <1>2, <2>5
    <3> DEFINE product == priority * low
    <3>2. /\ product \in Nat /\ product \div 100 < priority
          /\ product =< 100 * priority
      BY <2>5, PercentOfNumber
    <3>3. prices.val[2] = WrappedU256(product) \div 100  BY <2>1, <3>1
    <3> HIDE DEF product
    <3>4. WrappedU256(product) = product  BY <1>1, <2>3, <2>5, <3>2
    <3> QED  BY <3>2, <3>3, <3>4
  <2> QED  BY <1>4, <2>2, <2>4, <2>5 DEF PriceIsBuffered, prices
<1> QED  BY <1>7, <1>8

---------------------------------------------------------------------------
(* Amounts and fees as decimal texts.  A value is read from digits, and    *)
(* digits are written for a value, by recursive functions: that these      *)
(* exist, and what they return, is proved by NatSetInduction.              *)

\* A set of naturals has a least one.
LEMMA LeastNatural ==
  ASSUME NEW T \in SUBSET Nat, T # {}
  PROVE  \E least \in T : \A other \in T : least =< other
<1>1. IsWellFoundedOn(OpToRel(<, Nat), Nat)
  BY NatLessThanWellFounded
<1>2. PICK least \in T : \A other \in T : ~ (<<other, least>> \in OpToRel(<, Nat))
  BY <1>1, WFMin
<1>3. \A other \in T : ~ (other < least)
  BY <1>2 DEF OpToRel
<1> QED BY <1>3

\* Induction over a set of naturals, from the least number it would lack.
LEMMA NatSetInduction ==
  ASSUME NEW S, 0 \in S, \A n \in Nat : n \in S => n + 1 \in S
  PROVE  Nat \subseteq S
<1> SUFFICES ASSUME Nat \ S # {} PROVE FALSE
  OBVIOUS
<1>1. PICK least \in Nat \ S : \A other \in Nat \ S : least =< other
  BY LeastNatural
<1>2. least # 0 /\ least - 1 \in Nat /\ least - 1 \in S
  BY <1>1
<1>3. (least - 1) + 1 \in S
  BY <1>2
<1> QED BY <1>2, <1>3

\* A bounded set of naturals has a greatest one.
LEMMA GreatestBelow ==
  ASSUME NEW L \in Nat, NEW T \in SUBSET (1 .. L), T # {}
  PROVE  \E greatest \in T : \A other \in T : other =< greatest
<1> DEFINE R == {n \in Nat : L - n \in T}
<1>1. \A i \in T : L - i \in R
  <2>1. \A i \in T : L - i \in Nat /\ L - (L - i) = i
    OBVIOUS
  <2> QED BY <2>1
<1>2. PICK least \in R : \A other \in R : least =< other
  <2>1. R # {}
    BY <1>1
  <2> HIDE DEF R
  <2>2. R \in SUBSET Nat
    BY DEF R
  <2> QED BY <2>1, <2>2, LeastNatural
<1>3. least \in Nat /\ L - least \in T
  BY <1>2
<1>4. ASSUME NEW other \in T PROVE other =< L - least
  <2>1. least =< L - other
    BY <1>1, <1>2
  <2> QED BY <1>3, <2>1
<1> QED BY <1>3, <1>4, Zenon

\* Sequences of decimal digits.
Digits == Seq(0 .. 9)

\* v reads the digits from the left.
IsReading(v, digits) ==
  /\ v \in [0 .. Len(digits) -> Nat]
  /\ v[0] = 0
  /\ \A n \in 1 .. Len(digits) : v[n] = 10 * v[n - 1] + digits[n]

\* The recursive function of DigitsValue exists: one step for each digit.
LEMMA ReadingExists ==
  ASSUME NEW digits \in Digits
  PROVE  \E v : IsReading(v, digits)
<1> DEFINE P(n) == n =< Len(digits) =>
                     \E v \in [0 .. n -> Nat] :
                       /\ v[0] = 0
                       /\ \A i \in 1 .. n : v[i] = 10 * v[i - 1] + digits[i]
           S == {n \in Nat : P(n)}
<1>1. P(0)
  <2> DEFINE v == [i \in 0 .. 0 |-> 0]
  <2>1. /\ v \in [0 .. 0 -> Nat] /\ v[0] = 0
        /\ \A i \in 1 .. 0 : v[i] = 10 * v[i - 1] + digits[i]
    OBVIOUS
  <2> QED BY <2>1
<1>2. ASSUME NEW n \in Nat, P(n) PROVE P(n + 1)
  <2> SUFFICES ASSUME n + 1 =< Len(digits)
               PROVE  \E v \in [0 .. n + 1 -> Nat] :
                     /\ v[0] = 0
                     /\ \A i \in 1 .. n + 1 : v[i] = 10 * v[i - 1] + digits[i]
    OBVIOUS
  <2>1. Len(digits) \in Nat
    BY DEF Digits
  <2>2. PICK v \in [0 .. n -> Nat] :
          /\ v[0] = 0
          /\ \A i \in 1 .. n : v[i] = 10 * v[i - 1] + digits[i]
    BY <1>2, <2>1
  <2>3. n + 1 \in 1 .. Len(digits) /\ digits[n + 1] \in Nat
    BY <2>1 DEF Digits
  <2> DEFINE w == [i \in 0 .. n + 1 |->
                     IF i = n + 1 THEN 10 * v[n] + digits[n + 1] ELSE v[i]]
  <2>4. w \in [0 .. n + 1 -> Nat]
    BY <2>2, <2>3
  <2>5. w[0] = 0
    BY <2>2
  <2>6. \A i \in 1 .. n + 1 : w[i] = 10 * w[i - 1] + digits[i]
    BY <2>2
  <2> QED BY <2>4, <2>5, <2>6
<1>3. P(Len(digits))
  <2> HIDE DEF P
  <2>1. Len(digits) \in Nat
    BY DEF Digits
  <2>2. 0 \in S /\ \A n \in Nat : n \in S => n + 1 \in S
    BY <1>1, <1>2
  <2>3. Nat \subseteq S
    BY <2>2, NatSetInduction
  <2> QED BY <2>1, <2>3
<1>4. Len(digits) \in Nat /\ Len(digits) =< Len(digits)
  BY DEF Digits
<1> QED BY <1>3, <1>4 DEF IsReading

\* Two readings agree on the digits their texts share.
LEMMA ReadingIsUnique ==
  ASSUME NEW one \in Digits, NEW two \in Digits, NEW v, NEW w,
         IsReading(v, one), IsReading(w, two),
         NEW k \in 0 .. Len(one), k =< Len(two),
         \A i \in 1 .. k : one[i] = two[i]
  PROVE  v[k] = w[k]
<1> DEFINE S == {n \in Nat : n =< k => v[n] = w[n]}
<1>0. Len(one) \in Nat /\ Len(two) \in Nat BY DEF Digits
<1>1. 0 \in S
  BY DEF IsReading
<1>2. ASSUME NEW n \in Nat, n \in S PROVE n + 1 \in S
  <2> SUFFICES ASSUME n + 1 =< k PROVE v[n + 1] = w[n + 1]
    OBVIOUS
  <2>1. v[n] = w[n] BY <1>0, <1>2
  <2>2. n + 1 \in 1 .. Len(one) /\ n + 1 \in 1 .. Len(two) /\ n + 1 \in 1 .. k
    BY <1>0
  <2>3. v[n + 1] = 10 * v[(n + 1) - 1] + one[n + 1]
    BY <2>2 DEF IsReading
  <2>4. w[n + 1] = 10 * w[(n + 1) - 1] + two[n + 1]
    BY <2>2 DEF IsReading
  <2> QED BY <2>1, <2>2, <2>3, <2>4
<1>3. k \in S
  <2> HIDE DEF S
  <2> QED BY <1>0, <1>1, <1>2, NatSetInduction
<1> QED BY <1>0, <1>3

\* DigitsValue is what any reading of the digits ends with.
LEMMA DigitsValueReads ==
  ASSUME NEW digits \in Digits, NEW v, IsReading(v, digits)
  PROVE  DigitsValue(digits) = v[Len(digits)]
<1> DEFINE L == Len(digits)
           Body(f) == [n \in 0 .. L |-> IF n = 0 THEN 0 ELSE 10 * f[n - 1] + digits[n]]
           value == CHOOSE f : f = Body(f)
<1>0. L \in Nat BY DEF Digits
<1>1. v = Body(v)
  <2>1. \A n \in 0 .. L : v[n] = Body(v)[n]
    BY <1>0 DEF IsReading
  <2> QED BY <2>1 DEF IsReading
<1>2. value = Body(value)
  BY <1>1
<1>3. DigitsValue(digits) = value[L]
  BY DEF DigitsValue
<1>4. \A n \in 0 .. L : value[n] = IF n = 0 THEN 0 ELSE 10 * value[n - 1] + digits[n]
  BY <1>2
<1> DEFINE S == {n \in Nat : n =< L => value[n] = v[n]}
<1> HIDE DEF value
<1>5. 0 \in S
  BY <1>0, <1>4 DEF IsReading
<1>6. ASSUME NEW n \in Nat, n \in S PROVE n + 1 \in S
  <2> SUFFICES ASSUME n + 1 =< L PROVE value[n + 1] = v[n + 1]
    OBVIOUS
  <2>1. value[n] = v[n] BY <1>0, <1>6
  <2>2. n + 1 \in 0 .. L /\ n + 1 \in 1 .. L BY <1>0
  <2>3. value[n + 1] = 10 * value[(n + 1) - 1] + digits[n + 1]
    BY <1>4, <2>2
  <2>4. v[n + 1] = 10 * v[(n + 1) - 1] + digits[n + 1]
    BY <2>2 DEF IsReading
  <2> QED BY <2>1, <2>3, <2>4
<1>7. L \in S
  <2> HIDE DEF S
  <2> QED BY <1>0, <1>5, <1>6, NatSetInduction
<1> QED BY <1>0, <1>3, <1>7

---------------------------------------------------------------------------

\* One more digit: ten times the value, and the digit.
LEMMA ValueOfAppend ==
  ASSUME NEW digits \in Digits, NEW d \in 0 .. 9
  PROVE  /\ DigitsValue(digits) \in Nat
         /\ Append(digits, d) \in Digits
         /\ DigitsValue(Append(digits, d)) = 10 * DigitsValue(digits) + d
<1> DEFINE longer == Append(digits, d)
           L == Len(digits)
<1>1. /\ L \in Nat /\ longer \in Digits /\ Len(longer) = L + 1
      /\ longer[L + 1] = d
      /\ \A i \in 1 .. L : longer[i] = digits[i]
  BY DEF Digits
<1>2. PICK v : IsReading(v, digits)
  BY ReadingExists
<1>3. PICK w : IsReading(w, longer)
  BY <1>1, ReadingExists
<1>4. v[L] = w[L]
  <2>1. L \in 0 .. L /\ L =< L + 1
    BY <1>1
  <2>2. \A i \in 1 .. L : digits[i] = longer[i]
    BY <1>1
  <2> HIDE DEF longer
  <2> QED BY <1>1, <1>2, <1>3, <2>1, <2>2, ReadingIsUnique
<1>5. w[L + 1] = 10 * w[(L + 1) - 1] + longer[L + 1]
  <2>1. L + 1 \in 1 .. Len(longer)
    BY <1>1
  <2> QED BY <1>3, <2>1 DEF IsReading
<1>6. DigitsValue(digits) = v[L] /\ DigitsValue(longer) = w[L + 1]
  BY <1>1, <1>2, <1>3, DigitsValueReads
<1>7. v[L] \in Nat
  BY <1>1, <1>2 DEF IsReading
<1> QED BY <1>1, <1>4, <1>5, <1>6, <1>7

\* No digit is zero, and a digit is itself.
LEMMA ValueOfEmpty ==
  /\ <<>> \in Digits /\ DigitsValue(<<>>) = 0
  /\ \A d \in 0 .. 9 : <<d>> \in Digits /\ DigitsValue(<<d>>) = d
<1>1. <<>> \in Digits
  BY DEF Digits
<1>2. PICK v : IsReading(v, <<>>)
  BY <1>1, ReadingExists
<1>3. DigitsValue(<<>>) = 0
  BY <1>1, <1>2, DigitsValueReads DEF IsReading
<1>4. ASSUME NEW d \in 0 .. 9 PROVE <<d>> \in Digits /\ DigitsValue(<<d>>) = d
  <2>1. Append(<<>>, d) = <<d>>
    OBVIOUS
  <2>2. /\ Append(<<>>, d) \in Digits
        /\ DigitsValue(Append(<<>>, d)) = 10 * 0 + d
    BY <1>1, <1>3, ValueOfAppend
  <2> QED BY <2>1, <2>2
<1> QED BY <1>1, <1>3, <1>4

\* Digits are read as a natural number.
LEMMA ValueIsNatural ==
  ASSUME NEW digits \in Digits
  PROVE  DigitsValue(digits) \in Nat
<1>1. 0 \in 0 .. 9
  OBVIOUS
<1> QED BY <1>1, ValueOfAppend

\* Digits followed by digits, place by place.
LEMMA ConcatFacts ==
  ASSUME NEW left \in Digits, NEW right \in Digits
  PROVE  /\ left \o right \in Digits
         /\ Len(left) \in Nat /\ Len(right) \in Nat
         /\ Len(left \o right) = Len(left) + Len(right)
         /\ \A i \in 1 .. Len(left) + Len(right) :
              (left \o right)[i] =
                IF i =< Len(left) THEN left[i] ELSE right[i - Len(left)]
BY DEF Digits

\* Digits are what stands in their places.
LEMMA SameDigits ==
  ASSUME NEW one \in Digits, NEW two \in Digits, Len(one) = Len(two),
         \A i \in 1 .. Len(one) : one[i] = two[i]
  PROVE  one = two
BY DEF Digits

\* The last digit of a concatenation is that of its right part.
LEMMA ConcatAppend ==
  ASSUME NEW left \in Digits, NEW right \in Digits, NEW d \in 0 .. 9
  PROVE  /\ left \o right \in Digits
         /\ left \o Append(right, d) = Append(left \o right, d)
BY DEF Digits

\* Zeros are digits, one more for each n.
LEMMA ZerosFacts ==
  ASSUME NEW n \in Nat
  PROVE  /\ Zeros(n) \in Digits /\ Len(Zeros(n)) = n
         /\ Zeros(n + 1) = Append(Zeros(n), 0)
         /\ Zeros(0) = <<>>
<1>1. Zeros(n) \in Digits /\ Len(Zeros(n)) = n
  BY DEF Zeros, Digits
<1>2. Zeros(n + 1) = Append(Zeros(n), 0)
  BY <1>1 DEF Zeros, Digits
<1>3. Zeros(0) = <<>>
  BY DEF Zeros
<1> QED BY <1>1, <1>2, <1>3

\* One more zero is a factor of ten.
LEMMA PowerOfTenStep ==
  ASSUME NEW n \in Nat
  PROVE  /\ PowerOfTen(n) \in Nat
         /\ PowerOfTen(n + 1) = 10 * PowerOfTen(n)
         /\ PowerOfTen(0) = 1
<1> DEFINE one == <<1>> \o Zeros(n)
<1>1. <<1>> \in Digits /\ DigitsValue(<<1>>) = 1
  <2>1. 1 \in 0 .. 9
    OBVIOUS
  <2> QED BY <2>1, ValueOfEmpty
<1>2. one \in Digits /\ <<1>> \o Zeros(n + 1) = Append(one, 0)
  <2>1. 0 \in 0 .. 9
    OBVIOUS
  <2>2. Zeros(n) \in Digits /\ Zeros(n + 1) = Append(Zeros(n), 0)
    BY ZerosFacts
  <2>3. <<1>> \o Append(Zeros(n), 0) = Append(<<1>> \o Zeros(n), 0)
    BY <1>1, <2>1, <2>2, ConcatAppend, Zenon
  <2>4. <<1>> \o Zeros(n) \in Digits
    BY <1>1, <2>1, <2>2, ConcatAppend, Zenon
  <2> QED BY <2>2, <2>3, <2>4
<1>3. DigitsValue(one) \in Nat /\ DigitsValue(Append(one, 0)) = 10 * DigitsValue(one)
  <2> HIDE DEF one
  <2> QED BY <1>2, ValueOfAppend
<1>4. <<1>> \o Zeros(0) = <<1>>
  <2>1. Zeros(0) = <<>>
    BY ZerosFacts
  <2>2. <<1>> \o <<>> = <<1>>
    OBVIOUS
  <2> QED BY <2>1, <2>2
<1> QED BY <1>1, <1>2, <1>3, <1>4 DEF PowerOfTen

\* A power of ten is not zero.
LEMMA PowersOfTen ==
  ASSUME NEW n \in Nat
  PROVE  PowerOfTen(n) \in Nat /\ PowerOfTen(n) > 0
<1> DEFINE S == {k \in Nat : PowerOfTen(k) > 0}
<1>1. 0 \in S
  BY PowerOfTenStep
<1>2. \A k \in Nat : k \in S => k + 1 \in S
  BY PowerOfTenStep
<1>3. n \in S
  <2> HIDE DEF S
  <2> QED BY <1>1, <1>2, NatSetInduction
<1> QED BY <1>3, PowerOfTenStep

\* Digits written before others count as many times more as these have places.
LEMMA ValueOfConcat ==
  ASSUME NEW left \in Digits, NEW right \in Digits
  PROVE  DigitsValue(left \o right)
           = DigitsValue(left) * PowerOfTen(Len(right)) + DigitsValue(right)
<1> DEFINE Part(n) == SubSeq(right, 1, n)
           a == DigitsValue(left)
           P(n) == n =< Len(right) =>
                     DigitsValue(left \o Part(n))
                       = a * PowerOfTen(n) + DigitsValue(Part(n))
           S == {n \in Nat : P(n)}
<1>0. Len(right) \in Nat /\ a \in Nat
  BY ValueOfAppend DEF Digits
<1>1. P(0)
  <2>1. Part(0) = <<>> /\ left \o Part(0) = left
    BY DEF Digits
  <2>2. a * 1 + 0 = a
    BY <1>0
  <2> QED BY <2>1, <2>2, ValueOfEmpty, PowerOfTenStep
<1>2. ASSUME NEW n \in Nat, P(n) PROVE P(n + 1)
  <2> SUFFICES ASSUME n + 1 =< Len(right)
               PROVE  DigitsValue(left \o Part(n + 1))
                        = a * PowerOfTen(n + 1) + DigitsValue(Part(n + 1))
    OBVIOUS
  <2> DEFINE d == right[n + 1]
             p == PowerOfTen(n)
             b == DigitsValue(Part(n))
  <2>1. d \in 0 .. 9 /\ Part(n) \in Digits
    BY <1>0 DEF Digits
  <2>2. Part(n + 1) = Append(Part(n), d)
    BY <1>0 DEF Digits
  <2>3. left \o Part(n + 1) = Append(left \o Part(n), d) /\ left \o Part(n) \in Digits
    BY <2>1, <2>2, ConcatAppend
  <2>4. DigitsValue(left \o Part(n)) = a * p + b
    BY <1>0, <1>2
  <2>5. p \in Nat /\ b \in Nat
    BY <2>1, ValueOfAppend, PowerOfTenStep
  <2>6. DigitsValue(left \o Part(n + 1)) = 10 * (a * p + b) + d
    BY <2>1, <2>3, <2>4, ValueOfAppend
  <2>7. DigitsValue(Part(n + 1)) = 10 * b + d /\ PowerOfTen(n + 1) = 10 * p
    BY <2>1, <2>2, ValueOfAppend, PowerOfTenStep
  <2> HIDE DEF a, p, b
  <2>8. 10 * (a * p + b) + d = a * (10 * p) + (10 * b + d)
    <3> HIDE DEF d
    <3> QED BY <1>0, <2>1, <2>5
  <2> QED BY <2>6, <2>7, <2>8
<1>3. P(Len(right))
  <2> HIDE DEF P
  <2>1. 0 \in S /\ \A n \in Nat : n \in S => n + 1 \in S
    BY <1>1, <1>2
  <2>2. Nat \subseteq S
    BY <2>1, NatSetInduction
  <2> QED BY <1>0, <2>2
<1>4. Part(Len(right)) = right
  BY <1>0 DEF Digits
<1>5. Len(right) =< Len(right)
  BY <1>0
<1> HIDE DEF Part
<1> QED BY <1>3, <1>4, <1>5

\* What the first n digits come to.
Bounded(digits, n) ==
  LET value == DigitsValue(SubSeq(digits, 1, n))
  IN /\ value < PowerOfTen(n)
     /\ value = 0 <=> \A i \in 1 .. n : digits[i] = 0

\* Digits stay below the power of ten of their length, and come to zero only
\* when each of them is zero.
LEMMA ValueIsBounded ==
  ASSUME NEW digits \in Digits
  PROVE  /\ DigitsValue(digits) < PowerOfTen(Len(digits))
         /\ DigitsValue(digits) = 0 <=> \A i \in 1 .. Len(digits) : digits[i] = 0
<1> DEFINE P(n) == n =< Len(digits) => Bounded(digits, n)
           S == {n \in Nat : P(n)}
<1>0. Len(digits) \in Nat
  BY DEF Digits
<1>1. P(0)
  <2>1. SubSeq(digits, 1, 0) = <<>>
    BY DEF Digits
  <2>2. DigitsValue(SubSeq(digits, 1, 0)) = 0 /\ PowerOfTen(0) = 1
    BY <2>1, ValueOfEmpty, PowerOfTenStep
  <2> QED BY <2>2 DEF Bounded
<1>2. ASSUME NEW n \in Nat, P(n) PROVE P(n + 1)
  <2> SUFFICES ASSUME n + 1 =< Len(digits) PROVE Bounded(digits, n + 1)
    OBVIOUS
  <2>1. PICK d \in 0 .. 9 :
          /\ d = digits[n + 1]
          /\ SubSeq(digits, 1, n) \in Digits
          /\ SubSeq(digits, 1, n + 1) = Append(SubSeq(digits, 1, n), d)
    <3>1. /\ digits[n + 1] \in 0 .. 9
          /\ SubSeq(digits, 1, n) \in Digits
      BY <1>0 DEF Digits
    <3>2. SubSeq(digits, 1, n + 1) = Append(SubSeq(digits, 1, n), digits[n + 1])
      BY <1>0 DEF Digits
    <3> QED BY <3>1, <3>2
  <2>2. PICK b \in Nat : b = DigitsValue(SubSeq(digits, 1, n))
    BY <2>1, ValueOfAppend
  <2>3. DigitsValue(SubSeq(digits, 1, n + 1)) = 10 * b + d
    BY <2>1, <2>2, ValueOfAppend
  <2>4. PICK p \in Nat : p = PowerOfTen(n) /\ PowerOfTen(n + 1) = 10 * p
    BY PowerOfTenStep
  <2>5. b < p /\ (b = 0 <=> \A i \in 1 .. n : digits[i] = 0)
    BY <1>0, <1>2, <2>2, <2>4 DEF Bounded
  <2>6. 10 * b + d < 10 * p /\ (10 * b + d = 0 <=> b = 0 /\ d = 0)
    BY <2>5
  <2>7. (\A i \in 1 .. n + 1 : digits[i] = 0)
          <=> d = 0 /\ \A i \in 1 .. n : digits[i] = 0
    <3>1. \A i \in 1 .. n + 1 : i \in 1 .. n \/ i = n + 1
      OBVIOUS
    <3> QED BY <2>1, <3>1
  <2> QED BY <2>3, <2>4, <2>5, <2>6, <2>7 DEF Bounded
<1>3. P(Len(digits))
  <2> HIDE DEF P
  <2>1. 0 \in S /\ \A n \in Nat : n \in S => n + 1 \in S
    BY <1>1, <1>2
  <2>2. Nat \subseteq S
    BY <2>1, NatSetInduction
  <2> QED BY <1>0, <2>2
<1>4. SubSeq(digits, 1, Len(digits)) = digits
  BY <1>0 DEF Digits
<1>5. Bounded(digits, Len(digits))
  BY <1>0, <1>3
<1> QED BY <1>4, <1>5 DEF Bounded

\* v writes every number up to n.
IsWriting(v, n) ==
  /\ v \in [0 .. n -> Digits]
  /\ \A i \in 0 .. n :
       v[i] = IF i < 10 THEN <<i>> ELSE Append(v[i \div 10], i % 10)

\* The recursive function of DecimalDigits exists.
LEMMA WritingExists ==
  ASSUME NEW value \in Nat
  PROVE  \E v : IsWriting(v, value)
<1> DEFINE P(n) == \E v : IsWriting(v, n)
           S == {n \in Nat : P(n)}
<1>1. P(0)
  <2> DEFINE v == [i \in 0 .. 0 |-> <<i>>]
  <2>1. v \in [0 .. 0 -> Digits]
    BY ValueOfEmpty
  <2>2. IsWriting(v, 0)
    BY <2>1 DEF IsWriting
  <2> QED BY <2>2
<1>2. ASSUME NEW n \in Nat, P(n) PROVE P(n + 1)
  <2>1. PICK v : IsWriting(v, n)
    BY <1>2
  <2> DEFINE last == IF n + 1 < 10 THEN <<n + 1>>
                     ELSE Append(v[(n + 1) \div 10], (n + 1) % 10)
             w == [i \in 0 .. n + 1 |-> IF i = n + 1 THEN last ELSE v[i]]
  <2>2. \A i \in 10 .. n + 1 : i \div 10 \in 0 .. n /\ i % 10 \in 0 .. 9 /\ i \div 10 < i
    OBVIOUS
  <2>3. last \in Digits
    <3>1. CASE n + 1 < 10
      BY <3>1, ValueOfEmpty
    <3>2. CASE ~ (n + 1 < 10)
      <4>1. n + 1 \in 10 .. n + 1
        BY <3>2
      <4> QED BY <3>2, <4>1, <2>1, <2>2, ValueOfAppend DEF IsWriting
    <3> QED BY <3>1, <3>2
  <2>4. w \in [0 .. n + 1 -> Digits]
    BY <2>1, <2>3 DEF IsWriting
  <2>5. ASSUME NEW i \in 0 .. n + 1
        PROVE  w[i] = IF i < 10 THEN <<i>> ELSE Append(w[i \div 10], i % 10)
    <3>1. \A j \in 0 .. n : w[j] = v[j]
      OBVIOUS
    <3>2. ~ (i < 10) => i \div 10 \in 0 .. n
      BY <2>2
    <3>3. CASE i = n + 1
      BY <3>1, <3>2, <3>3
    <3>4. CASE i \in 0 .. n
      BY <2>1, <3>1, <3>2, <3>4 DEF IsWriting
    <3> QED BY <3>3, <3>4
  <2>6. IsWriting(w, n + 1)
    BY <2>4, <2>5 DEF IsWriting
  <2> QED BY <2>6
<1>3. P(value)
  <2> HIDE DEF P
  <2>1. 0 \in S /\ \A n \in Nat : n \in S => n + 1 \in S
    BY <1>1, <1>2
  <2> QED BY <2>1, NatSetInduction
<1> QED BY <1>3

\* DecimalDigits is what a writing of the numbers up to the value holds for it.
LEMMA DecimalIsWritten ==
  ASSUME NEW value \in Nat
  PROVE  \E v : IsWriting(v, value) /\ DecimalDigits(value) = v[value]
<1> DEFINE Body(f) == [v \in 0 .. value |->
                         IF v < 10 THEN <<v>> ELSE Append(f[v \div 10], v % 10)]
           decimal == CHOOSE f : f = Body(f)
<1>1. PICK v : IsWriting(v, value)
  BY WritingExists
<1>2. v = Body(v)
  BY <1>1 DEF IsWriting
<1>3. decimal = Body(decimal)
  BY <1>2
<1>4. DecimalDigits(value) = decimal[value]
  BY DEF DecimalDigits
<1> HIDE DEF decimal
<1>5. \A i \in 0 .. value :
        decimal[i] = IF i < 10 THEN <<i>> ELSE Append(decimal[i \div 10], i % 10)
  BY <1>3
<1> DEFINE P(n) == \A i \in 0 .. n : i =< value => decimal[i] = v[i]
           S == {n \in Nat : P(n)}
<1>6. P(0)
  BY <1>1, <1>5 DEF IsWriting
<1>7. ASSUME NEW n \in Nat, P(n) PROVE P(n + 1)
  <2> SUFFICES ASSUME n + 1 =< value PROVE decimal[n + 1] = v[n + 1]
    BY <1>7
  <2>1. ~ (n + 1 < 10) => (n + 1) \div 10 \in 0 .. n
    OBVIOUS
  <2>2. ~ (n + 1 < 10) => decimal[(n + 1) \div 10] = v[(n + 1) \div 10]
    BY <1>7, <2>1
  <2>3. n + 1 \in 0 .. value
    OBVIOUS
  <2> QED BY <1>1, <1>5, <2>2, <2>3 DEF IsWriting
<1>8. P(value)
  <2> HIDE DEF P
  <2>1. 0 \in S /\ \A n \in Nat : n \in S => n + 1 \in S
    BY <1>6, <1>7
  <2> QED BY <2>1, NatSetInduction
<1> QED BY <1>1, <1>4, <1>8

\* What v writes of every number up to n.
Written(v, value, n) ==
  \A i \in 0 .. value : i =< n =>
    /\ DigitsValue(v[i]) = i /\ Len(v[i]) > 0
    /\ \A k \in Nat \ {0} : i < PowerOfTen(k) => Len(v[i]) =< k

\* The digits of a number are read as that number, and are no more than its
\* power of ten has zeros.
LEMMA DecimalIsRead ==
  ASSUME NEW value \in Nat
  PROVE  /\ DecimalDigits(value) \in Digits
         /\ DigitsValue(DecimalDigits(value)) = value
         /\ Len(DecimalDigits(value)) > 0
         /\ \A k \in Nat \ {0} :
              value < PowerOfTen(k) => Len(DecimalDigits(value)) =< k
<1>1. PICK v : IsWriting(v, value) /\ DecimalDigits(value) = v[value]
  BY DecimalIsWritten
<1> DEFINE S == {n \in Nat : Written(v, value, n)}
<1>2. ASSUME NEW i \in 0 .. value, i < 10
      PROVE  /\ DigitsValue(v[i]) = i /\ Len(v[i]) > 0
             /\ \A k \in Nat \ {0} : i < PowerOfTen(k) => Len(v[i]) =< k
  <2>1. v[i] = <<i>>
    BY <1>1, <1>2 DEF IsWriting
  <2>2. i \in 0 .. 9 /\ Len(<<i>>) = 1
    BY <1>2
  <2> QED BY <2>1, <2>2, ValueOfEmpty
<1>3. 0 \in S
  <2>1. \A i \in 0 .. value : i =< 0 => i < 10
    OBVIOUS
  <2> QED BY <1>2, <2>1 DEF Written
<1>4. ASSUME NEW n \in Nat, n \in S PROVE n + 1 \in S
  <2>1. ASSUME NEW i \in 0 .. value, i =< n + 1
        PROVE  /\ DigitsValue(v[i]) = i /\ Len(v[i]) > 0
               /\ \A k \in Nat \ {0} : i < PowerOfTen(k) => Len(v[i]) =< k
    <3>1. CASE i < 10
      BY <1>2, <3>1
    <3>2. CASE ~ (i < 10)
      <4>1. PICK j \in 0 .. value, d \in 0 .. 9 :
              j = i \div 10 /\ d = i % 10 /\ j =< n /\ i = 10 * j + d
        <5>1. i \div 10 \in 0 .. value /\ i % 10 \in 0 .. 9 /\ i \div 10 =< n
          BY <2>1, <3>2
        <5>2. i = 10 * (i \div 10) + (i % 10)
          OBVIOUS
        <5> QED BY <5>1, <5>2
      <4>2. v[i] = Append(v[j], d) /\ v[j] \in Digits
        BY <1>1, <3>2, <4>1 DEF IsWriting
      <4>3. /\ DigitsValue(v[j]) = j /\ Len(v[j]) > 0
            /\ \A k \in Nat \ {0} : j < PowerOfTen(k) => Len(v[j]) =< k
        BY <1>4, <4>1 DEF Written
      <4>4. Len(v[i]) = Len(v[j]) + 1 /\ Len(v[j]) \in Nat
        BY <4>2 DEF Digits
      <4>5. DigitsValue(v[i]) = i
        BY <4>1, <4>2, <4>3, ValueOfAppend
      <4>6. ASSUME NEW k \in Nat \ {0}, i < PowerOfTen(k) PROVE Len(v[i]) =< k
        <5>1. k - 1 \in Nat /\ (k - 1) + 1 = k
          OBVIOUS
        <5>2. PICK p \in Nat : p = PowerOfTen(k - 1) /\ PowerOfTen(k) = 10 * p
          BY <5>1, PowerOfTenStep
        <5>3. j < p
          BY <4>1, <4>6, <5>2
        <5>4. k # 1
          BY <3>2, <4>6, <5>2, PowerOfTenStep
        <5>5. Len(v[j]) =< k - 1
          BY <4>3, <5>1, <5>2, <5>3, <5>4
        <5> QED BY <4>4, <5>5
      <4> QED BY <4>3, <4>4, <4>5, <4>6
    <3> QED BY <3>1, <3>2
  <2> QED BY <2>1 DEF Written
<1>5. Written(v, value, value)
  <2>1. value \in S
    <3> HIDE DEF S
    <3> QED BY <1>3, <1>4, NatSetInduction
  <2> QED BY <2>1
<1>6. v[value] \in Digits
  BY <1>1 DEF IsWriting
<1> QED BY <1>1, <1>5, <1>6 DEF Written

\* Zeros are read as zero.
LEMMA ValueOfZeros ==
  ASSUME NEW n \in Nat
  PROVE  DigitsValue(Zeros(n)) = 0
<1>1. Zeros(n) \in Digits /\ Len(Zeros(n)) = n
  BY ZerosFacts
<1>2. \A i \in 1 .. n : Zeros(n)[i] = 0
  BY DEF Zeros
<1> QED BY <1>1, <1>2, ValueIsBounded

\* Padding on the left keeps the value and fills the places.
LEMMA DigitsOfIsRead ==
  ASSUME NEW places \in Nat \ {0}, NEW value \in Nat, value < PowerOfTen(places)
  PROVE  /\ DigitsOf(value, places) \in Digits
         /\ Len(DigitsOf(value, places)) = places
         /\ DigitsValue(DigitsOf(value, places)) = value
<1>1. PICK digits \in Digits :
        /\ digits = DecimalDigits(value)
        /\ DigitsValue(digits) = value /\ Len(digits) =< places
  BY DecimalIsRead
<1>2. PICK n \in Nat : n = places - Len(digits)
  <2>1. Len(digits) \in Nat
    BY DEF Digits
  <2>2. places - Len(digits) \in Nat
    BY <1>1, <2>1
  <2> QED BY <2>2
<1>3. Zeros(n) \in Digits /\ Len(Zeros(n)) = n /\ DigitsValue(Zeros(n)) = 0
  BY ZerosFacts, ValueOfZeros
<1>4. DigitsOf(value, places) = Zeros(n) \o digits
  BY <1>1, <1>2 DEF DigitsOf
<1>5. /\ Zeros(n) \o digits \in Digits
      /\ Len(Zeros(n) \o digits) = n + Len(digits)
      /\ Len(digits) \in Nat
  BY <1>1, <1>3 DEF Digits
<1>6. DigitsValue(Zeros(n) \o digits) = 0 * PowerOfTen(Len(digits)) + value
  BY <1>1, <1>3, ValueOfConcat
<1>7. 0 * PowerOfTen(Len(digits)) = 0
  BY <1>5, PowerOfTenStep
<1> QED BY <1>2, <1>4, <1>5, <1>6, <1>7

\* Trimmed digits followed by the zeros they lost are the digits.
LEMMA TrimmedIsPadded ==
  ASSUME NEW digits \in Digits
  PROVE  /\ TrimZeros(digits) \in Digits
         /\ Len(TrimZeros(digits)) =< Len(digits)
         /\ digits = TrimZeros(digits) \o Zeros(Len(digits) - Len(TrimZeros(digits)))
<1> DEFINE L == Len(digits)
           kept == {i \in 1 .. L : digits[i] # 0}
<1>0. L \in Nat
  BY DEF Digits
<1>1. CASE kept = {}
  <2>1. TrimZeros(digits) = <<>>
    BY <1>1 DEF TrimZeros
  <2>2. digits = Zeros(L)
    BY <1>0, <1>1 DEF Zeros, Digits
  <2>3. <<>> \in Digits /\ Len(<<>>) = 0 /\ <<>> \o Zeros(L) = Zeros(L)
    BY <1>0, ZerosFacts DEF Digits
  <2> QED BY <1>0, <2>1, <2>2, <2>3
<1>2. CASE kept # {}
  <2>1. PICK m \in kept : \A j \in kept : j =< m
    <3> HIDE DEF kept
    <3>1. kept \in SUBSET (1 .. L)
      BY DEF kept
    <3> QED BY <1>0, <1>2, <3>1, GreatestBelow
  <2>2. (CHOOSE i \in kept : \A j \in kept : j =< i) = m
    BY <1>0, <2>1
  <2>3. TrimZeros(digits) = SubSeq(digits, 1, m)
    BY <1>2, <2>2 DEF TrimZeros
  <2>4. m \in 1 .. L /\ \A i \in m + 1 .. L : digits[i] = 0
    BY <1>0, <2>1
  <2>5. PICK head \in Digits :
          /\ head = SubSeq(digits, 1, m) /\ Len(head) = m
          /\ \A i \in 1 .. m : head[i] = digits[i]
    <3>1. /\ SubSeq(digits, 1, m) \in Digits /\ Len(SubSeq(digits, 1, m)) = m
          /\ \A i \in 1 .. m : SubSeq(digits, 1, m)[i] = digits[i]
      BY <1>0, <2>4 DEF Digits
    <3> QED BY <3>1
  <2>6. PICK k \in Nat : k = L - m
    BY <1>0, <2>4
  <2>7. PICK zeros \in Digits :
          /\ zeros = Zeros(k) /\ Len(zeros) = k /\ \A i \in 1 .. k : zeros[i] = 0
    <3>1. \A i \in 1 .. k : Zeros(k)[i] = 0
      BY DEF Zeros
    <3>2. Zeros(k) \in Digits /\ Len(Zeros(k)) = k
      BY ZerosFacts
    <3> QED BY <3>1, <3>2, Zenon
  <2>8. digits = head \o zeros
    <3>1. /\ head \o zeros \in Digits /\ Len(head \o zeros) = L
          /\ \A i \in 1 .. L :
               (head \o zeros)[i] = IF i =< m THEN head[i] ELSE zeros[i - m]
      <4>1. /\ head \o zeros \in Digits /\ Len(head \o zeros) = Len(head) + Len(zeros)
            /\ \A i \in 1 .. Len(head) + Len(zeros) :
                 (head \o zeros)[i] =
                   IF i =< Len(head) THEN head[i] ELSE zeros[i - Len(head)]
        BY <2>5, <2>7, ConcatFacts, Zenon
      <4>2. Len(head) + Len(zeros) = L
        <5>1. m + k = L
          BY <1>0, <2>4, <2>6
        <5> QED BY <2>5, <2>7, <5>1, Zenon
      <4> QED BY <2>5, <4>1, <4>2, Zenon
    <3>2. ASSUME NEW i \in 1 .. L PROVE (head \o zeros)[i] = digits[i]
      <4>0. (head \o zeros)[i] = IF i =< m THEN head[i] ELSE zeros[i - m]
        BY <3>1, Zenon
      <4>1. CASE i =< m
        BY <2>4, <2>5, <4>0, <4>1
      <4>2. CASE ~ (i =< m)
        <5>1. i \in m + 1 .. L /\ i - m \in 1 .. k
          BY <1>0, <2>4, <2>6, <4>2
        <5> QED BY <2>4, <2>7, <4>0, <4>2, <5>1
      <4> QED BY <4>1, <4>2
    <3> QED BY <3>1, <3>2, SameDigits
  <2> QED BY <1>0, <2>3, <2>4, <2>5, <2>6, <2>7, <2>8
<1> QED BY <1>1, <1>2

---------------------------------------------------------------------------
\* A decimal text as the parsers see it.
DecimalText == [sign : {"", "-"}, whole : Digits, points : Nat, frac : Digits,
                clean : BOOLEAN]

\* The powers that fees are scaled by.
LEMMA SmallPowers ==
  PowerOfTen(0) = 1 /\ PowerOfTen(1) = 10 /\ PowerOfTen(2) = 100
<1>1. PowerOfTen(0) = 1 /\ PowerOfTen(0 + 1) = 10 * PowerOfTen(0)
  BY PowerOfTenStep
<1>2. PowerOfTen(1 + 1) = 10 * PowerOfTen(1)
  BY PowerOfTenStep
<1> QED BY <1>1, <1>2

\* The scale of USDC is the sixth power.
LEMMA SixthPower ==
  PowerOfTen(6) = USDC_SCALE
<1>1. PowerOfTen(2 + 1) = 10 * PowerOfTen(2)
  BY PowerOfTenStep
<1>2. PowerOfTen(3 + 1) = 10 * PowerOfTen(3)
  BY PowerOfTenStep
<1>3. PowerOfTen(4 + 1) = 10 * PowerOfTen(4)
  BY PowerOfTenStep
<1>4. PowerOfTen(5 + 1) = 10 * PowerOfTen(5)
  BY PowerOfTenStep
<1> QED BY <1>1, <1>2, <1>3, <1>4, SmallPowers, SMT DEF USDC_SCALE

\* A fraction padded to six places is read as millionths.
LEMMA PaddedValue ==
  ASSUME NEW frac \in Digits, Len(frac) =< 6
  PROVE  /\ DigitsValue(Padded(frac))
              = DigitsValue(frac) * PowerOfTen(6 - Len(frac))
         /\ DigitsValue(Padded(frac)) \in Nat
         /\ DigitsValue(Padded(frac)) < USDC_SCALE
<1>1. PICK k \in Nat : k = 6 - Len(frac)
  <2>1. Len(frac) \in Nat
    BY DEF Digits
  <2>2. 6 - Len(frac) \in Nat
    BY <2>1
  <2> QED BY <2>2
<1>2. Zeros(k) \in Digits /\ Len(Zeros(k)) = k /\ DigitsValue(Zeros(k)) = 0
  BY ZerosFacts, ValueOfZeros
<1>3. Padded(frac) = frac \o Zeros(k)
  BY <1>1 DEF Padded
<1>4. /\ frac \o Zeros(k) \in Digits /\ Len(frac \o Zeros(k)) = 6
      /\ DigitsValue(frac \o Zeros(k)) = DigitsValue(frac) * PowerOfTen(k) + 0
  BY <1>1, <1>2, ConcatFacts, ValueOfConcat
<1>5. /\ DigitsValue(frac \o Zeros(k)) \in Nat
      /\ DigitsValue(frac \o Zeros(k)) < PowerOfTen(6)
  <2>1. 0 \in 0 .. 9
    OBVIOUS
  <2> QED BY <1>4, <2>1, ValueOfAppend, ValueIsBounded
<1>6. DigitsValue(frac) * PowerOfTen(k) \in Nat
  <2>1. DigitsValue(frac) \in Nat /\ PowerOfTen(k) \in Nat
    <3>1. 0 \in 0 .. 9
      OBVIOUS
    <3> QED BY <3>1, ValueOfAppend, PowerOfTenStep
  <2> QED BY <2>1
<1> QED BY <1>1, <1>3, <1>4, <1>5, <1>6, SixthPower, SMT

\* The text is an amount.
IsAmount(text) == IsDecimal(text) /\ Len(text.frac) =< 6

\* The parts of a text, and the comparisons the parsers make on them.
LEMMA TextFacts ==
  ASSUME NEW text \in DecimalText
  PROVE  /\ text.whole \in Digits /\ text.frac \in Digits
         /\ DigitsValue(text.whole) \in Nat /\ DigitsValue(text.frac) \in Nat
         /\ Len(text.frac) \in Nat
         /\ (text.points > 1) = ~ (text.points =< 1)
         /\ (Len(text.frac) > 6) = ~ (Len(text.frac) =< 6)
<1>1. text.whole \in Digits /\ text.frac \in Digits /\ text.points \in Nat
  BY Zenon DEF DecimalText
<1>2. Len(text.frac) \in Nat
  BY <1>1 DEF Digits
<1>3. DigitsValue(text.whole) \in Nat /\ DigitsValue(text.frac) \in Nat
  BY <1>1, ValueIsNatural, Zenon
<1> QED BY <1>1, <1>2, <1>3

\* Both parsers read an amount in units, and refuse it only for its range.
LEMMA AmountIsParsed ==
  ASSUME NEW text \in DecimalText, IsAmount(text),
         NEW whole \in Nat, whole = DigitsValue(text.whole),
         NEW frac \in Nat, frac = DigitsValue(Padded(text.frac)), frac < USDC_SCALE
  PROVE  /\ ParseUsdcAtomicDecimal(text) =
              IF whole * USDC_SCALE + frac =< U256Max
              THEN Ok(whole * USDC_SCALE + frac) ELSE Err("allowance")
         /\ ParseDecimal(text) =
              IF whole * USDC_SCALE + frac \in 1 .. U128Max
              THEN Ok(whole * USDC_SCALE + frac) ELSE Err("InvalidAmount")
<1> DEFINE units == whole * USDC_SCALE + frac
<1>1. /\ text.sign = "" /\ text.clean /\ ~ (text.points > 1)
      /\ ~ (text.whole = <<>> /\ text.frac = <<>>) /\ ~ (Len(text.frac) > 6)
  BY TextFacts DEF IsAmount, IsDecimal
<1>2. ASSUME NEW m \in Nat, units =< m
      PROVE  ~ (whole > m \div USDC_SCALE) /\ whole =< m \div USDC_SCALE /\ whole =< m
  BY <1>2 DEF USDC_SCALE
<1>3. units \in Nat /\ U128Max \in Nat /\ U256Max \in Nat
  BY WidthAssumption DEF USDC_SCALE
<1> HIDE DEF units
<1>4. ParseUsdcAtomicDecimal(text) =
        IF whole > U256Max \div USDC_SCALE \/ units > U256Max
        THEN Err("allowance") ELSE Ok(units)
  BY <1>1, Zenon DEF ParseUsdcAtomicDecimal, units
<1>5. ParseUsdcFraction(text.frac) = [ok |-> TRUE, val |-> frac]
  BY <1>1 DEF ParseUsdcFraction, Ok
<1>6. ParseUsdcFraction(text.frac).ok /\ ParseUsdcFraction(text.frac).val = frac
  BY <1>5
<1>7. ParseDecimal(text) =
        IF ~ (/\ whole =< U128Max /\ whole =< U128Max \div USDC_SCALE
              /\ units =< U128Max) \/ units = 0
        THEN Err("InvalidAmount") ELSE Ok(units)
  BY <1>1, <1>6, Zenon DEF ParseDecimal, units
<1>8. units > U256Max <=> ~ (units =< U256Max)
  BY <1>3
<1>9. units \in 1 .. U128Max <=> units =< U128Max /\ units # 0
  BY <1>3
<1>10. ParseUsdcAtomicDecimal(text) =
         IF units =< U256Max THEN Ok(units) ELSE Err("allowance")
  BY <1>2, <1>3, <1>4, <1>8
<1>11. ParseDecimal(text) =
         IF units \in 1 .. U128Max THEN Ok(units) ELSE Err("InvalidAmount")
  BY <1>2, <1>3, <1>7, <1>9
<1> QED BY <1>10, <1>11 DEF units

\* Both parsers refuse every other text.
LEMMA OtherTextsAreRefused ==
  ASSUME NEW text \in DecimalText, ~ IsAmount(text)
  PROVE  ~ ParseUsdcAtomicDecimal(text).ok /\ ~ ParseDecimal(text).ok
<1>1. \/ ~ (text.sign = "") \/ ~ text.clean \/ text.points > 1
      \/ text.whole = <<>> /\ text.frac = <<>>
      \/ Len(text.frac) > 6
  BY TextFacts DEF IsAmount, IsDecimal
<1>2. ParseUsdcAtomicDecimal(text) = Err("allowance")
  BY <1>1, Zenon DEF ParseUsdcAtomicDecimal
<1>3. Len(text.frac) > 6 => ~ ParseUsdcFraction(text.frac).ok
  BY DEF ParseUsdcFraction, Err
<1>4. ParseDecimal(text) = Err("InvalidAmount")
  BY <1>1, <1>3, Zenon DEF ParseDecimal
<1> QED BY <1>2, <1>4 DEF Err

\* UsdcAmount::parse_decimal and parse_usdc_atomic_decimal accept exactly the
\* decimal texts of at most six places in their range, and read the same units
\* from a text both accept: for every text, of any length.
THEOREM TextsMeanTheirAmount ==
  ASSUME NEW text \in DecimalText
  PROVE  TextMeansAmount(text)
<1> DEFINE units == DigitsValue(text.whole) * USDC_SCALE
                      + DigitsValue(text.frac) * PowerOfTen(6 - Len(text.frac))
           one   == ParseDecimal(text)
           two   == ParseUsdcAtomicDecimal(text)
<1>1. CASE IsAmount(text)
  <2>1. PICK whole \in Nat : whole = DigitsValue(text.whole)
    BY TextFacts
  <2>2. PICK frac \in Nat :
          /\ frac = DigitsValue(Padded(text.frac)) /\ frac < USDC_SCALE
          /\ frac = DigitsValue(text.frac) * PowerOfTen(6 - Len(text.frac))
    BY <1>1, TextFacts, PaddedValue DEF IsAmount
  <2>3. units = whole * USDC_SCALE + frac
    BY <2>1, <2>2
  <2>4. two = IF units =< U256Max THEN Ok(units) ELSE Err("allowance")
    BY <1>1, <2>1, <2>2, <2>3, AmountIsParsed
  <2>5. one = IF units \in 1 .. U128Max THEN Ok(units) ELSE Err("InvalidAmount")
    BY <1>1, <2>1, <2>2, <2>3, AmountIsParsed
  <2> HIDE DEF one, two, units
  <2>6. (two.ok <=> units =< U256Max) /\ (two.ok => two.val = units)
    BY <2>4 DEF Ok, Err
  <2>7. (one.ok <=> units \in 1 .. U128Max) /\ (one.ok => one.val = units)
    BY <2>5 DEF Ok, Err
  <2> QED BY <1>1, <2>6, <2>7 DEF TextMeansAmount, IsAmount, one, two, units
<1>2. CASE ~ IsAmount(text)
  BY <1>2, OtherTextsAreRefused DEF TextMeansAmount, IsAmount
<1> QED BY <1>1, <1>2

\* A number has a digit.
LEMMA DecimalIsNotEmpty ==
  ASSUME NEW value \in Nat
  PROVE  DecimalDigits(value) # <<>>
<1>1. Len(<<>>) = 0
  OBVIOUS
<1> QED BY <1>1, DecimalIsRead

\* What the printers write has one point at most.
LEMMA PointsAreFew ==
  \A points \in {0, 1} : points \in Nat /\ points =< 1
OBVIOUS

\* What the printers write.
Printed(whole, points, frac) == Text("", DecimalDigits(whole), points, frac, TRUE)

\* What they write is a decimal number of the same whole and fraction.
LEMMA PlainText ==
  ASSUME NEW whole \in Nat, NEW points \in {0, 1}, NEW frac \in Digits,
         NEW text, text = Printed(whole, points, frac)
  PROVE  /\ text \in DecimalText /\ IsDecimal(text)
         /\ DigitsValue(text.whole) = whole /\ text.frac = frac
<1>1. /\ text.sign = "" /\ text.whole = DecimalDigits(whole) /\ text.points = points
      /\ text.frac = frac /\ text.clean = TRUE
      /\ (points \in Nat /\ DecimalDigits(whole) \in Digits) => text \in DecimalText
  BY Zenon DEF Printed, Text, DecimalText
<1>2. /\ DecimalDigits(whole) \in Digits /\ DigitsValue(DecimalDigits(whole)) = whole
      /\ DecimalDigits(whole) # <<>>
  BY DecimalIsRead, DecimalIsNotEmpty, Zenon
<1>3. points \in Nat /\ points =< 1
  BY PointsAreFew, Zenon
<1> QED BY <1>1, <1>2, <1>3, Zenon DEF IsDecimal

\* The zeros a printer trims from six places are those the parsers pad with.
LEMMA TrimmedIsRestored ==
  ASSUME NEW digits \in Digits, Len(digits) = 6
  PROVE  Len(TrimZeros(digits)) =< 6 /\ Padded(TrimZeros(digits)) = digits
<1> DEFINE trimmed == TrimZeros(digits)
<1>1. /\ Len(trimmed) =< Len(digits)
      /\ trimmed \o Zeros(Len(digits) - Len(trimmed)) = digits
  BY TrimmedIsPadded
<1> HIDE DEF trimmed
<1>2. Len(trimmed) =< 6 /\ trimmed \o Zeros(6 - Len(trimmed)) = digits
  BY <1>1, Zenon
<1>3. Padded(trimmed) = digits
  BY <1>2, Zenon DEF Padded
<1> QED BY <1>2, <1>3, Zenon DEF trimmed

\* Every amount in range is read as it was printed: Display and
\* format_usdc_atomic against the two parsers.
THEOREM PrintedAmountIsRead ==
  ASSUME NEW units \in Nat
  PROVE  AmountIsRead(units)
<1> DEFINE whole == units \div USDC_SCALE
           rest  == units % USDC_SCALE
<1>0. PICK text : text = FormatUsdcAtomic(units)
  OBVIOUS
<1>1. /\ whole \in Nat /\ rest \in Nat /\ rest < USDC_SCALE
      /\ whole * USDC_SCALE + rest = units
  BY DEF USDC_SCALE
<1> HIDE DEF whole, rest
<1>2. /\ text \in DecimalText /\ IsAmount(text)
      /\ DigitsValue(text.whole) = whole
      /\ DigitsValue(Padded(text.frac)) = rest
  <2>1. CASE rest = 0
    <3>1. text = Printed(whole, 0, <<>>)
      BY <1>0, <2>1, Zenon DEF FormatUsdcAtomic, Printed, whole, rest
    <3>2. <<>> \in Digits /\ Len(<<>>) =< 6 /\ 0 \in {0, 1} /\ Padded(<<>>) = Zeros(6)
      <4>1. Len(<<>>) = 0 /\ 6 - 0 = 6 /\ <<>> \o Zeros(6) = Zeros(6)
        BY ZerosFacts DEF Digits
      <4> QED BY <4>1, ValueOfEmpty DEF Padded
    <3>3. /\ text \in DecimalText /\ IsDecimal(text)
          /\ DigitsValue(text.whole) = whole /\ text.frac = <<>>
      BY <1>1, <3>1, <3>2, PlainText, Zenon
    <3>4. DigitsValue(Padded(text.frac)) = 0
      <4>1. DigitsValue(Zeros(6)) = 0
        BY ValueOfZeros
      <4> QED BY <3>2, <3>3, <4>1, Zenon
    <3> QED BY <2>1, <3>2, <3>3, <3>4, Zenon DEF IsAmount
  <2>2. CASE rest # 0
    <3>1. PICK digits \in Digits :
            /\ digits = DigitsOf(rest, 6) /\ Len(digits) = 6
            /\ DigitsValue(digits) = rest
      <4>1. rest < PowerOfTen(6)
        BY <1>1, SixthPower, Zenon
      <4>2. 6 \in Nat \ {0}
        OBVIOUS
      <4> QED BY <1>1, <4>1, <4>2, DigitsOfIsRead, Zenon
    <3>2. PICK frac \in Digits :
            frac = TrimZeros(digits) /\ Len(frac) =< 6 /\ Padded(frac) = digits
      BY <3>1, TrimmedIsRestored, TrimmedIsPadded, Zenon
    <3>3. text = Printed(whole, 1, frac)
      BY <1>0, <2>2, <3>1, <3>2, Zenon DEF FormatUsdcAtomic, Printed, whole, rest
    <3>4. /\ text \in DecimalText /\ IsDecimal(text)
          /\ DigitsValue(text.whole) = whole /\ text.frac = frac
      BY <1>1, <3>3, PlainText
    <3> QED BY <3>1, <3>2, <3>4, Zenon DEF IsAmount
  <2> QED BY <2>1, <2>2, Zenon
<1>3. /\ ParseUsdcAtomicDecimal(text) =
           IF units =< U256Max THEN Ok(units) ELSE Err("allowance")
      /\ ParseDecimal(text) =
           IF units \in 1 .. U128Max THEN Ok(units) ELSE Err("InvalidAmount")
  BY <1>1, <1>2, AmountIsParsed
<1>4. units \in 0 .. U256Max => units =< U256Max
  BY SMT
<1>5. /\ units \in 1 .. U128Max => ParseDecimal(text) = Ok(units)
      /\ units \in 0 .. U256Max => ParseUsdcAtomicDecimal(text) = Ok(units)
  BY <1>3, <1>4, Zenon
<1> QED BY <1>0, <1>5, Zenon DEF AmountIsRead

\* A quotient rounded up: one more than the whole part when something is left.
LEMMA CeilDivSplit ==
  ASSUME NEW d \in Nat \ {0}, NEW q \in Nat, NEW t \in Nat, t < d
  PROVE  CeilDiv(q * d + t, d) = q + (IF t = 0 THEN 0 ELSE 1)
<1>1. PICK n \in Nat : n = q * d + t
  <2>1. q * d \in Nat
    OBVIOUS
  <2> QED BY <2>1
<1>2. PICK c \in Nat : c = CeilDiv(n, d)
  BY <1>1, CeilDivNat
<1>3. PICK r \in Nat : r = q + (IF t = 0 THEN 0 ELSE 1)
  OBVIOUS
<1>4. c =< r
  <2>1. n =< d * r
    <3>1. d * (q + 1) = q * d + d /\ d * q = q * d /\ q * d \in Nat
      OBVIOUS
    <3> QED BY <1>1, <1>3, <3>1
  <2> QED BY <1>1, <1>2, <1>3, <2>1, CeilDivIsLeast
<1>5. ~ (c =< r - 1)
  <2>1. CASE r = 0
    BY <2>1
  <2>2. CASE r # 0
    <3>1. r - 1 \in Nat
      BY <2>2
    <3>2. ~ (n =< d * (r - 1))
      <4>1. d * q = q * d /\ d * (q - 1) = q * d - d /\ q * d \in Nat
        OBVIOUS
      <4>2. r - 1 = IF t = 0 THEN q - 1 ELSE q
        BY <1>3
      <4> QED BY <1>1, <1>3, <4>1, <4>2
    <3> QED BY <1>1, <1>2, <3>1, <3>2, CeilDivIsLeast
  <2> QED BY <2>1, <2>2
<1> QED BY <1>1, <1>2, <1>3, <1>4, <1>5

\* The first two places of a fraction, and one more when anything follows them,
\* are its hundredths rounded up.
LEMMA FeeTotal ==
  ASSUME NEW frac \in Digits, NEW whole \in Nat
  PROVE  /\ DigitsValue(SubSeq(frac \o Zeros(2), 1, 2)) \in Nat
         /\ CeilDiv(100 * (whole * PowerOfTen(Len(frac)) + DigitsValue(frac)),
                    PowerOfTen(Len(frac)))
              = whole * 100 + DigitsValue(SubSeq(frac \o Zeros(2), 1, 2))
                  + (IF \E i \in 3 .. Len(frac) : frac[i] # 0 THEN 1 ELSE 0)
<1>1. PICK L \in Nat : L = Len(frac)
  BY DEF Digits
<1>2. PICK padded \in Digits :
        /\ padded = frac \o Zeros(2) /\ Len(padded) = L + 2
        /\ \A i \in 1 .. L + 2 : padded[i] = IF i =< L THEN frac[i] ELSE 0
        /\ DigitsValue(padded) = 100 * DigitsValue(frac)
  <2>1. PICK zeros \in Digits :
          /\ zeros = Zeros(2) /\ Len(zeros) = 2 /\ DigitsValue(zeros) = 0
          /\ zeros[1] = 0 /\ zeros[2] = 0
    <3>1. Zeros(2)[1] = 0 /\ Zeros(2)[2] = 0
      BY DEF Zeros
    <3>2. 2 \in Nat
      OBVIOUS
    <3>3. Zeros(2) \in Digits /\ Len(Zeros(2)) = 2 /\ DigitsValue(Zeros(2)) = 0
      BY <3>2, ZerosFacts, ValueOfZeros
    <3> QED BY <3>1, <3>3, Zenon
  <2>2. /\ frac \o zeros \in Digits /\ Len(frac \o zeros) = L + 2
        /\ \A i \in 1 .. L + 2 :
             (frac \o zeros)[i] = IF i =< L THEN frac[i] ELSE zeros[i - L]
    <3>1. Len(frac) + Len(zeros) = L + 2
      BY <1>1, <2>1, Zenon
    <3>2. /\ frac \o zeros \in Digits /\ Len(frac \o zeros) = Len(frac) + Len(zeros)
          /\ \A i \in 1 .. Len(frac) + Len(zeros) :
               (frac \o zeros)[i] =
                 IF i =< Len(frac) THEN frac[i] ELSE zeros[i - Len(frac)]
      BY ConcatFacts, Zenon
    <3> QED BY <1>1, <3>1, <3>2, Zenon
  <2>3. DigitsValue(frac \o zeros) = 100 * DigitsValue(frac)
    <3>1. DigitsValue(frac \o zeros) =
            DigitsValue(frac) * PowerOfTen(Len(zeros)) + DigitsValue(zeros)
      BY ValueOfConcat, Zenon
    <3>4. DigitsValue(frac \o zeros) = DigitsValue(frac) * 100 + 0
      BY <2>1, <3>1, SmallPowers, Zenon
    <3>2. DigitsValue(frac) \in Nat
      BY ValueIsNatural
    <3> QED BY <3>2, <3>4, SMT
  <2>4. ASSUME NEW i \in 1 .. L + 2
        PROVE  (frac \o zeros)[i] = IF i =< L THEN frac[i] ELSE 0
    <3>1. ~ (i =< L) => i - L = 1 \/ i - L = 2
      BY <1>1
    <3> QED BY <2>1, <2>2, <3>1, Zenon
  <2> QED BY <2>1, <2>2, <2>3, <2>4, Zenon
<1>3. PICK head \in Digits, tail \in Digits :
        /\ head = SubSeq(padded, 1, 2) /\ Len(tail) = L
        /\ padded = head \o tail
        /\ \A i \in 1 .. L : tail[i] = padded[i + 2]
  <2> DEFINE h == SubSeq(padded, 1, 2)
             t == SubSeq(padded, 3, L + 2)
  <2>1. /\ h \in Digits /\ Len(h) = 2
        /\ h[1] = padded[1] /\ h[2] = padded[2]
    BY <1>2 DEF Digits
  <2>2. /\ t \in Digits /\ Len(t) = L
        /\ \A i \in 1 .. L : t[i] = padded[i + 2]
    <3>1. /\ Len(padded) = L + 2 /\ padded \in Seq(0 .. 9)
      BY <1>2 DEF Digits
    <3>2. Len(t) = L /\ \A i \in 1 .. L : t[i] = padded[i + 2]
      BY <3>1
    <3>3. t \in Seq(0 .. 9)
      BY <3>1
    <3> QED BY <3>2, <3>3 DEF Digits
  <2> HIDE DEF h, t
  <2>3. padded = h \o t
    <3>1. /\ h \o t \in Digits /\ Len(h \o t) = 2 + L
          /\ \A i \in 1 .. 2 + L :
               (h \o t)[i] = IF i =< 2 THEN h[i] ELSE t[i - 2]
      <4>1. Len(h) + Len(t) = 2 + L
        BY <2>1, <2>2, Zenon
      <4>2. /\ h \o t \in Digits /\ Len(h \o t) = Len(h) + Len(t)
            /\ \A i \in 1 .. Len(h) + Len(t) :
                 (h \o t)[i] = IF i =< Len(h) THEN h[i] ELSE t[i - Len(h)]
        BY <2>1, <2>2, ConcatFacts, Zenon
      <4> QED BY <2>1, <4>1, <4>2, Zenon
    <3>3. 2 + L = L + 2
      OBVIOUS
    <3>2. ASSUME NEW i \in 1 .. L + 2 PROVE padded[i] = (h \o t)[i]
      <4>1. (h \o t)[i] = IF i =< 2 THEN h[i] ELSE t[i - 2]
        BY <3>1, <3>3, Zenon
      <4>2. i =< 2 => i = 1 \/ i = 2
        OBVIOUS
      <4>3. ~ (i =< 2) => i - 2 \in 1 .. L /\ (i - 2) + 2 = i
        OBVIOUS
      <4> QED BY <2>1, <2>2, <4>1, <4>2, <4>3
    <3> QED BY <1>2, <3>1, <3>2, <3>3, SameDigits, Zenon
  <2> QED BY <2>1, <2>2, <2>3 DEF h
<1>4. PICK two \in Nat, rest \in Nat, scale \in Nat \ {0}, value \in Nat :
        /\ two = DigitsValue(head) /\ rest = DigitsValue(tail)
        /\ scale = PowerOfTen(L) /\ value = DigitsValue(frac)
  <2>1. 0 \in 0 .. 9
    OBVIOUS
  <2>2. PowerOfTen(L) \in Nat \ {0}
    BY PowersOfTen
  <2> QED BY <2>1, <2>2, ValueOfAppend
<1>5. 100 * value = two * scale + rest
  BY <1>2, <1>3, <1>4, ValueOfConcat
<1>6. rest < scale /\ (rest = 0 <=> \A i \in 1 .. L : tail[i] = 0)
  BY <1>3, <1>4, ValueIsBounded
<1>7. rest = 0 <=> ~ \E i \in 3 .. L : frac[i] # 0
  <2>1. ASSUME rest = 0, NEW i \in 3 .. L PROVE frac[i] = 0
    <3>1. i - 2 \in 1 .. L /\ (i - 2) + 2 = i /\ i \in 1 .. L + 2 /\ i =< L
      BY <1>1
    <3> QED BY <1>2, <1>3, <1>6, <2>1, <3>1
  <2>2. ASSUME \A i \in 3 .. L : frac[i] = 0, NEW i \in 1 .. L PROVE tail[i] = 0
    <3>1. i + 2 \in 1 .. L + 2 /\ (i + 2 =< L => i + 2 \in 3 .. L)
      BY <1>1
    <3> QED BY <1>2, <1>3, <2>2, <3>1
  <2> QED BY <1>6, <2>1, <2>2
<1>8. 100 * (whole * scale + value) = (whole * 100 + two) * scale + rest
  <2>1. 100 * (whole * scale + value) = 100 * (whole * scale) + 100 * value
    BY <1>4
  <2>2. (whole * 100 + two) * scale = 100 * (whole * scale) + two * scale
    BY <1>4
  <2>3. 100 * (whole * scale) \in Nat /\ two * scale \in Nat
    BY <1>4
  <2> QED BY <1>5, <2>1, <2>2, <2>3
<1>9. CeilDiv(100 * (whole * scale + value), scale)
        = (whole * 100 + two) + (IF rest = 0 THEN 0 ELSE 1)
  <2>1. PICK q \in Nat : q = whole * 100 + two
    OBVIOUS
  <2>2. CeilDiv(q * scale + rest, scale) = q + (IF rest = 0 THEN 0 ELSE 1)
    BY <1>6, CeilDivSplit, Zenon
  <2> QED BY <1>8, <2>1, <2>2, Zenon
<1>10. CeilDiv(100 * (whole * scale + value), scale)
        = whole * 100 + two + (IF \E i \in 3 .. L : frac[i] # 0 THEN 1 ELSE 0)
  BY <1>7, <1>9, Zenon
<1> QED BY <1>1, <1>2, <1>3, <1>4, <1>10, Zenon

\* parse_fee_hundredths refuses a decimal number for its range only.
LEMMA FeeIsParsed ==
  ASSUME NEW text \in DecimalText, IsDecimal(text),
         NEW whole \in Nat, whole = DigitsValue(text.whole),
         NEW two \in Nat, two = DigitsValue(SubSeq(text.frac \o Zeros(2), 1, 2)),
         NEW up \in {0, 1}, up = IF \E i \in 3 .. Len(text.frac) : text.frac[i] # 0
                               THEN 1 ELSE 0
  PROVE  ParseFeeHundredths(text) =
           IF whole * 100 + two + up =< U32Max
           THEN Ok(whole * 100 + two + up) ELSE Err("fee")
<1> DEFINE total == whole * 100 + two + up
<1>1. /\ text.sign = "" /\ text.clean /\ ~ (text.points > 1)
      /\ ~ (text.whole = <<>> /\ text.frac = <<>>)
  BY TextFacts DEF IsDecimal
<1>2. total \in Nat /\ U32Max \in Nat
  BY WidthAssumption
<1>3. total =< U32Max => ~ (whole > U32Max \div 100)
  BY <1>2
<1>4. total > U32Max <=> ~ (total =< U32Max)
  BY <1>2
<1> HIDE DEF total
<1>5. ParseFeeHundredths(text) =
        IF whole > U32Max \div 100 \/ total > U32Max THEN Err("fee") ELSE Ok(total)
  BY <1>1, Zenon DEF ParseFeeHundredths, total
<1>6. ParseFeeHundredths(text) = IF total =< U32Max THEN Ok(total) ELSE Err("fee")
  BY <1>3, <1>4, <1>5
<1> QED BY <1>6 DEF total

\* parse_fee_hundredths returns the hundredths of a basis point rounded up, and
\* refuses exactly the texts that are no decimal numbers or exceed u32: for
\* every text, of any length.
THEOREM ParsedFeeRoundsUp ==
  ASSUME NEW text \in DecimalText
  PROVE  FeeRoundsUp(text)
<1> DEFINE fee   == ParseFeeHundredths(text)
           scale == PowerOfTen(Len(text.frac))
           ceil  == CeilDiv(100 * (DigitsValue(text.whole) * scale
                                     + DigitsValue(text.frac)), scale)
<1>1. CASE IsDecimal(text)
  <2>0. text.frac \in Digits /\ DigitsValue(text.whole) \in Nat
    BY TextFacts, Zenon
  <2>1. PICK whole \in Nat, two \in Nat, up \in {0, 1} :
          /\ whole = DigitsValue(text.whole)
          /\ two = DigitsValue(SubSeq(text.frac \o Zeros(2), 1, 2))
          /\ up = IF \E i \in 3 .. Len(text.frac) : text.frac[i] # 0 THEN 1 ELSE 0
          /\ ceil = whole * 100 + two + up
    <3>1. PICK whole \in Nat : whole = DigitsValue(text.whole)
      BY <2>0
    <3>2. PICK frac \in Digits : frac = text.frac
      BY <2>0
    <3>3. PICK two \in Nat : two = DigitsValue(SubSeq(frac \o Zeros(2), 1, 2))
      BY FeeTotal, Zenon
    <3>4. PICK up \in {0, 1} :
            up = IF \E i \in 3 .. Len(frac) : frac[i] # 0 THEN 1 ELSE 0
      OBVIOUS
    <3>5. CeilDiv(100 * (whole * PowerOfTen(Len(frac)) + DigitsValue(frac)),
                  PowerOfTen(Len(frac)))
            = whole * 100 + DigitsValue(SubSeq(frac \o Zeros(2), 1, 2))
                + (IF \E i \in 3 .. Len(frac) : frac[i] # 0 THEN 1 ELSE 0)
      BY FeeTotal, Zenon
    <3> QED BY <3>1, <3>2, <3>3, <3>4, <3>5
  <2>2. fee = IF ceil =< U32Max THEN Ok(ceil) ELSE Err("fee")
    BY <1>1, <2>1, FeeIsParsed
  <2> HIDE DEF fee, ceil
  <2>3. (fee.ok <=> ceil =< U32Max) /\ (fee.ok => fee.val = ceil)
    BY <2>2 DEF Ok, Err
  <2> QED BY <1>1, <2>3 DEF FeeRoundsUp, fee, ceil
<1>2. CASE ~ IsDecimal(text)
  <2>1. \/ ~ (text.sign = "") \/ ~ text.clean \/ text.points > 1
        \/ text.whole = <<>> /\ text.frac = <<>>
    BY <1>2, TextFacts DEF IsDecimal
  <2>2. fee = Err("fee")
    BY <2>1, Zenon DEF ParseFeeHundredths
  <2> HIDE DEF fee
  <2>3. ~ fee.ok
    BY <2>2 DEF Err
  <2> QED BY <1>2, <2>3 DEF FeeRoundsUp, fee
<1> QED BY <1>1, <1>2

\* The two places of a fee that was trimmed are found again.
LEMMA FirstTwo ==
  ASSUME NEW kept \in Digits, NEW k \in Nat, k = 2 - Len(kept), Len(kept) \in 0 .. 2,
         NEW digits \in Digits, digits = kept \o Zeros(k), Len(digits) = 2
  PROVE  SubSeq(kept \o Zeros(2), 1, 2) = digits
<1>1. PICK n \in 0 .. 2 : n = Len(kept) /\ k = 2 - n
  BY Zenon
<1>2. PICK two \in Digits, rest \in Digits :
        /\ two = Zeros(2) /\ Len(two) = 2 /\ \A i \in 1 .. 2 : two[i] = 0
        /\ rest = Zeros(k) /\ Len(rest) = k /\ \A i \in 1 .. k : rest[i] = 0
  <2>1. 2 \in Nat /\ (\A m \in Nat : \A i \in 1 .. m : Zeros(m)[i] = 0)
    BY DEF Zeros
  <2>2. Zeros(2) \in Digits /\ Len(Zeros(2)) = 2  BY <2>1, ZerosFacts, Zenon
  <2>3. Zeros(k) \in Digits /\ Len(Zeros(k)) = k  BY ZerosFacts, Zenon
  <2>4. \A i \in 1 .. 2 : Zeros(2)[i] = 0  BY <2>1, Zenon
  <2>5. \A i \in 1 .. k : Zeros(k)[i] = 0  BY <2>1, Zenon
  <2> QED BY <2>2, <2>3, <2>4, <2>5, Zenon
<1>3. PICK long \in Digits :
        /\ long = kept \o two /\ Len(long) = n + 2
        /\ \A i \in 1 .. n + 2 : long[i] = IF i =< n THEN kept[i] ELSE two[i - n]
  <2>1. n + 2 = Len(kept) + Len(two)
    BY <1>1, <1>2, Zenon
  <2>2. /\ kept \o two \in Digits /\ Len(kept \o two) = Len(kept) + Len(two)
        /\ \A i \in 1 .. Len(kept) + Len(two) :
             (kept \o two)[i] = IF i =< Len(kept) THEN kept[i] ELSE two[i - Len(kept)]
    BY ConcatFacts, Zenon
  <2> QED BY <1>1, <2>1, <2>2, Zenon
<1>4. \A i \in 1 .. n + k : digits[i] = IF i =< n THEN kept[i] ELSE rest[i - n]
  <2>1. n + k = Len(kept) + Len(rest) /\ digits = kept \o rest
    BY <1>1, <1>2, Zenon
  <2>2. \A i \in 1 .. Len(kept) + Len(rest) :
          (kept \o rest)[i] = IF i =< Len(kept) THEN kept[i] ELSE rest[i - Len(kept)]
    BY ConcatFacts, Zenon
  <2> QED BY <1>1, <2>1, <2>2, Zenon
<1>5. PICK front \in Digits :
        /\ front = SubSeq(long, 1, 2) /\ Len(front) = 2
        /\ \A i \in 1 .. 2 : front[i] = long[i]
  <2>1. \A s \in Seq(0 .. 9) : Len(s) >= 2 =>
          /\ SubSeq(s, 1, 2) \in Seq(0 .. 9) /\ Len(SubSeq(s, 1, 2)) = 2
          /\ \A i \in 1 .. 2 : SubSeq(s, 1, 2)[i] = s[i]
    OBVIOUS
  <2>2. Len(long) >= 2
    <3>1. n + 2 >= 2
      OBVIOUS
    <3> QED BY <1>3, <3>1, Zenon
  <2>3. /\ SubSeq(long, 1, 2) \in Digits /\ Len(SubSeq(long, 1, 2)) = 2
        /\ \A i \in 1 .. 2 : SubSeq(long, 1, 2)[i] = long[i]
    BY <2>1, <2>2, Zenon DEF Digits
  <2> QED BY <2>3, Zenon
<1>6. ASSUME NEW i \in 1 .. 2
      PROVE  front[i] = digits[i]
  <2>1. /\ i \in 1 .. n + 2 /\ i \in 1 .. n + k
        /\ ~ (i =< n) => i - n \in 1 .. 2 /\ i - n \in 1 .. k
    <3>1. \A a \in 1 .. 2, b \in 0 .. 2 :
            /\ a \in 1 .. b + 2 /\ a \in 1 .. b + (2 - b)
            /\ ~ (a =< b) => a - b \in 1 .. 2 /\ a - b \in 1 .. 2 - b
      OBVIOUS
    <3> QED BY <1>1, <3>1, Zenon
  <2>2. front[i] = IF i =< n THEN kept[i] ELSE two[i - n]
    BY <1>3, <1>5, <2>1, Zenon
  <2>3. digits[i] = IF i =< n THEN kept[i] ELSE rest[i - n]
    BY <1>4, <2>1, Zenon
  <2>4. ~ (i =< n) => two[i - n] = 0 /\ rest[i - n] = 0
    BY <1>2, <2>1, Zenon
  <2> QED BY <2>2, <2>3, <2>4, Zenon
<1>7. /\ Len(front) = Len(digits)
      /\ \A i \in 1 .. Len(front) : front[i] = digits[i]
  BY <1>5, <1>6, Zenon
<1>8. front = digits
  BY <1>7, SameDigits, Zenon
<1> QED BY <1>2, <1>3, <1>5, <1>8, Zenon

\* Every fee is read from JSON as it was written to it (Serialize and
\* Deserialize of FeeBps).
THEOREM FeeSurvivesJson ==
  ASSUME NEW fee \in 0 .. U32Max
  PROVE  DeserializeFee(SerializeFee(fee)) = Ok(fee)
<1> DEFINE whole == fee \div 100
           rest  == fee % 100
           json  == SerializeFee(fee)
<1>1. /\ whole \in Nat /\ rest \in Nat /\ rest < 100 /\ whole * 100 + rest = fee
      /\ whole =< U32Max \div 100 /\ U32Max \in Nat
  BY WidthAssumption
<1> HIDE DEF whole, rest
<1>2. CASE rest = 0
  <2>1. json = [type |-> "unsigned", value |-> whole]
    BY <1>2 DEF SerializeFee, WholeBps, whole, rest
  <2>2. json.type = "unsigned" /\ json.value = whole
    BY <2>1
  <2> HIDE DEF json
  <2>3. DeserializeFee(json) = Ok(whole * 100)
    BY <1>1, <2>2 DEF DeserializeFee
  <2> QED BY <1>1, <1>2, <2>3 DEF json
<1>3. CASE rest # 0
  <2>1. PICK digits \in Digits :
          /\ digits = DigitsOf(rest, 2) /\ Len(digits) = 2 /\ DigitsValue(digits) = rest
    <3>1. 2 \in Nat \ {0} /\ rest < PowerOfTen(2)
      BY <1>1, SmallPowers
    <3> QED BY <1>1, <3>1, DigitsOfIsRead, Zenon
  <2>2. PICK kept \in Digits, k \in Nat :
          /\ kept = TrimZeros(digits) /\ k = 2 - Len(kept) /\ Len(kept) \in 0 .. 2
          /\ digits = kept \o Zeros(k)
    <3>1. PICK kept \in Digits :
            /\ kept = TrimZeros(digits) /\ Len(kept) =< 2
            /\ digits = kept \o Zeros(2 - Len(kept))
      BY <2>1, TrimmedIsPadded, Zenon
    <3>2. Len(kept) \in 0 .. 2 /\ 2 - Len(kept) \in Nat
      <4>1. Len(kept) \in Nat
        BY DEF Digits
      <4>2. \A n \in Nat : n =< 2 => n \in 0 .. 2 /\ 2 - n \in Nat
        OBVIOUS
      <4> QED BY <3>1, <4>1, <4>2, Zenon
    <3>3. PICK k \in Nat : k = 2 - Len(kept)
      BY <3>2, Zenon
    <3> QED BY <3>1, <3>2, <3>3, Zenon
  <2>3. PICK text : text = Printed(whole, 1, kept)
    OBVIOUS
  <2>4. json = [type |-> "float", value |-> text]
    BY <1>3, <2>1, <2>2, <2>3, Zenon
       DEF SerializeFee, FeeText, WholeBps, Printed, whole, rest
  <2>5. DeserializeFee(json) = ParseFeeHundredths(text)
    <3>1. json.type = "float" /\ json.value = text
      BY <2>4
    <3> HIDE DEF json
    <3> QED BY <3>1 DEF DeserializeFee
  <2> HIDE DEF json
  <2>6. /\ text \in DecimalText /\ IsDecimal(text)
        /\ DigitsValue(text.whole) = whole /\ text.frac = kept
    BY <1>1, <2>3, PlainText
  <2>7. SubSeq(kept \o Zeros(2), 1, 2) = digits
    BY <2>1, <2>2, FirstTwo
  <2>8. ~ \E i \in 3 .. Len(text.frac) : text.frac[i] # 0
    <3>1. \A n \in 0 .. 2 : ~ \E i \in 3 .. n : TRUE
      OBVIOUS
    <3> QED BY <2>2, <2>6, <3>1, Zenon
  <2>9. ParseFeeHundredths(text) = Ok(fee)
    <3>1. whole * 100 + rest + 0 = fee /\ fee =< U32Max
      BY <1>1
    <3>2. rest = DigitsValue(SubSeq(text.frac \o Zeros(2), 1, 2))
      BY <2>1, <2>6, <2>7
    <3>3. 0 \in {0, 1} /\ 0 = IF \E i \in 3 .. Len(text.frac) : text.frac[i] # 0
                              THEN 1 ELSE 0
      BY <2>8
    <3>4. ParseFeeHundredths(text) =
            IF whole * 100 + rest + 0 =< U32Max
            THEN Ok(whole * 100 + rest + 0) ELSE Err("fee")
      BY <1>1, <2>6, <3>2, <3>3, FeeIsParsed
    <3> QED BY <3>1, <3>4
  <2> QED BY <2>5, <2>9 DEF json
<1> QED BY <1>2, <1>3
=============================================================================
