------------------------- MODULE BridgeSessionProofs -------------------------
(***************************************************************************)
(* Proofs of the session's safety properties, for every set of chains,     *)
(* modes, amounts, fees and environments, whichever program drives it.     *)
(*                                                                         *)
(* SessionStep is what a step of any program does to the session, with the *)
(* arguments as general as the proofs allow.  SessionInv is inductive for  *)
(* it: a session that burned keeps its bridge and its request (Settled),   *)
(* so that every message, signature and extraction is that of the one      *)
(* request `burn` returned.                                                *)
(***************************************************************************)
EXTENDS ExampleProgramsProofs, RequestProofs, MessageCodecProofs

Bridges ==
  [source : Chains \cup {"none"}, destination : Chains \cup {"none"},
   mode : Mode, recipient : {"recipient"}, api_url_override : {Err("None")}]

\* A burn request is what burn or burn_asset returns, or an error.
RequestV2(request, amount) ==
  request.ok => \E token : request = Burn(built, token, amount)

RequestV1(request, amount) ==
  \E token : request = BurnV1(built, token, amount)

Befores == {<<>>, <<Log("MessageSent", ForeignMessage)>>}

\* The steps of the session, grouped by what they may change.
Builds ==
  \E s, d \in Chains :
    \/ \E m \in Mode : BuildV2(s, d, m) \/ BuildFromRoute(s, d, m)
    \/ BuildV1(s, d)

Quotes ==
  \/ \E amount \in Nat : \E response \in FeeResponses : QuoteFastFee(amount, response)
  \/ QuoteStandardFee

Sends ==
  \E amount \in Nat : \E request :
    /\ \/ version = "v2" /\ Quoted(amount) /\ RequestV2(request, amount)
       \/ version = "v1" /\ RequestV1(request, amount)
    /\ Submit(request)

Mines == \E before \in Befores : MineBurn(before)

Changes == ChangeFee \/ ChangeMinimum

Signs == \E takes \in {0} \cup (IF tx = <<>> THEN {} ELSE {tx[1].call.max_fee}) :
           IrisSigns(takes)

Extracts == \E receipt : /\ receipt \in {Receipt, [kind |-> "error", logs |-> <<>>]}
                         /\ Extract(receipt)

SessionStep ==
  \/ Builds \/ Quotes \/ Sends \/ Mines \/ Changes \/ Signs \/ Extracts
  \/ Polling \/ Mint
  \/ UNCHANGED vars

\* A program that is not a funded example has no stages of one; an offline one
\* has not failed.
ProgramInv ==
  program \notin FundedPrograms =>
    \/ program = "application" /\ stage = "idle"
    \/ program \in OfflinePrograms /\ stage \in {"offline", "done"}

\* The arguments that a session is run with are of their types.
LEMMA SessionTypes ==
  /\ SessionChains \subseteq Chains /\ SessionModes \subseteq Mode
  /\ Amounts \subseteq Nat /\ FeeLevels \subseteq Nat /\ Buffer \in Nat
  /\ StandardMode \in Mode /\ DEFAULT_TRANSFER_AMOUNT \in Nat
  /\ SupportsCctpV2 \subseteq Chains
<1>1. <<>> \in Seq({"byte"})  OBVIOUS
<1>2. StandardMode \in Mode  BY <1>1 DEF StandardMode, Mode, ModeKinds
<1> QED
  BY <1>2, SessionAssumption DEF DEFAULT_TRANSFER_AMOUNT, Chains

\* burn_asset burns the token of the asset, or refuses.
LEMMA AssetBurnIsBurn ==
  ASSUME NEW asset, NEW amount
  PROVE  RequestV2(BurnAsset(built, asset, amount), amount)
BY DEF BurnAsset, AndThen, RequestV2

\* An application's step is a step of the session.
LEMMA ApplicationSteps == SessionNext => SessionStep
<1>1. Build => Builds
  BY SessionTypes DEF Build, Builds
<1>2. ASSUME NEW amount \in Amounts, NEW response \in FeeResponses,
             QuoteFastFee(amount, response)
      PROVE  Quotes
  BY <1>2, SessionTypes DEF Quotes
<1>3. CASE QuoteStandardFee  BY <1>3 DEF Quotes, SessionStep
<1>4. ASSUME NEW amount \in Amounts, NEW token, BurnTokens(token, amount)
      PROVE  Sends
  <2>1. amount \in Nat  BY SessionTypes
  <2> QED  BY <1>4, <2>1 DEF BurnTokens, Sends, RequestV2
<1>5. ASSUME NEW amount \in Amounts, NEW token, BurnTokensV1(token, amount)
      PROVE  Sends
  <2>1. amount \in Nat  BY SessionTypes
  <2> QED  BY <1>5, <2>1 DEF BurnTokensV1, Sends, RequestV1
<1>6. ASSUME NEW amount \in Amounts, NEW asset, BurnAssets(asset, amount)
      PROVE  Sends
  <2>1. amount \in Nat  BY SessionTypes
  <2> QED  BY <1>6, <2>1, AssetBurnIsBurn DEF BurnAssets, Sends
<1>7. Burns => Sends
  BY <1>4, <1>5, <1>6 DEF Burns
<1>8. Environment => Mines \/ Changes \/ Signs
  BY DEF Environment, Mines, Changes, Signs, Befores
<1>9. Ended => UNCHANGED vars
  BY DEF Ended
<1>10. ASSUME NEW receipt \in {Receipt, [kind |-> "error", logs |-> <<>>]},
              Extract(receipt)
       PROVE  Extracts
  BY <1>10 DEF Extracts
<1> QED
  BY <1>1, <1>2, <1>3, <1>7, <1>8, <1>9, <1>10 DEF SessionNext, SessionStep

\* So is a step of an example, whose bridge is that of its configured route.
LEMMA ExampleSteps ==
  StageInv /\ TokenInv /\ ExampleStep /\ program \in FundedPrograms => SessionStep
<1> SUFFICES ASSUME StageInv, TokenInv, ExampleStep, program \in FundedPrograms
             PROVE  SessionStep
  OBVIOUS
<1>1. CASE SetUpBridge
  <2> DEFINE s == configured[1].chains[1]
             d == configured[1].chains[2]
  <2>1. RouteNew(s, d).ok  BY <1>1 DEF SetUpBridge, TokenInv
  <2>2. s \in Chains /\ d \in Chains
    BY <2>1, RouteNewPairs, SessionTypes
  <2>3. BuildV2(s, d, StandardMode)  BY <1>1 DEF SetUpBridge
  <2> QED  BY <2>2, <2>3, SessionTypes DEF SessionStep, Builds
<1>2. ASSUME NEW response \in FeeResponses, QuoteCap(response)
      PROVE  SessionStep
  BY <1>2, SessionTypes DEF QuoteCap, SessionStep, Quotes
<1>3. ASSUME NEW sent \in BOOLEAN, BurnOnce(sent)
      PROVE  SessionStep
  <2>1. CASE BurnTokens(configured[1].source_usdc_address, DEFAULT_TRANSFER_AMOUNT)
    BY <2>1, SessionTypes DEF BurnTokens, SessionStep, Sends, RequestV2
  <2> QED  BY <1>3, <2>1 DEF BurnOnce, SessionStep
<1>4. CASE Poll  BY <1>4 DEF Poll, Polling, SessionStep
<1>5. CASE MintIfNeeded  BY <1>5 DEF MintIfNeeded, SessionStep
<1>6. CASE UNCHANGED vars  BY <1>6 DEF SessionStep
<1> QED
  BY <1>1, <1>2, <1>3, <1>4, <1>5, <1>6
  DEF ExampleStep, Configure, CheckBalances, Gate, CheckConfiguration,
      ReadAllowance, Approve, RunOffline

\* Whichever program runs, the session takes its own steps only.
LEMMA ProgramSteps ==
  StageInv /\ TokenInv /\ ProgramInv /\ [ProgramNext]_allVars => SessionStep
<1> SUFFICES ASSUME StageInv, TokenInv, ProgramInv, [ProgramNext]_allVars
             PROVE  SessionStep
  OBVIOUS
<1>1. CASE ExampleStep
  <2>1. CASE program \in FundedPrograms  BY <1>1, <2>1, ExampleSteps
  <2>2. CASE program \notin FundedPrograms
    <3>1. RunOffline
      BY <1>1, <2>2 DEF ProgramInv, ExampleStep, Configure, CheckBalances, Gate,
           SetUpBridge, QuoteCap, CheckConfiguration, ReadAllowance, Approve,
           BurnOnce, Poll, MintIfNeeded, Stopped
    <3> QED  BY <3>1 DEF RunOffline, SessionStep
  <2> QED  BY <2>1, <2>2
<1>2. CASE SessionNext  BY <1>2, ApplicationSteps
<1>3. CASE Environment
  BY <1>3 DEF Environment, SessionStep, Mines, Changes, Signs, Befores
<1>4. CASE UNCHANGED vars  BY <1>4 DEF SessionStep
<1> QED
  BY <1>1, <1>2, <1>3, <1>4 DEF ProgramNext, ApprovalMined, allVars

---------------------------------------------------------------------------
(* The offline examples: their second copy of the registry agrees with it. *)

\* What v2_integration_validation asserts of every chain it lists.
LEMMA ChainsAsListed ==
  /\ ValidateChainSupport
  /\ ValidateDomainIds
  /\ ValidateContractAddresses
  /\ ValidateFastTransferSupport
<1>1. ValidateChainSupport
  <2>1. MainnetChains \cup TestnetChains \subseteq SupportsCctpV2
        /\ SupportsCctpV2 \subseteq DOMAIN DomainIdV2Arms
    BY DEF MainnetChains, TestnetChains, SupportsCctpV2, DomainIdV2Arms
  <2> QED
    BY <2>1, Results
    DEF ValidateChainSupport, CctpV2DomainId, TokenMessengerV2Address,
        MessageTransmitterV2Address, IfSupported
<1>2. ValidateDomainIds
  <2>1. ASSUME NEW chain \in DOMAIN KnownMappings
        PROVE  /\ chain \in SupportsCctpV2 /\ chain \in DOMAIN DomainIdV2Arms
               /\ DomainIdV2Arms[chain] = KnownMappings[chain][1]
               /\ AsU32[DomainIdV2Arms[chain]] = KnownMappings[chain][2]
    BY DEF KnownMappings, SupportsCctpV2, DomainIdV2Arms, AsU32
  <2> QED
    BY <2>1, Results DEF ValidateDomainIds, CctpV2DomainId, IfSupported
<1>3. ValidateContractAddresses
  <2>1. /\ CCTP_V2_ADDRESSES.TokenMessenger.mainnet = "28b5"
        /\ CCTP_V2_ADDRESSES.TokenMessenger.testnet = "8FE6"
        /\ CCTP_V2_ADDRESSES.MessageTransmitter.mainnet = "81D4"
        /\ CCTP_V2_ADDRESSES.MessageTransmitter.testnet = "E737"
    BY DEF CCTP_V2_ADDRESSES
  <2>2. \A chain \in MainnetChains :
          chain \in SupportsCctpV2 /\ ~ IsTestnet(chain)
    BY DEF MainnetChains, SupportsCctpV2, IsTestnet
  <2>3. \A chain \in TestnetChains : chain \in SupportsCctpV2 /\ IsTestnet(chain)
    BY DEF TestnetChains, SupportsCctpV2, IsTestnet
  <2> QED
    BY <2>1, <2>2, <2>3
    DEF ValidateContractAddresses, TokenMessengerV2Address,
        MessageTransmitterV2Address, IfSupported
<1>4. ValidateFastTransferSupport
  <2>1. ASSUME NEW chain \in DOMAIN FastCapability
        PROVE  /\ FastCapability[chain] \in BOOLEAN
               /\ SupportsFastTransfer(chain) = Ok(FastCapability[chain])
    <3> DEFINE fast == chain \in {"Mainnet", "Sepolia", "Arbitrum",
                         "ArbitrumSepolia", "Base", "BaseSepolia", "Optimism",
                         "OptimismSepolia", "Unichain", "Linea"}
    <3>1. chain \in SupportsCctpV2 /\ FastCapability[chain] = fast
      <4>1. chain \in SupportsCctpV2
        BY DEF FastCapability, SupportsCctpV2
      <4>2. CASE fast
        <5>1. FastCapability[chain] = TRUE  BY <4>2 DEF FastCapability
        <5> QED  BY <4>1, <4>2, <5>1, Zenon
      <4>3. CASE ~ fast
        <5>1. FastCapability[chain] = FALSE  BY <4>3 DEF FastCapability
        <5>2. fast = FALSE  BY <4>3
        <5> HIDE DEF fast
        <5> QED  BY <4>1, <5>1, <5>2, Zenon
      <4> QED  BY <4>2, <4>3
    <3>2. SupportsFastTransfer(chain) = Ok(fast)
      BY <3>1 DEF SupportsFastTransfer, IfSupported
    <3> QED  BY <3>1, <3>2
  <2> QED
    BY <2>1, Results DEF ValidateFastTransferSupport, FastTransferFeeBps, IfFast,
                         AndThen
<1> QED  BY <1>1, <1>2, <1>3, <1>4

\* What it asserts of the bridges it builds.
LEMMA BridgesAsBuilt ==
  ValidateBridgeConfigurations /\ ValidateApiEndpoints
<1>1. ValidateBridgeConfigurations
  BY DEF ValidateBridgeConfigurations, Reports, BuiltBridge, FromRoute, IsFast,
         ModeHookData, HasHook, FinalityAsU32, FinalityThreshold, MaxFee,
         HasExplicitFeeCap, UsesFeeSwitch, ModeMaxFee
<1>2. ASSUME NEW bridge, bridge.api_url_override = Err("None"),
             bridge.source \in SupportsCctpV2, NEW hash
      PROVE  /\ ApiUrl(bridge) = IrisApiUrl(bridge.source)
             /\ CreateUrl(bridge, hash).ok
             /\ CreateUrl(bridge, hash).val.host = ApiUrl(bridge)
             /\ CreateUrl(bridge, hash).val.tx = hash
  <2>1. bridge.source \in DOMAIN DomainIdV2Arms
    BY <1>2 DEF SupportsCctpV2, DomainIdV2Arms
  <2>2. CctpV2DomainId(bridge.source) = Ok(DomainIdV2Arms[bridge.source])
    BY <1>2, <2>1 DEF CctpV2DomainId, IfSupported
  <2>3. CreateUrl(bridge, hash)
          = Ok([host |-> ApiUrl(bridge),
                domain |-> AsU32[DomainIdV2Arms[bridge.source]], tx |-> hash])
    BY <2>2, Results DEF CreateUrl, AndThen
  <2> QED  BY <1>2, <2>3, Results DEF ApiUrl
<1>3. ASSUME NEW s, NEW d
      PROVE  /\ StandardBridge(s, d).source = s
             /\ StandardBridge(s, d).destination = d
             /\ StandardBridge(s, d).api_url_override = Err("None")
  BY DEF StandardBridge, BuiltBridge, FromRoute
<1>4. ValidateApiEndpoints
  <2>1. /\ "Mainnet" \in SupportsCctpV2 /\ IrisApiUrl("Mainnet") = "production"
        /\ "Sepolia" \in SupportsCctpV2 /\ IrisApiUrl("Sepolia") = "sandbox"
    BY DEF SupportsCctpV2, IrisApiUrl, IsTestnet
  <2> QED  BY <1>2, <1>3, <2>1 DEF ValidateApiEndpoints
<1> QED  BY <1>1, <1>4

\* Every offline example ends with Ok.
LEMMA OfflineExamplesEndOk ==
  V2IntegrationValidation /\ V2AssetSupport /\ V2StandardTransfer /\ BasicBridge
<1>1. ValidateErrorHandling
  BY Results DEF ValidateErrorHandling, CctpV2DomainId, TokenMessengerV2Address,
                 SupportsFastTransfer, IfSupported, SupportsCctpV2
<1>2. ASSUME NEW s, NEW d, RouteNew(s, d).ok
      PROVE  LET bridge == StandardBridge(s, d)
             IN /\ bridge.source = s /\ bridge.destination = d
                /\ bridge.api_url_override = Err("None")
                /\ s \in SupportsCctpV2 /\ d \in SupportsCctpV2
                /\ CctpV2DomainId(s).ok /\ DestinationDomainId(bridge).ok
                /\ TokenMessengerV2Contract(bridge).ok
                /\ MessageTransmitterV2Contract(bridge).ok
  <2> DEFINE bridge == StandardBridge(s, d)
  <2>1. bridge.source = s /\ bridge.destination = d
        /\ bridge.api_url_override = Err("None")
    BY DEF StandardBridge, BuiltBridge, FromRoute
  <2>2. s \in SupportsCctpV2 /\ d \in SupportsCctpV2
    BY <1>2, RouteNewAccepts
  <2>3. SupportsCctpV2 \subseteq DOMAIN DomainIdV2Arms
    BY DEF SupportsCctpV2, DomainIdV2Arms
  <2>4. CctpV2DomainId(s).ok
    BY <2>2, <2>3, Results DEF CctpV2DomainId, IfSupported
  <2> HIDE DEF bridge
  <2>5. /\ DestinationDomainId(bridge).ok
        /\ TokenMessengerV2Contract(bridge).ok
        /\ MessageTransmitterV2Contract(bridge).ok
    BY <1>2, <2>1, ValidatedRouteResolves, Results
  <2> QED  BY <2>1, <2>2, <2>4, <2>5 DEF bridge
<1>3. /\ RouteNew("Mainnet", "Linea").ok /\ RouteNew("Arbitrum", "Base").ok
      /\ RouteNew("Base", "Sonic").ok /\ RouteNew("Sepolia", "BaseSepolia").ok
  BY Results DEF RouteNew, SupportsCctpV2, IsTestnet
<1>4. ValidateCrossChainCompatibility
  <2> SUFFICES ASSUME NEW pair \in TestPairs
               PROVE  LET bridge == StandardBridge(pair[1], pair[2])
                      IN /\ {pair[1], pair[2]} \subseteq SupportsCctpV2
                         /\ CctpV2DomainId(bridge.source).ok
                         /\ DestinationDomainId(bridge).ok
                         /\ TokenMessengerV2Contract(bridge).ok
                         /\ MessageTransmitterV2Contract(bridge).ok
                         /\ IsTestnet(bridge.source)
                              <=> (ApiUrl(bridge) = "sandbox")
    BY DEF ValidateCrossChainCompatibility
  <2> DEFINE bridge == StandardBridge(pair[1], pair[2])
  <2>1. RouteNew(pair[1], pair[2]).ok  BY <1>3 DEF TestPairs
  <2>2. bridge.source = pair[1] /\ bridge.api_url_override = Err("None")
    BY <1>2, <2>1
  <2>3. IsTestnet(bridge.source) <=> (ApiUrl(bridge) = "sandbox")
    BY <2>2, Results DEF ApiUrl, IrisApiUrl
  <2> HIDE DEF bridge
  <2> QED  BY <1>2, <2>1, <2>2, <2>3 DEF bridge
<1>5. V2AssetSupport
  <2>1. ForAsset("Mainnet", "Linea", "USDC") = Ok(<<"Mainnet", "Linea">>)
        /\ RouteTokenAddress(<<"Mainnet", "Linea">>, "USDC", 1).ok
    BY <1>3 DEF ForAsset, RouteNew, ValidateV2Route, AndThen, RouteTokenAddress,
         V2BridgeTokenAddress, UsdcEvmTokenAddress, IsSupportedOnV2BridgeChain,
         SupportsCctpV2, Ok, Err
  <2>2. ForAsset("Mainnet", "Base", "EURC") = Ok(<<"Mainnet", "Base">>)
        /\ RouteTokenAddress(<<"Mainnet", "Base">>, "EURC", 1).ok
    BY DEF ForAsset, RouteNew, ValidateV2Route, AndThen, RouteTokenAddress,
         V2BridgeTokenAddress, EurcEvmTokenAddress, SupportsCctpV2, IsTestnet,
         Ok, Err
  <2>3. ~ ForAsset("Mainnet", "Avalanche", "EURC").ok
    BY DEF ForAsset, RouteNew, ValidateV2Route, AndThen, Ok, Err
  <2>4. ~ ForAsset("Mainnet", "Base", "USYC").ok
    BY DEF ForAsset, RouteNew, ValidateV2Route, AndThen, Ok, Err
  <2> QED  BY <2>1, <2>2, <2>3, <2>4, Results DEF V2AssetSupport
<1>6. V2StandardTransfer
  <2> DEFINE bridge == StandardBridge("Mainnet", "Linea")
  <2>1. /\ TokenMessengerV2Contract(bridge).ok
        /\ MessageTransmitterV2Contract(bridge).ok
        /\ CctpV2DomainId(bridge.source).ok /\ DestinationDomainId(bridge).ok
    BY <1>2, <1>3
  <2> HIDE DEF bridge
  <2>2. CreateUrl(bridge, "0000").ok
    BY <2>1, Results DEF CreateUrl, AndThen
  <2> QED  BY <2>1, <2>2 DEF V2StandardTransfer, bridge
<1>7. BasicBridge
  BY Results DEF BasicBridge, TokenMessengerAddress, MessageTransmitterAddress,
                 CctpDomainId, DomainIdV1Arms, ConfirmationAverageTime
<1> QED
  BY <1>1, <1>4, <1>5, <1>6, <1>7, ChainsAsListed, BridgesAsBuilt
  DEF V2IntegrationValidation

\* A program starts as ProgramInv says, and goes on so.
LEMMA ProgramInvInit == ProgramInit => ProgramInv
BY DEF ProgramInit, ProgramInv

\* No step of a program leaves it: an offline example refuses nothing, and a
\* funded one stays in its stages.
LEMMA ProgramInvStep == ProgramInv /\ [ProgramNext]_allVars => ProgramInv'
<1> SUFFICES ASSUME ProgramInv, [ProgramNext]_allVars, program \notin FundedPrograms
             PROVE  ProgramInv'
  BY DEF ProgramInv, ProgramNext, ExampleStep, allVars, exampleVars, Configure,
         CheckBalances, Gate, SetUpBridge, QuoteCap, CheckConfiguration,
         ReadAllowance, Approve, BurnOnce, Poll, MintIfNeeded, RunOffline,
         ApprovalMined
<1>1. CASE ExampleStep
  <2>1. RunOffline
    BY <1>1 DEF ProgramInv, ExampleStep, Configure, CheckBalances, Gate,
         SetUpBridge, QuoteCap, CheckConfiguration, ReadAllowance, Approve,
         BurnOnce, Poll, MintIfNeeded, Stopped
  <2>2. program \in OfflinePrograms /\ UNCHANGED program
    BY <2>1 DEF RunOffline, ProgramInv
  <2>3. stage' = "done"
    BY <2>1, <2>2, OfflineExamplesEndOk DEF RunOffline, Goto, OfflinePrograms
  <2> QED  BY <2>2, <2>3 DEF ProgramInv
<1>2. CASE UNCHANGED <<program, stage>>  BY <1>2 DEF ProgramInv
<1> QED
  BY <1>1, <1>2 DEF ProgramNext, ApprovalMined, allVars, exampleVars

\* What the offline examples assert of the registry holds of it: none ends with
\* an error, whatever the chains added to the registry's own.
THEOREM OfflineExamplesPassHolds == ProgramSpec => []OfflineExamplesPass
<1>1. ProgramInv => OfflineExamplesPass
  BY DEF ProgramInv, OfflineExamplesPass, OfflinePrograms, FundedPrograms
<1> QED  BY ProgramInvInit, ProgramInvStep, <1>1, PTL DEF ProgramSpec

\* What decoders, encoders, builders and summaries promise of each other holds
\* wherever a session starts.
THEOREM CodecAgreesHolds == ProgramSpec => []CodecAgrees
<1>1. CodecAgrees
  BY CodecAgreement DEF CodecAgrees
<1> QED  BY <1>1, PTL

\* The sample texts are texts.
LEMMA SamplesAreTexts == SampleTexts \subseteq DecimalText
<1> DEFINE Wholes == {<<>>, <<0>>, <<0, 7>>, <<1, 3>>, <<5, 0>>, <<2, 0, 0>>, <<3, 0, 0>>}
           Fracs == {<<>>, <<3>>, <<0, 5>>, <<3, 0, 0>>, <<0, 0, 1>>, <<9, 9, 9, 9>>,
                     <<0, 0, 0, 0, 0, 1>>, <<1, 0, 0, 0, 0, 0, 0>>}
<1>1. Wholes \subseteq Digits
  BY DEF Digits
<1>2. Fracs \subseteq Digits
  BY DEF Digits
<1>3. 0 .. 2 \subseteq Nat
  OBVIOUS
<1> HIDE DEF Wholes, Fracs
<1>4. [sign : {"", "-"}, whole : Wholes, points : 0 .. 2, frac : Fracs, clean : BOOLEAN]
        \subseteq DecimalText
  BY <1>1, <1>2, <1>3, Zenon DEF DecimalText
<1> QED  BY <1>4, Zenon DEF SampleTexts, Wholes, Fracs

\* What printers, parsers and the arithmetic of fees promise each other holds
\* wherever a session starts.
THEOREM AmountsAgreeHolds == ProgramSpec => []AmountsAgree
<1>1. PrintedAmountsAreRead
  <2>1. SampleUnits \subseteq Nat
    BY SMT DEF SampleUnits
  <2> QED  BY <2>1, PrintedAmountIsRead, Zenon DEF PrintedAmountsAreRead
<1>2. TextsMeanAmounts /\ FeesRoundUp
  BY SamplesAreTexts, TextsMeanTheirAmount, ParsedFeeRoundsUp, Zenon
     DEF TextsMeanAmounts, FeesRoundUp
<1>3. FeesSurviveJson
  BY FeeSurvivesJson, Zenon DEF FeesSurviveJson
<1>4. PercentsAreAdded
  <2> SUFFICES ASSUME NEW build \in BuildProfiles, NEW percent \in 0 .. U64Max,
                      NEW gas \in 0 .. U64Max
               PROVE  /\ LimitIsBuffered(gas, percent, build)
                      /\ \A base \in {0, 1, U256Max \div 2, U256Max} :
                           PriceIsBuffered(base, gas, percent, build)
    BY Zenon DEF PercentsAreAdded
  <2>1. /\ gas \in 0 .. U256Max
        /\ {0, 1, U256Max \div 2, U256Max} \subseteq 0 .. U256Max
    BY WidthAssumption
  <2> QED  BY <2>1, BufferedGasCoversEstimate
<1>5. AmountsAgree
  BY <1>1, <1>2, <1>3, <1>4, Zenon DEF AmountsAgree
<1> QED  BY <1>5, PTL

---------------------------------------------------------------------------
(* The inductive invariant, part by part.                                  *)

\* The bridge: its chains and mode, and the quote its cap comes from.
BridgeInv ==
  /\ version \in {"none", "v1", "v2"} /\ validated \in BOOLEAN
  /\ built \in Bridges
  /\ version = "v2" => built.source \in Chains /\ built.destination \in Chains
  /\ validated => version = "v2" /\ RouteNew(built.source, built.destination).ok
  /\ version = "v1" =>
       /\ built.source \in IsSupportedV1 /\ built.destination \in IsSupportedV1
       /\ built.mode = StandardMode /\ quote = <<>>
  /\ quote # <<>> =>
       /\ version = "v2" /\ IsFast(built.mode)
       /\ quote[1].fee \in FeeLevels /\ quote[1].amount \in Nat
       /\ built.mode.max_fee
            = ApplyWithBuffer(quote[1].fee, quote[1].amount, Buffer)

\* How far a session is, and what it then has.
PhaseInv ==
  /\ pc \in PCs /\ published \in FeeLevels /\ changes \in 0 .. MaxFeeChanges
  /\ minimum \in MinFeeAmounts /\ taken \in {"none", "own", "sibling"}
  /\ pc = "start" => version = "none"
  /\ pc \notin {"start", "refused"} => version # "none"
  /\ pc \in {"start", "ready"} => tx = <<>>
  /\ pc \in PCs \ {"start", "ready", "refused"} => tx # <<>>
  /\ tx # <<>> => version # "none"
  /\ pc \in {"start", "ready", "sent", "reverted"} =>
       logs = <<>> /\ canonical = NoBytes
  /\ pc \in {"mined", "attested", "minted", "mintrefused"} => logs # <<>>
  /\ pc \in {"attested", "minted", "mintrefused"} => taken # "none"
  /\ pc \in {"start", "ready", "sent", "mined", "reverted", "timedout"} =>
       taken = "none"
  /\ taken = "own" => canonical # NoBytes
  /\ taken # "none" => logs # <<>>
  /\ canonical # NoBytes => logs # <<>>
  /\ logs # <<>> => tx # <<>>

Call == tx[1].call

\* What was sent is what the burn of the bridge returned.
RequestInv ==
  tx # <<>> =>
    /\ Call.amount \in Nat
    /\ version = "v2" => Burn(built, Call.token, Call.amount) = Ok(tx[1])
    /\ version = "v1" => BurnV1(built, Call.token, Call.amount) = Ok(tx[1])
    /\ quote # <<>> => quote[1].amount = Call.amount

LogsOf(before) ==
  <<Log("Transfer", NoBytes)>> \o before
    \o <<Log("MessageSent", MessageOfBurn), Log("DepositForBurn", NoBytes)>>

\* The logs, once there, are those of the burn, which reverts only where the
\* messenger may refuse it.
LogInv ==
  /\ logs # <<>> => \E before \in Befores : logs = LogsOf(before)
  /\ pc = "reverted" => ~ BurnIsAccepted(Call) \/ ~ IsRegistered(Call.token)

SentMessage == TemplateV2(Call, tx[1].to, built.source)

SignedMessage(takes) == Completed(SentMessage, Call, takes)

\* What Iris signed is the message of the burn, completed.
SignInv ==
  canonical # NoBytes =>
    /\ version = "v1" => canonical = MessageOfBurn
    /\ version = "v2" => \E takes \in {0, Call.max_fee} :
                           canonical = Encode(SignedMessage(takes))

\* What was extracted is what the logs give.
ExtractInv ==
  extracted.ok =>
    /\ logs # <<>>
    /\ extracted = GetMessageSentEvent([kind |-> "found", logs |-> logs])

\* Why a session ended, or took the message it goes on with.
EndInv ==
  /\ taken = "own" => Asked
  /\ taken = "own" /\ pc = "mintrefused" => ~ DestinationAccepts
  /\ pc = "timedout" /\ Signed =>
       FinalitySecs > LastRequestSecs(PollingOfBridge)

SessionInv ==
  /\ BridgeInv /\ PhaseInv /\ RequestInv /\ LogInv /\ SignInv /\ ExtractInv
  /\ EndInv

\* A session that burned keeps its bridge and its request; the minimum a burn was
\* refused for, and the logs of one that was not, do not change; nor does what
\* Iris signed, nor the fee by then.
Settled ==
  /\ tx # <<>> => UNCHANGED <<version, validated, built, quote, tx>>
  /\ pc = "reverted" => UNCHANGED minimum
  /\ logs # <<>> => UNCHANGED logs
  /\ canonical # NoBytes => UNCHANGED <<canonical, published>>

\* Every step of the session settles what a burn, its logs and its signature fix.
LEMMA SessionSettles ==
  ASSUME PhaseInv, SessionStep
  PROVE  Settled
<1> USE DEF Settled, PhaseInv
<1>1. CASE Builds
  BY <1>1 DEF Builds, BuildV2, BuildFromRoute, BuildV1, Built, Refuse, world
<1>2. CASE Quotes
  BY <1>2 DEF Quotes, QuoteFastFee, QuoteStandardFee, Refuse, world
<1>3. CASE Sends
  BY <1>3 DEF Sends, Submit, Refuse, world
<1>4. CASE Mines
  BY <1>4 DEF Mines, MineBurn
<1>5. CASE Changes
  BY <1>5 DEF Changes, ChangeFee, ChangeMinimum, client
<1>6. CASE Signs
  BY <1>6 DEF Signs, IrisSigns, client
<1>7. CASE Extracts
  BY <1>7 DEF Extracts, Extract, world
<1>8. CASE Polling
  BY <1>8 DEF Polling, AwaitSigned, AwaitSibling, AwaitNothing, world
<1>9. CASE Mint
  BY <1>9 DEF Mint, Refuse, world
<1>10. CASE UNCHANGED vars
  BY <1>10 DEF vars
<1> QED
  BY <1>1, <1>2, <1>3, <1>4, <1>5, <1>6, <1>7, <1>8, <1>9, <1>10 DEF SessionStep

\* A quoted cap is that of the published fee for the amount.
LEMMA QuotedCap ==
  ASSUME NEW bridge, NEW amount \in Nat, NEW response \in FeeResponses,
         published \in Nat, NEW buffer \in Nat,
         CalculateFastTransferMaxFee(bridge, "USDC", amount, buffer, response).ok
  PROVE  /\ CalculateFastTransferMaxFee(bridge, "USDC", amount, buffer, response).val
              = ApplyWithBuffer(published, amount, buffer)
         /\ ApplyWithBuffer(published, amount, buffer) \in Nat
<1> DEFINE fee   == GetFastTransferFee(bridge, "USDC", response)
           cap   == CalculateFastTransferMaxFee(bridge, "USDC", amount, buffer,
                                                response)
           entry == Find(response.val, LAMBDA f : f.finality_threshold = 1000)
<1>1. fee.ok /\ fee.val # <<>> /\ cap.val = MaxFeeWithBuffer(fee.val[1], amount, buffer)
  BY Results DEF CalculateFastTransferMaxFee, AndThen
<1>2. /\ response.ok
      /\ fee.val = IF entry.ok THEN <<entry.val>> ELSE <<>>
  <2>1. fee = GetTransferFee(bridge, "USDC", "Fast", response)
    BY <1>1, Results DEF GetFastTransferFee, AndThen
  <2>2. GetTransferFees(bridge, "USDC", response) = response
    BY <1>1, <2>1, Results DEF GetTransferFee, GetTransferFees, AndThen
  <2> QED
    BY <1>1, <2>1, <2>2, Results DEF GetTransferFee, AndThen, FinalityAsU32
<1>3. entry.ok /\ entry.val = TransferFee(1000, published)
  <2>1. entry.ok  BY <1>1, <1>2
  <2>2. \/ response.val = <<TransferFee(2000, 0), TransferFee(1000, published)>>
        \/ response.val = <<TransferFee(2000, 0)>>
    BY <1>2, Results DEF FeeResponses
  <2>3. \E i \in DOMAIN response.val :
          response.val[i].finality_threshold = 1000 /\ entry.val = response.val[i]
    <3> DEFINE found == {i \in DOMAIN response.val :
                           response.val[i].finality_threshold = 1000}
               first == CHOOSE i \in found : \A j \in found : i =< j
    <3>1. found # {} /\ entry.val = response.val[first]
      BY <2>1, Results DEF Find
    <3>2. \E i \in found : \A j \in found : i =< j
      <4>1. CASE response.val = <<TransferFee(2000, 0), TransferFee(1000, published)>>
        <5>1. DOMAIN response.val = 1 .. 2  BY <4>1
        <5>2. response.val[1].finality_threshold = 2000
          BY <4>1 DEF TransferFee
        <5>3. found \subseteq {2}  BY <5>1, <5>2
        <5> QED  BY <3>1, <5>3
      <4>2. CASE response.val = <<TransferFee(2000, 0)>>
        <5>1. DOMAIN response.val = {1}  BY <4>2
        <5>2. response.val[1].finality_threshold = 2000
          BY <4>2 DEF TransferFee
        <5> QED  BY <3>1, <5>1, <5>2
      <4> QED  BY <2>2, <4>1, <4>2
    <3>3. first \in found
      <4> HIDE DEF found
      <4> QED  BY <3>2
    <3>4. /\ first \in DOMAIN response.val
          /\ response.val[first].finality_threshold = 1000
      <4> HIDE DEF first
      <4> QED  BY <3>3
    <3> HIDE DEF first, found, entry
    <3> QED  BY <3>1, <3>4
  <2> QED  BY <2>1, <2>2, <2>3 DEF TransferFee
<1>4. cap.val = ApplyWithBuffer(published, amount, buffer)
  BY <1>1, <1>2, <1>3 DEF MaxFeeWithBuffer, TransferFee
<1>5. ApplyWithBuffer(published, amount, buffer) \in Nat
  <2> USE DEF BPS_HUNDREDTH_DENOMINATOR, BUFFER_PERCENT_DENOMINATOR
  <2>1. amount * published \in Nat  BY SMT
  <2>2. ApplyToAmount(published, amount) \in Nat
    BY <2>1, CeilDivNat DEF ApplyToAmount
  <2>3. ApplyToAmount(published, amount) * (buffer + 100) \in Nat
    BY <2>2, SMT
  <2> QED  BY <2>3, CeilDivNat DEF ApplyWithBuffer
<1> QED  BY <1>4, <1>5

\* The bridge of any two chains and mode.
LEMMA RouteBridge ==
  ASSUME NEW s \in Chains \cup {"none"}, NEW d \in Chains \cup {"none"},
         NEW mode \in Mode
  PROVE  /\ FromRoute(<<s, d>>, mode) \in Bridges
         /\ FromRoute(<<s, d>>, mode).source = s
         /\ FromRoute(<<s, d>>, mode).destination = d
         /\ FromRoute(<<s, d>>, mode).mode = mode
BY DEF FromRoute, Bridges

\* A bridge whose mode gets another cap, or another kind.
Recapped(r, b, kind, cap) ==
  r = [b EXCEPT !.mode.kind = kind, !.mode.max_fee = cap]

\* A bridge rebuilt with a cap is a bridge, on the same route.
LEMMA RecappedBridge ==
  ASSUME NEW b \in Bridges, NEW kind \in ModeKinds, NEW cap \in Nat, NEW r,
         Recapped(r, b, kind, cap)
  PROVE  /\ r \in Bridges
         /\ r.source = b.source /\ r.destination = b.destination
         /\ r.mode.kind = kind /\ r.mode.max_fee = cap
<1> DEFINE m == [b.mode EXCEPT !.kind = kind, !.max_fee = cap]
           s == [b EXCEPT !.mode = m]
<1>1. b.mode \in Mode  BY DEF Bridges
<1>2. m \in Mode /\ m.kind = kind /\ m.max_fee = cap  BY <1>1 DEF Mode
<1>3. r = s
  BY <1>1 DEF Bridges, Mode, Recapped
<1> HIDE DEF m
<1>4. /\ s \in Bridges /\ s.source = b.source /\ s.destination = b.destination
      /\ s.mode = m
  BY <1>2 DEF Bridges
<1> QED  BY <1>2, <1>3, <1>4

\* The bridge, its flags and its quote at the start.
LEMMA BridgeInvInit == SessionInit => BridgeInv
<1> SUFFICES ASSUME SessionInit PROVE BridgeInv
  OBVIOUS
<1>1. built \in Bridges
  BY RouteBridge, SessionTypes DEF SessionInit, NoBridge
<1> QED  BY <1>1 DEF SessionInit, BridgeInv

\* A session starts with nothing built, sent, logged or signed.
LEMMA PhaseInvInit == SessionInit => PhaseInv
BY SessionAssumption DEF SessionInit, PhaseInv, PCs, MinFeeAmounts

\* The steps that build, quote and leave the bridge alone keep it.
LEMMA BridgeInvStep ==
  ASSUME BridgeInv, PhaseInv, SessionStep
  PROVE  BridgeInv'
<1>1. ASSUME NEW s \in Chains, NEW d \in Chains, NEW mode \in Mode,
             BuildV2(s, d, mode)
      PROVE  BridgeInv'
  <2>1. /\ version' = "v2" /\ validated' = FALSE /\ quote' = quote
        /\ built' = FromRoute(<<s, d>>, mode) /\ version = "none"
    BY <1>1 DEF BuildV2, Built, PhaseInv
  <2>2. /\ built' \in Bridges
        /\ built'.source = s /\ built'.destination = d
    BY <2>1, RouteBridge
  <2>3. quote' = <<>>  BY <2>1 DEF BridgeInv
  <2> QED  BY <2>1, <2>2, <2>3 DEF BridgeInv
<1>2. ASSUME NEW s \in Chains, NEW d \in Chains, NEW mode \in Mode,
             BuildFromRoute(s, d, mode)
      PROVE  BridgeInv'
  <2> DEFINE route == RouteNew(s, d)
  <2>1. CASE route.ok /\ Built("v2", TRUE, FromRoute(route.val, mode))
    <3>1. route.val = <<s, d>>  BY <2>1, RouteNewPairs
    <3>2. /\ version' = "v2" /\ validated' = TRUE /\ quote' = quote
          /\ built' = FromRoute(<<s, d>>, mode) /\ version = "none"
      BY <1>2, <2>1, <3>1 DEF BuildFromRoute, Built, PhaseInv
    <3> QED  BY <2>1, <3>2, RouteBridge DEF BridgeInv
  <2>2. CASE UNCHANGED <<version, validated, built, quote>>
    BY <2>2 DEF BridgeInv
  <2> QED  BY <1>2, <2>1, <2>2 DEF BuildFromRoute
<1>3. ASSUME NEW s \in Chains, NEW d \in Chains, BuildV1(s, d)
      PROVE  BridgeInv'
  <2>1. /\ version' = "v1" /\ validated' = FALSE /\ quote' = quote
        /\ built' = FromRoute(<<s, d>>, StandardMode) /\ version = "none"
        /\ s \in IsSupportedV1 /\ d \in IsSupportedV1
    BY <1>3 DEF BuildV1, Built, PhaseInv
  <2>2. /\ built' \in Bridges /\ built'.mode = StandardMode
        /\ built'.source = s /\ built'.destination = d
    BY <2>1, RouteBridge, SessionTypes
  <2>3. quote' = <<>>  BY <2>1 DEF BridgeInv
  <2> QED  BY <2>1, <2>2, <2>3 DEF BridgeInv
<1>4. ASSUME NEW amount \in Nat, NEW response \in FeeResponses,
             QuoteFastFee(amount, response)
      PROVE  BridgeInv'
  <2> DEFINE cap == CalculateFastTransferMaxFee(built, "USDC", amount, Buffer,
                                                response)
             kind == IF HasHook(built.mode) THEN "FastWithHook" ELSE "Fast"
  <2>1. CASE cap.ok
    <3>1. /\ version = "v2" /\ UNCHANGED <<version, validated>>
          /\ quote' = <<[fee |-> published, amount |-> amount, cap |-> cap.val]>>
          /\ built' = [built EXCEPT !.mode.kind = kind, !.mode.max_fee = cap.val]
      BY <1>4, <2>1 DEF QuoteFastFee
    <3>2. published \in FeeLevels /\ published \in Nat
      BY SessionAssumption DEF PhaseInv
    <3>3. cap.val = ApplyWithBuffer(published, amount, Buffer) /\ cap.val \in Nat
      BY <2>1, <3>2, QuotedCap, SessionTypes
    <3>4. kind \in ModeKinds  BY DEF ModeKinds
    <3> HIDE DEF cap, kind
    <3>8. Recapped(built', built, kind, cap.val)  BY <3>1 DEF Recapped
    <3>5. /\ built' \in Bridges
          /\ built'.source = built.source /\ built'.destination = built.destination
          /\ built'.mode.kind = kind /\ built'.mode.max_fee = cap.val
      BY <3>3, <3>4, <3>8, RecappedBridge DEF BridgeInv
    <3>6. IsFast(built'.mode)  BY <3>5 DEF IsFast, kind
    <3>7. quote'[1].fee = published /\ quote'[1].amount = amount  BY <3>1
    <3> QED  BY <3>1, <3>2, <3>3, <3>5, <3>6, <3>7 DEF BridgeInv
  <2>2. CASE ~ cap.ok
    <3>1. UNCHANGED <<version, validated, built, quote>>
      BY <1>4, <2>2 DEF QuoteFastFee
    <3> QED  BY <3>1 DEF BridgeInv
  <2> QED  BY <2>1, <2>2
<1>5. CASE QuoteStandardFee
  <2> DEFINE cap == GetMinStandardTransferFeeAmount(built, minimum)
  <2>1. CASE cap.ok
    <3>1. /\ version = "v2" /\ UsesFeeSwitch(built.mode)
          /\ UNCHANGED <<version, validated, quote>>
          /\ built' = [built EXCEPT !.mode.max_fee = cap.val]
      BY <1>5, <2>1 DEF QuoteStandardFee
    <3>2. cap.val = minimum /\ minimum \in Nat
      BY <2>1, Results DEF GetMinStandardTransferFeeAmount, AndThen, PhaseInv,
                           MinFeeAmounts
    <3>3. built.mode.kind \in ModeKinds  BY DEF BridgeInv, Bridges, Mode
    <3>4. Recapped(built', built, built.mode.kind, minimum)
      BY <3>1, <3>2 DEF BridgeInv, Bridges, Mode, Recapped
    <3>5. /\ built' \in Bridges
          /\ built'.source = built.source /\ built'.destination = built.destination
      BY <3>2, <3>3, <3>4, RecappedBridge DEF BridgeInv
    <3>6. quote = <<>>
      BY <3>1 DEF BridgeInv, IsFast, UsesFeeSwitch
    <3> QED  BY <3>1, <3>5, <3>6 DEF BridgeInv
  <2>2. CASE ~ cap.ok
    <3>1. UNCHANGED <<version, validated, built, quote>>
      BY <1>5, <2>2 DEF QuoteStandardFee
    <3> QED  BY <3>1 DEF BridgeInv
  <2> QED  BY <2>1, <2>2
<1>6. CASE UNCHANGED <<version, validated, built, quote>>
  BY <1>6 DEF BridgeInv
<1>7. CASE Builds  BY <1>1, <1>2, <1>3, <1>7 DEF Builds
<1>8. CASE Quotes  BY <1>4, <1>5, <1>8 DEF Quotes
<1>9. \/ Builds \/ Quotes \/ UNCHANGED <<version, validated, built, quote>>
  BY DEF SessionStep, Sends, Submit, Mines, MineBurn, Changes, ChangeFee,
         ChangeMinimum, client, Signs, IrisSigns, Extracts, Extract, Polling,
         AwaitSigned, AwaitSibling, AwaitNothing, Mint, vars
<1> QED  BY <1>6, <1>7, <1>8, <1>9

\* Every step keeps the phases.
LEMMA PhaseInvStep ==
  ASSUME BridgeInv, PhaseInv, SessionStep
  PROVE  PhaseInv'
<1> USE DEF PhaseInv, PCs
<1>1. CASE Builds
  BY <1>1 DEF Builds, BuildV2, BuildFromRoute, BuildV1, Built, Refuse, world
<1>2. CASE Quotes
  BY <1>2 DEF Quotes, QuoteFastFee, QuoteStandardFee, Refuse, world
<1>3. CASE Sends
  <2>1. PICK request : pc # "start" /\ version # "none" /\ Submit(request)
    BY <1>3 DEF Sends
  <2>2. CASE request.ok
    <3>1. tx' = <<request.val>> /\ tx' # <<>>  BY <2>1, <2>2 DEF Submit
    <3> QED  BY <2>1, <2>2, <3>1 DEF Submit, world
  <2>3. CASE ~ request.ok  BY <2>1, <2>3 DEF Submit, Refuse, world
  <2> QED  BY <2>2, <2>3
<1>4. CASE Mines
  <2>1. PICK before \in Befores : MineBurn(before)  BY <1>4 DEF Mines
  <2>2. <<Log("Transfer", NoBytes)>> \o before
          \o <<Log("MessageSent", MessageOfBurn), Log("DepositForBurn", NoBytes)>>
        # <<>>
    <3>1. \A x : <<x>> \in Seq({x}) /\ <<>> \in Seq({x})  OBVIOUS
    <3>2. before \in Seq({Log("MessageSent", ForeignMessage)})
      BY <3>1 DEF Befores
    <3> QED  BY <3>2
  <2> QED  BY <2>1, <2>2 DEF MineBurn
<1>5. CASE Changes
  BY <1>5, SessionAssumption DEF Changes, ChangeFee, ChangeMinimum, client
<1>6. CASE Signs
  BY <1>6 DEF Signs, IrisSigns, client
<1>7. CASE Extracts
  BY <1>7 DEF Extracts, Extract, world
<1>8. CASE Polling
  BY <1>8 DEF Polling, AwaitSigned, AwaitSibling, AwaitNothing, world
<1>9. CASE Mint
  BY <1>9 DEF Mint, Refuse, world
<1>10. CASE UNCHANGED vars
  BY <1>10 DEF vars
<1> QED
  BY <1>1, <1>2, <1>3, <1>4, <1>5, <1>6, <1>7, <1>8, <1>9, <1>10 DEF SessionStep

---------------------------------------------------------------------------

\* What a burn that is not refused returns.
LEMMA BurnReturns ==
  ASSUME NEW b, NEW token, NEW amount, Burn(b, token, amount).ok
  PROVE  /\ TokenMessengerV2Contract(b).ok /\ DestinationDomainId(b).ok
         /\ Burn(b, token, amount)
              = Ok([to   |-> TokenMessengerV2Contract(b).val,
                    call |-> BurnRequest(b, DestinationDomainId(b).val, token,
                                         amount)])
BY DEF Burn, AndThen, Err

\* The same of a v1 burn.
LEMMA BurnV1Returns ==
  ASSUME NEW b, NEW token, NEW amount, BurnV1(b, token, amount).ok
  PROVE  /\ TokenMessengerAddress(b.source).ok /\ CctpDomainId(b.destination).ok
         /\ BurnV1(b, token, amount)
              = Ok([to   |-> TokenMessengerAddress(b.source).val,
                    call |-> DepositForBurnV1(b.recipient,
                               CctpDomainId(b.destination).val, token, amount)])
BY DEF BurnV1, AndThen

\* The bridges of the builders are those a burn is understood for.
LEMMA BridgesAreBridges ==
  ASSUME NEW b \in Bridges
  PROVE  IsBridge(b) /\ b.mode \in Mode /\ b.recipient = "recipient"
BY DEF Bridges, Mode, IsBridge

\* What is sent is what was returned for the token and the amount it names.
LEMMA SentRequest ==
  ASSUME BridgeInv, NEW amount \in Nat, NEW request, request.ok,
         \/ version = "v2" /\ RequestV2(request, amount)
         \/ version = "v1" /\ RequestV1(request, amount)
  PROVE  LET call == request.val.call
         IN /\ call.amount = amount
            /\ version = "v2" => Burn(built, call.token, amount) = Ok(request.val)
            /\ version = "v1" => BurnV1(built, call.token, amount) = Ok(request.val)
<1>1. CASE version = "v2"
  <2>1. PICK token : request = Burn(built, token, amount)
    BY <1>1 DEF RequestV2
  <2>2. request = Ok([to   |-> TokenMessengerV2Contract(built).val,
                      call |-> BurnRequest(built, DestinationDomainId(built).val,
                                           token, amount)])
    BY <2>1, BurnReturns
  <2>3. LET call == BurnRequest(built, DestinationDomainId(built).val, token, amount)
        IN call.amount = amount /\ call.token = token
    BY BridgesAreBridges, BurnAsksForTheMode DEF BridgeInv
  <2>4. /\ request.val.call
             = BurnRequest(built, DestinationDomainId(built).val, token, amount)
        /\ request = Ok(request.val)
    BY <2>2, Results
  <2> QED  BY <1>1, <2>1, <2>3, <2>4
<1>2. CASE version = "v1"
  <2>1. PICK token : request = BurnV1(built, token, amount)
    BY <1>2 DEF RequestV1
  <2> DEFINE call == DepositForBurnV1(built.recipient,
                       CctpDomainId(built.destination).val, token, amount)
  <2>2. request = Ok([to   |-> TokenMessengerAddress(built.source).val,
                      call |-> call])
    BY <2>1, BurnV1Returns
  <2>3. call.amount = amount /\ call.token = token
    BY DEF DepositForBurnV1, DepositForBurnInternal, BurnCall
  <2> HIDE DEF call
  <2>4. request.val.call = call /\ request = Ok(request.val)
    BY <2>2, Results
  <2> QED  BY <1>2, <2>1, <2>3, <2>4
<1> QED  BY <1>1, <1>2

\* A step sends what burn returned, or leaves the request and its bridge alone.
LEMMA RequestInvStep ==
  ASSUME BridgeInv, PhaseInv, RequestInv, SessionStep
  PROVE  RequestInv'
<1>1. CASE tx # <<>>
  <2>1. UNCHANGED <<version, built, quote, tx>>
    BY <1>1, SessionSettles DEF Settled
  <2> QED  BY <1>1, <2>1 DEF RequestInv, Call
<1>2. CASE tx' = <<>>  BY <1>2 DEF RequestInv
<1>3. CASE tx = <<>> /\ tx' # <<>>
  <2>1. Sends
    BY <1>3 DEF SessionStep, Builds, BuildV2, BuildFromRoute, BuildV1, Built,
         Quotes, QuoteFastFee, QuoteStandardFee, Mines, MineBurn, Changes,
         ChangeFee, ChangeMinimum, client, Signs, IrisSigns, Extracts, Extract,
         Polling, AwaitSigned, AwaitSibling, AwaitNothing, Mint, vars
  <2>2. PICK amount \in Nat : \E request :
          /\ \/ version = "v2" /\ Quoted(amount) /\ RequestV2(request, amount)
             \/ version = "v1" /\ RequestV1(request, amount)
          /\ Submit(request)
    BY <2>1 DEF Sends
  <2>3. PICK request :
          /\ \/ version = "v2" /\ Quoted(amount) /\ RequestV2(request, amount)
             \/ version = "v1" /\ RequestV1(request, amount)
          /\ Submit(request)
    BY <2>2
  <2>4. /\ request.ok /\ tx' = <<request.val>>
        /\ UNCHANGED <<version, built, quote>>
    BY <1>3, <2>3 DEF Submit
  <2>5. LET call == request.val.call
        IN /\ call.amount = amount
           /\ version = "v2" => Burn(built, call.token, amount) = Ok(request.val)
           /\ version = "v1" => BurnV1(built, call.token, amount) = Ok(request.val)
    BY <2>3, <2>4, SentRequest
  <2>6. tx'[1] = request.val /\ Call' = request.val.call
    BY <2>4 DEF Call
  <2>7. quote # <<>> => quote[1].amount = amount
    BY <2>3 DEF Quoted, BridgeInv
  <2> QED  BY <2>4, <2>5, <2>6, <2>7 DEF RequestInv
<1> QED  BY <1>1, <1>2, <1>3

\* The message of a burn that was sent does not change.
LEMMA BurnKeepsMessage ==
  ASSUME UNCHANGED <<version, built, tx>>
  PROVE  /\ UNCHANGED <<MessageOfBurn, Call, SentMessage>>
         /\ UNCHANGED minimum => BurnIsAccepted(Call)' = BurnIsAccepted(Call)
         /\ IsRegistered(Call.token)' = IsRegistered(Call.token)
         /\ \A before : LogsOf(before)' = LogsOf(before)
<1>1. UNCHANGED <<MessageOfBurn, Call, SentMessage, LocalDomain, HasFeeSwitch>>
  BY DEF MessageOfBurn, Call, SentMessage, LocalDomain, HasFeeSwitch
<1> QED  BY <1>1 DEF BurnIsAccepted, IsRegistered, LogsOf

\* Logs appear with the burn that the messenger accepts, and stay.
LEMMA LogInvStep ==
  ASSUME PhaseInv, LogInv, SessionStep
  PROVE  LogInv'
<1>1. CASE Mines
  <2>1. PICK before \in Befores : MineBurn(before)  BY <1>1 DEF Mines
  <2>2. UNCHANGED <<version, built, tx, minimum>>  BY <2>1 DEF MineBurn
  <2>3. pc = "sent" /\ logs = <<>>  BY <2>1 DEF MineBurn, PhaseInv
  <2>4. \/ logs' = LogsOf(before) /\ pc' = "mined"
        \/ /\ ~ BurnIsAccepted(Call) \/ ~ IsRegistered(Call.token)
           /\ logs' = <<>>
    BY <2>1, <2>3 DEF MineBurn, Call, LogsOf
  <2> QED  BY <2>2, <2>4, BurnKeepsMessage DEF LogInv
<1>2. CASE ~ Mines
  <2>1. UNCHANGED logs /\ (pc' = "reverted" => pc = "reverted")
    BY <1>2 DEF SessionStep, Builds, BuildV2, BuildFromRoute, BuildV1, Built,
         Quotes, QuoteFastFee, QuoteStandardFee, Sends, Submit, Refuse, Changes,
         ChangeFee, ChangeMinimum,
         client, Signs, IrisSigns, Extracts, Extract, Polling, AwaitSigned,
         AwaitSibling, AwaitNothing, Mint, world, vars
  <2>2. /\ logs # <<>> \/ pc = "reverted" => UNCHANGED <<version, built, tx>>
        /\ pc = "reverted" => UNCHANGED minimum
    BY SessionSettles DEF Settled, PhaseInv, PCs
  <2> QED  BY <2>1, <2>2, BurnKeepsMessage DEF LogInv
<1> QED  BY <1>1, <1>2

\* Signing again is not possible: what was signed stays, and the fee with it.
LEMMA SignInvStep ==
  ASSUME PhaseInv, SignInv, SessionStep
  PROVE  SignInv'
<1>1. CASE canonical # NoBytes
  <2>1. UNCHANGED <<version, built, tx, canonical, published>>
    BY <1>1, SessionSettles DEF Settled, PhaseInv
  <2>2. UNCHANGED <<MessageOfBurn, Call, SentMessage>>
    BY <2>1, BurnKeepsMessage
  <2>3. \A takes : SignedMessage(takes)' = SignedMessage(takes)
    BY <2>1, <2>2 DEF SignedMessage, Completed, ExecutesFast
  <2> QED  BY <1>1, <2>1, <2>2, <2>3 DEF SignInv
<1>2. CASE canonical' = NoBytes  BY <1>2 DEF SignInv
<1>3. CASE canonical = NoBytes /\ canonical' # NoBytes
  <2>1. Signs
    BY <1>3 DEF SessionStep, Builds, BuildV2, BuildFromRoute, BuildV1, Built,
         Quotes, QuoteFastFee, QuoteStandardFee, Sends, Submit, Mines, MineBurn,
         Changes, ChangeFee, ChangeMinimum, client, Extracts, Extract, Polling, AwaitSigned,
         AwaitSibling, AwaitNothing, Mint, world, vars
  <2>2. tx # <<>>  BY <2>1 DEF Signs, IrisSigns, PhaseInv, PCs
  <2>3. PICK takes \in {0, Call.max_fee} : IrisSigns(takes)
    BY <2>1, <2>2 DEF Signs, Call
  <2>4. UNCHANGED <<version, built, tx, published>>
    BY <2>3 DEF IrisSigns, client
  <2>5. UNCHANGED <<MessageOfBurn, Call, SentMessage>>
    BY <2>4, BurnKeepsMessage
  <2>6. SignedMessage(takes)' = SignedMessage(takes)
    BY <2>4, <2>5 DEF SignedMessage, Completed, ExecutesFast
  <2>7. canonical' = IF version = "v1" THEN MessageOfBurn
                     ELSE Encode(SignedMessage(takes))
    BY <2>3 DEF IrisSigns, SignedMessage, SentMessage, Call
  <2> QED  BY <2>3, <2>4, <2>5, <2>6, <2>7 DEF SignInv
<1> QED  BY <1>1, <1>2, <1>3

\* Logs, once there, are the same for every later extraction.
LEMMA ExtractInvStep ==
  ASSUME PhaseInv, ExtractInv, SessionStep
  PROVE  ExtractInv'
<1>1. ASSUME NEW receipt \in {Receipt, [kind |-> "error", logs |-> <<>>]},
             Extract(receipt)
      PROVE  ExtractInv'
  <2>1. extracted' = GetMessageSentEvent(receipt) /\ UNCHANGED logs
    BY <1>1 DEF Extract, world
  <2>2. SUFFICES ASSUME extracted'.ok
                 PROVE  /\ logs # <<>>
                        /\ receipt = [kind |-> "found", logs |-> logs]
    BY <2>1 DEF ExtractInv
  <2>3. receipt.kind = "found"
    <3>1. receipt.kind \in {"error", "absent", "found"}
      BY DEF Receipt
    <3> QED  BY <2>1, <2>2, <3>1, Results DEF GetMessageSentEvent
  <2>4. receipt = [kind |-> "found", logs |-> logs]
    BY <2>3 DEF Receipt
  <2>5. logs # <<>>
    <3>1. SUFFICES ASSUME logs = <<>> PROVE FALSE
      OBVIOUS
    <3>2. receipt.logs = <<>> /\ DOMAIN receipt.logs = {}  BY <2>4, <3>1
    <3>3. ~ Find(receipt.logs, LAMBDA log : log.topic = "MessageSent").ok
      BY <3>2, Results DEF Find
    <3> QED  BY <2>1, <2>2, <2>3, <3>3, Results DEF GetMessageSentEvent
  <2> QED  BY <2>4, <2>5
<1>2. CASE Extracts  BY <1>1, <1>2 DEF Extracts
<1>3. CASE UNCHANGED extracted
  <2>1. extracted.ok => UNCHANGED logs
    BY SessionSettles DEF Settled, ExtractInv
  <2> QED  BY <1>3, <2>1 DEF ExtractInv
<1>4. Extracts \/ UNCHANGED extracted
  BY DEF SessionStep, Builds, BuildV2, BuildFromRoute, BuildV1, Built,
         Quotes, QuoteFastFee, QuoteStandardFee, Sends, Submit, Mines, MineBurn,
         Changes, ChangeFee, ChangeMinimum, client, Signs, IrisSigns, Polling, AwaitSigned,
         AwaitSibling, AwaitNothing, Mint, vars
<1> QED  BY <1>2, <1>3, <1>4

\* A session that asked for what was signed ends for the chain's finality, or
\* for what the destination says.
LEMMA EndInvStep ==
  ASSUME PhaseInv, EndInv, SessionStep
  PROVE  EndInv'
<1> DEFINE asking == <<version, built, extracted, canonical>>
<1>1. UNCHANGED asking =>
        /\ Asked' = Asked /\ DestinationAccepts' = DestinationAccepts
        /\ Signed' = Signed /\ FinalitySecs' = FinalitySecs
        /\ PollingOfBridge' = PollingOfBridge
  BY DEF Asked, DestinationAccepts, Signed, FinalitySecs, PollingOfBridge
<1>2. CASE AwaitSigned
  <2>1. UNCHANGED asking  BY <1>2 DEF AwaitSigned, world
  <2> QED  BY <1>1, <1>2, <2>1 DEF AwaitSigned, EndInv, PhaseInv
<1>3. CASE AwaitSibling
  <2>1. UNCHANGED asking  BY <1>3 DEF AwaitSibling, world
  <2> QED  BY <1>1, <1>3, <2>1 DEF AwaitSibling, EndInv
<1>4. CASE AwaitNothing
  <2>1. /\ UNCHANGED <<version, canonical, taken>> /\ pc' = "timedout"
        /\ taken = "none"
    BY <1>4 DEF AwaitNothing, world, PhaseInv
  <2>2. ~ Signed  BY <1>4 DEF AwaitNothing, Signed, Asked
  <2> QED  BY <2>1, <2>2 DEF EndInv, Signed
<1>5. CASE Mint
  <2>1. UNCHANGED asking /\ UNCHANGED taken  BY <1>5 DEF Mint, world
  <2> QED  BY <1>1, <1>5, <2>1 DEF Mint, Refuse, EndInv
<1>6. CASE UNCHANGED <<pc, taken>> /\ UNCHANGED asking
  BY <1>1, <1>6 DEF EndInv
<1>7. CASE taken' = "none" /\ pc' # "timedout"  BY <1>7 DEF EndInv
<1>8. \/ AwaitSigned \/ AwaitSibling \/ AwaitNothing \/ Mint
      \/ UNCHANGED <<pc, taken>> /\ UNCHANGED asking
      \/ taken' = "none" /\ pc' # "timedout"
  BY DEF PhaseInv, SessionStep, Builds, BuildV2, BuildFromRoute, BuildV1, Built,
         Refuse, Quotes, QuoteFastFee, QuoteStandardFee, Sends, Submit, Mines,
         MineBurn, Changes, ChangeFee, ChangeMinimum, client, world, Signs,
         IrisSigns, Extracts, Extract, Polling, vars
<1> QED  BY <1>2, <1>3, <1>4, <1>5, <1>6, <1>7, <1>8

---------------------------------------------------------------------------

\* Every program starts a session in which all parts hold.
LEMMA SessionInvInit == ProgramInit => SessionInv
<1> SUFFICES ASSUME ProgramInit PROVE SessionInv
  OBVIOUS
<1>1. SessionInit  BY DEF ProgramInit
<1>2. /\ pc = "start" /\ tx = <<>> /\ logs = <<>> /\ canonical = NoBytes
      /\ ~ extracted.ok /\ taken = "none"
  BY <1>1, Results DEF SessionInit
<1> QED
  BY <1>1, <1>2, BridgeInvInit, PhaseInvInit
  DEF SessionInv, RequestInv, LogInv, SignInv, ExtractInv, EndInv

\* The stages of a program and the session it drives, together.
IInv == StageInv /\ TokenInv /\ ProgramInv /\ SessionInv

\* The session's invariant needs to know that a program takes the session's steps,
\* which its stages and its token are about.
THEOREM IInvHolds == ProgramSpec => []IInv
<1>1. ProgramInit => IInv
  BY StageInvInit, TokenInvInit, ProgramInvInit, SessionInvInit DEF IInv
<1>2. IInv /\ [ProgramNext]_allVars => IInv'
  <2> SUFFICES ASSUME IInv, [ProgramNext]_allVars PROVE IInv'
    OBVIOUS
  <2>1. SessionStep  BY ProgramSteps DEF IInv
  <2>2. SessionInv'
    BY <2>1, BridgeInvStep, PhaseInvStep, RequestInvStep, LogInvStep, SignInvStep,
       ExtractInvStep, EndInvStep DEF IInv, SessionInv
  <2> QED  BY <2>2, StageInvStep, TokenInvStep, ProgramInvStep DEF IInv
<1> QED  BY <1>1, <1>2, PTL DEF ProgramSpec

\* SessionInv holds of every session, whichever program drives it.
THEOREM SessionInvHolds == ProgramSpec => []SessionInv
<1>1. IInv => SessionInv  BY DEF IInv
<1> QED  BY <1>1, IInvHolds, PTL

\* Every variable of the session has its type, and what a session holds agrees
\* with how far it is.
THEOREM TypeOKHolds == ProgramSpec => []TypeOK
<1>1. SessionInv => TypeOK
  <2> SUFFICES ASSUME SessionInv PROVE TypeOK
    OBVIOUS
  <2>1. built.mode \in Mode /\ built.source \in Chains \cup {"none"}
        /\ built.destination \in Chains \cup {"none"}
    BY DEF SessionInv, BridgeInv, Bridges
  <2> QED  BY <2>1 DEF SessionInv, BridgeInv, PhaseInv, TypeOK
<1> QED  BY SessionInvHolds, <1>1, PTL

---------------------------------------------------------------------------
(* What a v2 burn asked for, and what Iris signed of it.                   *)

\* A v2 session that burned is on a route of supported chains, and its request
\* is that of its mode.
BurnedV2 ==
  /\ {built.source, built.destination} \subseteq SupportsCctpV2
  /\ DomainIdV2Arms[built.source] \in Domains
  /\ DomainIdV2Arms[built.destination] \in Domains
  /\ DestinationDomainId(built) = Ok(DomainIdV2Arms[built.destination])
  /\ tx[1].to = TokenMessengerV2Contract(built).val
  /\ Call.min_finality = FinalityAsU32[FinalityThreshold(built.mode)]
  /\ Call.max_fee = ModeMaxFee(built.mode)
  /\ Call.hook = (IF HasHook(built.mode) THEN built.mode.hook_data ELSE <<>>)
  /\ Call.hook \in Seq({"byte"})
  /\ Call.domain = AsU32[DomainIdV2Arms[built.destination]]
  /\ Call.recipient = built.recipient /\ Call.caller = Anyone
  /\ Call.amount \in Nat /\ Call.max_fee \in Nat
  /\ Burn(built, Call.token, Call.amount).ok
  /\ Burn(built, Call.token, Call.amount).val.call = Call

\* Its burn passed every guard of `burn` and took its fields from the mode.
LEMMA SessionBurnedV2 ==
  ASSUME SessionInv, version = "v2", tx # <<>>
  PROVE  BurnedV2
<1> DEFINE burn   == Burn(built, Call.token, Call.amount)
           domain == DestinationDomainId(built)
<1>1. burn = Ok(tx[1]) /\ Call.amount \in Nat
  BY DEF SessionInv, RequestInv
<1>2. /\ TokenMessengerV2Contract(built).ok /\ domain.ok
      /\ tx[1] = [to |-> TokenMessengerV2Contract(built).val,
                  call |-> BurnRequest(built, domain.val, Call.token, Call.amount)]
  BY <1>1, BurnReturns, Results
<1>3. {built.source, built.destination} \subseteq SupportsCctpV2
  BY <1>2, Results DEF TokenMessengerV2Contract, TokenMessengerV2Address,
                       DestinationDomainId, CctpV2DomainId, IfSupported
<1>4. \A chain \in SupportsCctpV2 :
        chain \in DOMAIN DomainIdV2Arms /\ DomainIdV2Arms[chain] \in Domains
  BY DEF SupportsCctpV2, DomainIdV2Arms, Domains, AsU32
<1>5. domain = Ok(DomainIdV2Arms[built.destination])
  BY <1>3, <1>4 DEF DestinationDomainId, CctpV2DomainId, IfSupported
<1>6. IsBridge(built) /\ built.mode \in Mode
  BY BridgesAreBridges DEF SessionInv, BridgeInv
<1>7. domain.val = DomainIdV2Arms[built.destination]  BY <1>5, Results
<1> HIDE DEF domain
<1>8. /\ Call = BurnRequest(built, domain.val, Call.token, Call.amount)
      /\ tx[1].to = TokenMessengerV2Contract(built).val
  BY <1>2 DEF Call
<1>9. /\ Call.min_finality = FinalityAsU32[FinalityThreshold(built.mode)]
      /\ Call.max_fee = ModeMaxFee(built.mode)
      /\ Call.hook = (IF HasHook(built.mode) THEN built.mode.hook_data ELSE <<>>)
      /\ Call.domain = AsU32[DomainIdV2Arms[built.destination]]
      /\ Call.recipient = built.recipient /\ Call.caller = Anyone
  BY <1>6, <1>7, <1>8, BurnAsksForTheMode
<1>10. Call.max_fee \in Nat  BY <1>6, <1>9 DEF Mode, ModeMaxFee
<1>11. Call.hook \in Seq({"byte"})
  <2>1. <<>> \in Seq({"byte"})  OBVIOUS
  <2>2. built.mode.hook_data \in Seq({"byte"})  BY <1>6 DEF Mode
  <2> QED  BY <1>9, <2>1, <2>2
<1>12. burn.ok /\ burn.val.call = Call  BY <1>1, Results DEF Call
<1> QED
  BY <1>1, <1>3, <1>4, <1>5, <1>7, <1>8, <1>9, <1>10, <1>11, <1>12 DEF BurnedV2, domain

\* The header and the body of the message of the burn, but for what Iris fills.
BurnHeader(nonce, executed) ==
  MessageHeader(DomainIdV2Arms[built.source], DomainIdV2Arms[built.destination],
                nonce, AddressWord(tx[1].to), AddressWord(tx[1].to),
                AddressWord(Anyone),
                FinalityAsU32[FinalityThreshold(built.mode)], executed)

BodyOf(call, cap, hook, fee, block) ==
  [version |-> 1, burn_token |-> AddressWord(call.token),
   mint_recipient |-> AddressWord(call.recipient), amount |-> call.amount,
   message_sender |-> AddressWord("sender"), max_fee |-> cap,
   fee_executed |-> fee, expiration_block |-> block, hook_data |-> hook]

BurnBody(fee, block) == BodyOf(Call, Call.max_fee, Call.hook, fee, block)

BurnMessageOf(nonce, executed, fee, block) ==
  [header |-> BurnHeader(nonce, executed), body |-> BurnBody(fee, block)]

Executed == FinalityAsU32[IF ExecutesFast(Call) THEN "Fast" ELSE "Standard"]

Charged(takes) ==
  IF ExecutesFast(Call) THEN ApplyToAmount(published, Call.amount) ELSE takes

\* What Iris fills in of a header and of a body.
Assigned(h, executed) ==
  [h EXCEPT !.nonce = "assigned", !.finality_threshold_executed = executed]

ChargedBody(b, fee) == [b EXCEPT !.fee_executed = fee]

\* The builders of a body and a header change the field they name.
LEMMA BodyBuilders ==
  ASSUME NEW call, NEW cap, NEW hook, NEW fee, NEW block
  PROVE  /\ NewWithHooks(call.token, call.recipient, call.amount, "sender", hook)
              = BodyOf(call, 0, hook, 0, 0)
         /\ WithMaxFee(BodyOf(call, 0, hook, 0, 0), cap)
              = BodyOf(call, cap, hook, 0, 0)
         /\ ChargedBody(BodyOf(call, cap, hook, 0, 0), fee)
              = BodyOf(call, cap, hook, fee, 0)
         /\ WithExpirationBlock(BodyOf(call, cap, hook, fee, 0), block)
              = BodyOf(call, cap, hook, fee, block)
<1>1. NewWithHooks(call.token, call.recipient, call.amount, "sender", hook)
        = BodyOf(call, 0, hook, 0, 0)
  BY DEF NewWithHooks, BurnMessage, BodyOf
<1>2. WithMaxFee(BodyOf(call, 0, hook, 0, 0), cap) = BodyOf(call, cap, hook, 0, 0)
  BY DEF WithMaxFee, BodyOf
<1>3. ChargedBody(BodyOf(call, cap, hook, 0, 0), fee)
        = BodyOf(call, cap, hook, fee, 0)
  BY DEF ChargedBody, BodyOf
<1>4. WithExpirationBlock(BodyOf(call, cap, hook, fee, 0), block)
        = BodyOf(call, cap, hook, fee, block)
  BY DEF WithExpirationBlock, BodyOf
<1> QED  BY <1>1, <1>2, <1>3, <1>4

\* A header with a nonce and a finality assigned is the header built with them.
LEMMA HeaderCompleted ==
  ASSUME NEW source, NEW dest, NEW word, NEW caller, NEW min, NEW executed
  PROVE  Assigned(MessageHeader(source, dest, "zero", word, word, caller, min, 0),
                  executed)
           = MessageHeader(source, dest, "assigned", word, word, caller, min,
                           executed)
<1>1. \A h : Assigned(h, executed)
               = [[h EXCEPT !.nonce = "assigned"]
                    EXCEPT !.finality_threshold_executed = executed]
  BY DEF Assigned
<1>2. [MessageHeader(source, dest, "zero", word, word, caller, min, 0)
         EXCEPT !.nonce = "assigned"]
        = MessageHeader(source, dest, "assigned", word, word, caller, min, 0)
  BY DEF MessageHeader
<1>3. [MessageHeader(source, dest, "assigned", word, word, caller, min, 0)
         EXCEPT !.finality_threshold_executed = executed]
        = MessageHeader(source, dest, "assigned", word, word, caller, min, executed)
  BY DEF MessageHeader
<1> QED  BY <1>1, <1>2, <1>3

\* What the messenger sends, and what Iris completes it to.
LEMMA MessagesOfBurn ==
  ASSUME BurnedV2
  PROVE  /\ SentMessage = BurnMessageOf("zero", 0, 0, 0)
         /\ \A takes : SignedMessage(takes)
                         = BurnMessageOf("assigned", Executed, Charged(takes), 1)
<1>1. FromU32Arms[Call.domain] = DomainIdV2Arms[built.destination]
  BY DomainNumbersInvert DEF BurnedV2
<1>2. WithMaxFee(NewWithHooks(Call.token, Call.recipient, Call.amount, "sender",
                              Call.hook), Call.max_fee)
        = BurnBody(0, 0)
  BY BodyBuilders DEF BurnBody
<1>3. SentMessage = BurnMessageOf("zero", 0, 0, 0)
  BY <1>1, <1>2 DEF BurnedV2, SentMessage, TemplateV2, BurnMessageOf, BurnHeader
<1>4. ASSUME NEW takes
      PROVE  SignedMessage(takes)
               = BurnMessageOf("assigned", Executed, Charged(takes), 1)
  <2>1. /\ SentMessage.header = BurnHeader("zero", 0)
        /\ SentMessage.body = BurnBody(0, 0)
    BY <1>3 DEF BurnMessageOf
  <2>2. SignedMessage(takes)
          = [header |-> Assigned(SentMessage.header, Executed),
             body |-> WithExpirationBlock(
                        ChargedBody(SentMessage.body, Charged(takes)), 1)]
    BY Zenon DEF SignedMessage, Completed, Assigned, ChargedBody, Executed, Charged
  <2>3. Assigned(BurnHeader("zero", 0), Executed) = BurnHeader("assigned", Executed)
    BY HeaderCompleted DEF BurnHeader
  <2>4. WithExpirationBlock(ChargedBody(BurnBody(0, 0), Charged(takes)), 1)
          = BurnBody(Charged(takes), 1)
    BY BodyBuilders DEF BurnBody
  <2> QED  BY <2>1, <2>2, <2>3, <2>4 DEF BurnMessageOf
<1> QED  BY <1>3, <1>4

\* Both are messages of the format, so that each is read as it was written.
LEMMA BurnMessagesAreRead ==
  ASSUME BurnedV2, NEW nonce, NEW executed, NEW fee, NEW block
  PROVE  LET m == BurnMessageOf(nonce, executed, fee, block)
         IN /\ Decode(Encode(m)) = Ok(m)
            /\ Parse(Encode(m)) = Ok(m)
<1> DEFINE m == BurnMessageOf(nonce, executed, fee, block)
<1>1. IsMessage(m)
  BY DEF BurnedV2, BurnMessageOf, BurnHeader, BurnBody, BodyOf, MessageHeader,
         AddressWord, IsMessage
<1> HIDE DEF m
<1>2. Decode(Encode(m)) = Ok(m) /\ Parse(Encode(m)) = Ok(m)
  BY <1>1, EncodedMessageIsRead
<1> QED  BY <1>2 DEF m

\* What Iris signed of a v2 burn is the message of the burn with a nonce, what it
\* executed, what it charged and an expiration.  The fee published by then is
\* still there: ChangeFee stops at the signature.
LEMMA SignedIsRead ==
  ASSUME SessionInv, Signed
  PROVE  /\ BurnedV2 /\ tx # <<>> /\ logs # <<>>
         /\ \E takes \in {0, Call.max_fee} :
              LET m == BurnMessageOf("assigned", Executed, Charged(takes), 1)
              IN /\ canonical = Encode(m)
                 /\ Decode(canonical) = Ok(m)
                 /\ Parse(canonical) = Ok(m)
<1>1. version = "v2" /\ tx # <<>> /\ logs # <<>>
  BY DEF SessionInv, PhaseInv, Signed
<1>2. BurnedV2  BY <1>1, SessionBurnedV2
<1>3. PICK takes \in {0, Call.max_fee} : canonical = Encode(SignedMessage(takes))
  BY <1>1 DEF SessionInv, SignInv, Signed
<1>4. canonical = Encode(BurnMessageOf("assigned", Executed, Charged(takes), 1))
  BY <1>2, <1>3, MessagesOfBurn
<1> QED  BY <1>1, <1>2, <1>4, BurnMessagesAreRead

\* The fields of the message of a burn.
LEMMA BurnMessageFields ==
  ASSUME BurnedV2, NEW nonce, NEW executed, NEW fee, NEW block
  PROVE  LET m == BurnMessageOf(nonce, executed, fee, block)
         IN /\ m.header.nonce = nonce
            /\ m.header.finality_threshold_executed = executed
            /\ m.header.min_finality_threshold
                 = FinalityAsU32[FinalityThreshold(built.mode)]
            /\ m.header.source_domain = DomainIdV2Arms[built.source]
            /\ m.header.destination_domain = DomainIdV2Arms[built.destination]
            /\ m.header.destination_caller = AddressWord(Anyone)
            /\ m.body.max_fee = Call.max_fee /\ m.body.hook_data = Call.hook
            /\ m.body.mint_recipient = AddressWord(built.recipient)
            /\ m.body.fee_executed = fee
<1> DEFINE m == BurnMessageOf(nonce, executed, fee, block)
<1>1. m.header = BurnHeader(nonce, executed) /\ m.body = BurnBody(fee, block)
  BY DEF BurnMessageOf
<1>2. LET h == BurnHeader(nonce, executed)
      IN /\ h.nonce = nonce /\ h.finality_threshold_executed = executed
         /\ h.min_finality_threshold = FinalityAsU32[FinalityThreshold(built.mode)]
         /\ h.source_domain = DomainIdV2Arms[built.source]
         /\ h.destination_domain = DomainIdV2Arms[built.destination]
         /\ h.destination_caller = AddressWord(Anyone)
  BY DEF BurnHeader, MessageHeader
<1>3. LET b == BurnBody(fee, block)
      IN /\ b.max_fee = Call.max_fee /\ b.hook_data = Call.hook
         /\ b.mint_recipient = AddressWord(Call.recipient)
         /\ b.fee_executed = fee
  BY DEF BurnBody, BodyOf
<1> HIDE DEF m
<1> QED  BY <1>1, <1>2, <1>3 DEF BurnedV2, m

\* The fee charged on an amount is a number.
LEMMA FeeIsNat ==
  ASSUME NEW fee \in Nat, NEW amount \in Nat
  PROVE  ApplyToAmount(fee, amount) \in Nat
<1>1. BPS_HUNDREDTH_DENOMINATOR \in Nat \ {0}
  BY DEF BPS_HUNDREDTH_DENOMINATOR
<1>2. amount * fee \in Nat  BY SMT
<1> QED  BY <1>1, <1>2, CeilDivNat DEF ApplyToAmount

\* The finality Iris attests is what it executed.
AttestedAs == Ok(IF ExecutesFast(Call) THEN "Fast" ELSE "Standard")

\* What a signed v2 message decodes and parses to, and what it attests.
LEMMA SignedFields ==
  ASSUME SessionInv, Signed
  PROVE  /\ BurnedV2
         /\ \E takes \in {0, Call.max_fee} :
              LET m == BurnMessageOf("assigned", Executed, Charged(takes), 1)
              IN /\ canonical = Encode(m)
                 /\ Decode(canonical) = Ok(m) /\ Decode(canonical).val = m
                 /\ Parse(canonical) = Ok(m)
                 /\ AttestedFinality(m.header) = AttestedAs
<1>1. PICK takes \in {0, Call.max_fee} :
        LET m == BurnMessageOf("assigned", Executed, Charged(takes), 1)
        IN /\ canonical = Encode(m)
           /\ Decode(canonical) = Ok(m)
           /\ Parse(canonical) = Ok(m)
  BY SignedIsRead
<1> DEFINE m == BurnMessageOf("assigned", Executed, Charged(takes), 1)
<1>2. m.header.finality_threshold_executed = Executed
  BY SignedIsRead, BurnMessageFields
<1>3. FinalityFromU32(Executed) = AttestedAs
  BY DEF FinalityFromU32, Executed, FinalityAsU32, AttestedAs
<1> HIDE DEF m
<1>4. AttestedFinality(m.header) = AttestedAs
  BY <1>2, <1>3, Results DEF AttestedFinality, OrElse, AttestedAs
<1>5. /\ canonical = Encode(m) /\ Decode(canonical) = Ok(m) /\ Parse(canonical) = Ok(m)
  BY <1>1 DEF m
<1>6. Decode(canonical).val = m  BY <1>5, Results
<1> QED  BY <1>4, <1>5, <1>6, SignedIsRead DEF m

---------------------------------------------------------------------------
(* The theorems.                                                           *)

\* The message of a validated route is never refused at its destination, for every
\* route CctpV2Route::new accepts: only one taken from another burn can be.
THEOREM ValidatedRouteMintsHolds == ProgramSpec => []ValidatedRouteMints
<1>1. SessionInv => ValidatedRouteMints
  <2> SUFFICES ASSUME SessionInv, validated, pc = "mintrefused",
                      taken # "sibling"
               PROVE  FALSE
    BY DEF ValidatedRouteMints
  <2>1. /\ version = "v2" /\ RouteNew(built.source, built.destination).ok
        /\ Signed /\ ~ DestinationAccepts
    BY DEF SessionInv, BridgeInv, PhaseInv, EndInv, Signed
  <2>2. PICK takes : Decode(canonical).val
                       = BurnMessageOf("assigned", Executed, Charged(takes), 1)
    BY <2>1, SignedFields
  <2>3. LET h == Decode(canonical).val.header
        IN /\ h.nonce = "assigned"
           /\ Ok(h.destination_domain) = DestinationDomainId(built)
    BY <2>1, <2>2, SignedFields, BurnMessageFields DEF BurnedV2
  <2>4. IsTestnet(built.source) = IsTestnet(built.destination)
    BY <2>1, RouteNewAccepts
  <2> QED  BY <2>1, <2>3, <2>4 DEF DestinationAccepts, HasPlaceholderNonce
<1> QED  BY SessionInvHolds, <1>1, PTL

\* What Iris signs asks for what the accessors of the bridge report, for every
\* mode, cap, hook and route.
THEOREM WireAgreesWithModeHolds == ProgramSpec => []WireAgreesWithMode
<1>1. SessionInv => WireAgreesWithMode
  <2> SUFFICES ASSUME SessionInv, Signed PROVE WireAgreesWithMode
    BY DEF WireAgreesWithMode
  <2>1. BurnedV2  BY SignedFields
  <2>2. PICK takes :
          LET m == BurnMessageOf("assigned", Executed, Charged(takes), 1)
          IN Decode(canonical) = Ok(m) /\ Decode(canonical).val = m
    BY SignedFields
  <2> DEFINE message == Decode(canonical)
             h == message.val.header
             b == message.val.body
  <2>3. message.ok  BY <2>2, Results
  <2>4. /\ h.min_finality_threshold = FinalityAsU32[FinalityThreshold(built.mode)]
        /\ h.destination_domain = DomainIdV2Arms[built.destination]
        /\ h.destination_caller = AddressWord(Anyone)
        /\ b.max_fee = Call.max_fee /\ b.hook_data = Call.hook
        /\ b.mint_recipient = AddressWord(built.recipient)
    BY <2>1, <2>2, BurnMessageFields
  <2> HIDE DEF message
  <2>5. Call.max_fee = IF MaxFee(built).ok THEN MaxFee(built).val ELSE 0
    BY <2>1, Results DEF BurnedV2, MaxFee, HasExplicitFeeCap, ModeMaxFee, IsFast,
                         UsesFeeSwitch
  <2>6. Call.hook = IF ModeHookData(built.mode).ok
                    THEN ModeHookData(built.mode).val ELSE <<>>
    BY <2>1, Results DEF BurnedV2, ModeHookData
  <2>7. Ok(h.destination_domain) = DestinationDomainId(built)
    BY <2>1, <2>4 DEF BurnedV2
  <2>8. IsPermissionless(h)  BY <2>4 DEF IsPermissionless
  <2> QED  BY <2>3, <2>4, <2>5, <2>6, <2>7, <2>8 DEF WireAgreesWithMode, message
<1> QED  BY SessionInvHolds, <1>1, PTL

\* The summary of the signed message tells the mode of the bridge, but for the
\* modes the property names.
THEOREM SummaryTellsTheModeHolds == ProgramSpec => []SummaryTellsTheMode
<1>1. SessionInv => SummaryTellsTheMode
  <2> SUFFICES ASSUME SessionInv, Signed PROVE SummaryTellsTheMode
    BY DEF SummaryTellsTheMode
  <2>1. BurnedV2  BY SignedFields
  <2>2. PICK takes :
          LET m == BurnMessageOf("assigned", Executed, Charged(takes), 1)
          IN Parse(canonical) = Ok(m) /\ AttestedFinality(m.header) = AttestedAs
    BY SignedFields
  <2> DEFINE m    == BurnMessageOf("assigned", Executed, Charged(takes), 1)
             s    == SummaryParse(canonical).val
             mode == built.mode
  <2>3. /\ m.header.min_finality_threshold = FinalityAsU32[FinalityThreshold(mode)]
        /\ m.body.max_fee = Call.max_fee /\ m.body.hook_data = Call.hook
        /\ m.body.fee_executed = Charged(takes)
    BY <2>1, BurnMessageFields
  <2> HIDE DEF m
  <2>4. s = Summary(m)
    BY <2>2, Results DEF SummaryParse, AndThen, m
  <2>5. /\ s.requested_finality = RequestedFinality(m.header)
        /\ s.attested_finality = AttestedAs
        /\ s.is_fast_transfer = IsFastTransfer(m.body)
        /\ s.has_hooks = HasHooks(m.body)
        /\ s.fee_executed = m.body.fee_executed /\ s.max_fee = m.body.max_fee
    BY <2>2, <2>4 DEF Summary, m
  <2> HIDE DEF s
  <2>6. s.requested_finality = TraitView(built).finality_threshold
    <3>1. FinalityFromU32(FinalityAsU32[FinalityThreshold(mode)])
            = Ok(FinalityThreshold(mode))
      BY DEF FinalityFromU32, FinalityAsU32, FinalityThreshold
    <3>2. RequestedFinality(m.header) = Ok(FinalityThreshold(mode))
      BY <2>3, <3>1, Results DEF RequestedFinality, OrElse
    <3> QED  BY <2>5, <3>2 DEF TraitView
  <2>7. \/ s.is_fast_transfer = IsFast(mode)
        \/ UsesFeeSwitch(mode)
        \/ IsFast(mode) /\ ModeMaxFee(mode) = 0
    <3>1. s.is_fast_transfer <=> Call.max_fee > 0
      BY <2>3, <2>5 DEF IsFastTransfer
    <3>2. s.is_fast_transfer \in BOOLEAN
      BY <2>5 DEF IsFastTransfer
    <3>3. Call.max_fee = ModeMaxFee(mode) /\ Call.max_fee \in Nat
      BY <2>1 DEF BurnedV2
    <3>4. CASE IsFast(mode)
      <4>1. ModeMaxFee(mode) = 0 \/ s.is_fast_transfer  BY <3>1, <3>3
      <4>2. CASE ModeMaxFee(mode) = 0  BY <3>4, <4>2
      <4>3. CASE s.is_fast_transfer
        <5>1. IsFast(mode) = TRUE  BY <3>4 DEF IsFast
        <5>2. s.is_fast_transfer = TRUE  BY <3>2, <4>3
        <5> QED  BY <5>1, <5>2
      <4> QED  BY <4>1, <4>2, <4>3
    <3>5. CASE ~ IsFast(mode) /\ ~ UsesFeeSwitch(mode)
      <4>1. ModeMaxFee(mode) = 0
        BY <3>5 DEF ModeMaxFee, IsFast, UsesFeeSwitch
      <4>2. s.is_fast_transfer = FALSE  BY <3>1, <3>2, <3>3, <4>1
      <4>3. IsFast(mode) = FALSE  BY <3>5 DEF IsFast
      <4> QED  BY <4>2, <4>3
    <3> QED  BY <3>4, <3>5
  <2>8. s.has_hooks = HasHook(mode) \/ mode.hook_data = <<>>
    <3>1. s.has_hooks = (Call.hook # <<>>)
      BY <2>3, <2>5 DEF HasHooks
    <3>2. CASE HasHook(mode)
      <4>1. HasHook(mode) = TRUE /\ Call.hook = mode.hook_data
        BY <2>1, <3>2 DEF BurnedV2, HasHook
      <4> QED  BY <3>1, <4>1
    <3>3. CASE ~ HasHook(mode)
      <4>1. HasHook(mode) = FALSE  BY <3>3 DEF HasHook
      <4>2. Call.hook = <<>>  BY <2>1, <3>3 DEF BurnedV2
      <4>3. s.has_hooks = FALSE  BY <3>1, <4>2
      <4> QED  BY <4>1, <4>3
    <3> QED  BY <3>2, <3>3
  <2>9. s.is_fast_transfer /\ s.attested_finality = Ok("Fast") =>
          s.fee_executed =< s.max_fee
    <3> SUFFICES ASSUME s.attested_finality = Ok("Fast")
                 PROVE  s.fee_executed =< s.max_fee
      OBVIOUS
    <3>1. ExecutesFast(Call)
      <4>1. Ok("Fast").val = "Fast" /\ Ok("Standard").val = "Standard"
        BY Results
      <4> QED  BY <2>5, <4>1 DEF AttestedAs
    <3>2. s.fee_executed = ApplyToAmount(published, Call.amount)
      BY <2>3, <2>5, <3>1 DEF Charged
    <3>3. Call.max_fee >= ApplyToAmount(published, Call.amount)
      BY <3>1 DEF ExecutesFast
    <3>4. /\ Call.max_fee \in Nat
          /\ ApplyToAmount(published, Call.amount) \in Nat
      <4>1. published \in Nat /\ Call.amount \in Nat
        BY <2>1, SessionTypes DEF SessionInv, PhaseInv, BurnedV2
      <4> QED  BY <2>1, <4>1, FeeIsNat DEF BurnedV2
    <3> QED  BY <2>3, <2>5, <3>2, <3>3, <3>4
  <2> QED  BY <2>6, <2>7, <2>8, <2>9 DEF SummaryTellsTheMode, s
<1> QED  BY SessionInvHolds, <1>1, PTL

\* A quoted cap keeps a burn at fast finality through a rise of the fee within
\* the buffer, for every fee, amount and buffer.
THEOREM QuoteSurvivesRiseHolds == ProgramSpec => []QuoteSurvivesRise
<1>1. SessionInv => QuoteSurvivesRise
  <2> SUFFICES ASSUME SessionInv, Signed, quote # <<>>,
                      ~ (BUFFER_PERCENT_DENOMINATOR * published
                           > (BUFFER_PERCENT_DENOMINATOR + Buffer) * quote[1].fee)
               PROVE  AttestedFinality(Decode(canonical).val.header) = Ok("Fast")
    BY DEF QuoteSurvivesRise
  <2>1. BurnedV2  BY SignedFields
  <2>2. /\ IsFast(built.mode) /\ quote[1].amount = Call.amount
        /\ built.mode.max_fee
             = ApplyWithBuffer(quote[1].fee, Call.amount, Buffer)
    BY SignedIsRead DEF SessionInv, BridgeInv, RequestInv
  <2>3. /\ quote[1].fee \in Nat /\ published \in Nat /\ Call.amount \in Nat
        /\ Buffer \in Nat
    BY <2>1, SessionTypes DEF SessionInv, BridgeInv, PhaseInv, BurnedV2
  <2>4. Call.max_fee = ApplyWithBuffer(quote[1].fee, Call.amount, Buffer)
    BY <2>1, <2>2 DEF BurnedV2, ModeMaxFee, IsFast
  <2>5. BUFFER_PERCENT_DENOMINATOR * published
          =< (BUFFER_PERCENT_DENOMINATOR + Buffer) * quote[1].fee
    <3>1. /\ BUFFER_PERCENT_DENOMINATOR * published \in Nat
          /\ (BUFFER_PERCENT_DENOMINATOR + Buffer) * quote[1].fee \in Nat
      BY <2>3, SMT DEF BUFFER_PERCENT_DENOMINATOR
    <3> QED  BY <3>1
  <2>6. ApplyToAmount(published, Call.amount) =< Call.max_fee
    BY <2>3, <2>4, <2>5, BufferedCapCoversRise
  <2>7. Call.min_finality = FinalityAsU32.Fast
    BY <2>1, <2>2 DEF BurnedV2, FinalityThreshold, IsFast
  <2>8. ApplyToAmount(published, Call.amount) \in Nat /\ Call.max_fee \in Nat
    BY <2>1, <2>3, FeeIsNat DEF BurnedV2
  <2>9. ExecutesFast(Call)
    BY <2>6, <2>7, <2>8 DEF ExecutesFast
  <2>10. AttestedFinality(Decode(canonical).val.header) = AttestedAs
    BY SignedFields
  <2> QED  BY <2>9, <2>10 DEF AttestedAs
<1> QED  BY SessionInvHolds, <1>1, PTL

\* A polling call gives up on a signed message only where the finality of the
\* chain outlasts its window, on every route of the registry.
THEOREM WindowCoversFinalityHolds == ProgramSpec => []WindowCoversFinality
<1>1. SessionInv => WindowCoversFinality
  <2> SUFFICES ASSUME SessionInv, Signed, pc = "timedout"
               PROVE  /\ AttestedFinality(Decode(canonical).val.header)
                           = Ok("Standard")
                      /\ built.source = "Linea" \/ IsFast(built.mode)
    BY DEF WindowCoversFinality
  <2> DEFINE s == built.source
             attested == AttestedFinality(Decode(canonical).val.header)
  <2>1. BurnedV2 /\ attested = AttestedAs /\ version = "v2"
    BY SignedFields DEF Signed
  <2>2. FinalitySecs > LastRequestSecs(PollingOfBridge)
    BY DEF SessionInv, EndInv
  <2>3. /\ LastRequestSecs(FastPolling) = 145
        /\ LastRequestSecs(DefaultPolling) = 1740
    BY DEF LastRequestSecs, FastPolling, DefaultPolling
  <2>4. IsFast(built.mode) => SupportsFastTransfer(s) = Ok(TRUE)
    <3> SUFFICES ASSUME IsFast(built.mode) PROVE SupportsFastTransfer(s) = Ok(TRUE)
      OBVIOUS
    <3>1. ValidateTransferMode(built).ok
      BY <2>1 DEF BurnedV2, Burn, AndThen
    <3>2. EnsureFastTransferSupported(built).ok
      BY <3>1 DEF ValidateTransferMode, AndThen
    <3>3. SupportsFastTransfer(s).ok /\ SupportsFastTransfer(s).val
      BY <3>2, Results DEF EnsureFastTransferSupported, AndThen
    <3>4. s \in SupportsCctpV2  BY <2>1 DEF BurnedV2
    <3> QED  BY <3>3, <3>4 DEF SupportsFastTransfer, IfSupported, Ok
  <2>5. ~ ExecutesFast(Call)
    <3> SUFFICES ASSUME ExecutesFast(Call) PROVE FALSE
      OBVIOUS
    <3>1. IsFast(built.mode)
      BY <2>1 DEF BurnedV2, ExecutesFast, FinalityAsU32, FinalityThreshold, IsFast
    <3>2. FastTransferConfirmationTime(s).val \in {8, 20}
      <4>1. /\ s \in {"Mainnet", "Sepolia", "Arbitrum", "ArbitrumSepolia", "Base",
                      "BaseSepolia", "Optimism", "OptimismSepolia", "Unichain",
                      "Linea"}
            /\ SupportsFastTransfer(s) = Ok(TRUE)
        BY <2>1, <2>4, <3>1 DEF BurnedV2, SupportsFastTransfer, IfSupported, Ok
      <4>2. FastTransferConfirmationTime(s) \in {Ok(8), Ok(20)}
        BY <4>1, Results DEF FastTransferConfirmationTime, IfFast, AndThen
      <4> QED  BY <4>2, Results
    <3>3. FinalitySecs = FastTransferConfirmationTime(s).val
      BY <2>1 DEF FinalitySecs, AttestedAs
    <3>4. PollingOfBridge = FastPolling
      BY <2>1, <3>1 DEF PollingOfBridge
    <3> QED  BY <2>2, <2>3, <3>2, <3>3, <3>4
  <2>6. attested = Ok("Standard")  BY <2>1, <2>5 DEF AttestedAs
  <2>7. FinalitySecs = StandardTransferConfirmationTime(s).val
    <3>1. Ok("Standard") # Ok("Fast")
      <4>1. Ok("Standard").val = "Standard" /\ Ok("Fast").val = "Fast"
        BY Results
      <4> QED  BY <4>1
    <3> QED  BY <2>1, <2>6, <3>1 DEF FinalitySecs
  <2>8. ASSUME ~ IsFast(built.mode) PROVE s = "Linea"
    <3>1. FinalitySecs > 1740
      BY <2>1, <2>2, <2>3, <2>8 DEF PollingOfBridge
    <3>2. s \in SupportsCctpV2  BY <2>1 DEF BurnedV2
    <3>3. s # "Linea" =>
            StandardTransferConfirmationTime(s)
              \in {Ok(19 * 60), Ok(20), Ok(8 * 60), Ok(5)}
      BY <3>2 DEF StandardTransferConfirmationTime, IfSupported, SupportsCctpV2
    <3> QED  BY <2>7, <3>1, <3>3, Results
  <2> QED  BY <2>6, <2>8
<1> QED  BY SessionInvHolds, <1>1, PTL

---------------------------------------------------------------------------
(* What get_message_sent_event returns.                                    *)

\* The logs before those of the burn, joined to them.
LEMMA JoinsOfLogs ==
  ASSUME NEW a, NEW x, NEW b, NEW c
  PROVE  /\ <<a>> \o <<>> \o <<b, c>> = <<a, b, c>>
         /\ <<a>> \o <<x>> \o <<b, c>> = <<a, x, b, c>>
<1> DEFINE S    == {a, x, b, c}
           one  == <<a>> \o <<b, c>>
           ends == <<a>> \o <<x>>
           two  == <<a, x>> \o <<b, c>>
<1>1. /\ <<>> \in Seq(S) /\ <<a>> \in Seq(S) /\ <<x>> \in Seq(S)
      /\ <<b, c>> \in Seq(S) /\ <<a, x>> \in Seq(S)
      /\ <<a, b, c>> \in Seq(S) /\ <<a, x, b, c>> \in Seq(S)
  OBVIOUS
<1>2. <<a>> \o <<>> = <<a>>  BY <1>1, ConcatEmptySeq
<1>3. one \in Seq(S) /\ Len(one) = 3 /\ one[1] = a /\ one[2] = b /\ one[3] = c
  BY <1>1
<1>4. ends \in Seq(S) /\ Len(ends) = 2 /\ ends[1] = a /\ ends[2] = x
  BY <1>1
<1>5. /\ two \in Seq(S) /\ Len(two) = 4
      /\ two[1] = a /\ two[2] = x /\ two[3] = b /\ two[4] = c
  BY <1>1
<1> HIDE DEF one, ends, two
<1>6. one = <<a, b, c>>  BY <1>1, <1>3, SeqEqual
<1>7. ends = <<a, x>>  BY <1>1, <1>4, SeqEqual
<1>8. two = <<a, x, b, c>>  BY <1>1, <1>5, SeqEqual
<1> QED  BY <1>2, <1>6, <1>7, <1>8 DEF one, ends, two

\* The first MessageSent of the transaction: that of the burn where it is the
\* only one, otherwise that of the burn before it.
LEMMA ExtractedMessage ==
  ASSUME SessionInv, extracted.ok
  PROVE  /\ extracted.val = <<IF Alone THEN MessageOfBurn ELSE ForeignMessage,
                             Keccak256(IF Alone THEN MessageOfBurn
                                                ELSE ForeignMessage)>>
         /\ tx # <<>>
<1> DEFINE receipt == [kind |-> "found", logs |-> logs]
           found   == {i \in DOMAIN logs : logs[i].topic = "MessageSent"}
           first   == CHOOSE i \in found : \A j \in found : i =< j
<1>1. /\ logs # <<>> /\ tx # <<>> /\ extracted = GetMessageSentEvent(receipt)
      /\ \E before \in Befores : logs = LogsOf(before)
  BY DEF SessionInv, PhaseInv, ExtractInv, LogInv
<1>2. \/ logs = <<Log("Transfer", NoBytes), Log("MessageSent", MessageOfBurn),
                  Log("DepositForBurn", NoBytes)>>
      \/ logs = <<Log("Transfer", NoBytes), Log("MessageSent", ForeignMessage),
                  Log("MessageSent", MessageOfBurn),
                  Log("DepositForBurn", NoBytes)>>
  <2>1. logs = LogsOf(<<>>) \/ logs = LogsOf(<<Log("MessageSent", ForeignMessage)>>)
    BY <1>1 DEF Befores
  <2> QED  BY <2>1, JoinsOfLogs DEF LogsOf
<1>3. found # {} =>
        extracted.val = <<logs[first].message, Keccak256(logs[first].message)>>
  <2>1. receipt.kind = "found" /\ receipt.logs = logs  OBVIOUS
  <2> HIDE DEF receipt
  <2>2. found # {} =>
          Find(receipt.logs, LAMBDA log : log.topic = "MessageSent")
            = Ok(logs[first])
    BY <2>1 DEF Find
  <2> HIDE DEF found, first
  <2> QED  BY <1>1, <2>1, <2>2, Results DEF GetMessageSentEvent
<1>4. \A topic, message : /\ Log(topic, message).topic = topic
                          /\ Log(topic, message).message = message
  BY DEF Log
<1>5. CASE logs = <<Log("Transfer", NoBytes), Log("MessageSent", MessageOfBurn),
                    Log("DepositForBurn", NoBytes)>>
  <2>1. /\ DOMAIN logs = 1 .. 3 /\ logs[1].topic = "Transfer"
        /\ logs[2].topic = "MessageSent" /\ logs[2].message = MessageOfBurn
        /\ logs[3].topic = "DepositForBurn"
    BY <1>4, <1>5
  <2>2. found = {2}  BY <2>1
  <2>3. Alone
    <3> SUFFICES ASSUME NEW i \in DOMAIN logs, NEW j \in DOMAIN logs,
                        logs[i].topic = "MessageSent",
                        logs[j].topic = "MessageSent"
                 PROVE  i = j
      BY DEF Alone
    <3>1. i \in found /\ j \in found  OBVIOUS
    <3> HIDE DEF found
    <3> QED  BY <2>2, <3>1
  <2>4. first = 2  BY <2>2
  <2> QED  BY <1>1, <1>3, <2>1, <2>2, <2>3, <2>4
<1>6. CASE logs = <<Log("Transfer", NoBytes), Log("MessageSent", ForeignMessage),
                    Log("MessageSent", MessageOfBurn),
                    Log("DepositForBurn", NoBytes)>>
  <2>1. /\ DOMAIN logs = 1 .. 4 /\ logs[1].topic = "Transfer"
        /\ logs[2].topic = "MessageSent" /\ logs[2].message = ForeignMessage
        /\ logs[3].topic = "MessageSent" /\ logs[4].topic = "DepositForBurn"
    BY <1>4, <1>6
  <2>2. found = {2, 3}  BY <2>1
  <2>3. ~ Alone
    <3>1. 2 \in DOMAIN logs /\ 3 \in DOMAIN logs  BY <2>1
    <3> QED  BY <2>1, <3>1 DEF Alone
  <2>4. first = 2
    <3>1. 2 \in found /\ \A j \in found : 2 =< j  BY <2>2
    <3>2. first \in found /\ \A j \in found : first =< j
      <4>1. \E i \in found : \A j \in found : i =< j  BY <3>1
      <4> QED  BY <4>1
    <3> HIDE DEF found, first
    <3> QED  BY <2>2, <3>1, <3>2
  <2> QED  BY <1>1, <1>3, <2>1, <2>2, <2>3, <2>4
<1> QED  BY <1>2, <1>5, <1>6

\* What undoes the completion of a header and of a body.
Unassigned(h, nonce) ==
  [h EXCEPT !.nonce = nonce, !.finality_threshold_executed = 0]

Uncharged(b) == [b EXCEPT !.fee_executed = 0, !.expiration_block = 0]

\* The message of a burn and its completion differ in what Iris fills only.
LEMMA CompletionIsUndone ==
  ASSUME NEW executed, NEW fee, NEW block
  PROVE  /\ Unassigned(BurnHeader("assigned", executed), "zero")
              = BurnHeader("zero", 0)
         /\ Uncharged(BurnBody(fee, block)) = BurnBody(0, 0)
<1>1. \A h : Unassigned(h, "zero")
               = [[h EXCEPT !.nonce = "zero"]
                    EXCEPT !.finality_threshold_executed = 0]
  BY DEF Unassigned
<1>2. [BurnHeader("assigned", executed) EXCEPT !.nonce = "zero"]
        = BurnHeader("zero", executed)
  BY DEF BurnHeader, MessageHeader
<1>3. [BurnHeader("zero", executed) EXCEPT !.finality_threshold_executed = 0]
        = BurnHeader("zero", 0)
  BY DEF BurnHeader, MessageHeader
<1>4. \A b : Uncharged(b) = [[b EXCEPT !.fee_executed = 0]
                               EXCEPT !.expiration_block = 0]
  BY DEF Uncharged
<1>5. [BurnBody(fee, block) EXCEPT !.fee_executed = 0] = BurnBody(0, block)
  BY DEF BurnBody, BodyOf
<1>6. [BurnBody(0, block) EXCEPT !.expiration_block = 0] = BurnBody(0, 0)
  BY DEF BurnBody, BodyOf
<1> QED  BY <1>1, <1>2, <1>3, <1>4, <1>5, <1>6

\* The message in the log of a burn is the one Iris signs, with a placeholder
\* nonce and nothing executed, and has another hash, for every mode and route.
THEOREM TemplateIsCompletedByIrisHolds ==
  ProgramSpec => []TemplateIsCompletedByIris
<1>1. SessionInv => TemplateIsCompletedByIris
  <2> DEFINE raw == extracted.val[1]
             t   == Decode(raw).val
             c   == Decode(canonical).val
             sent == BurnMessageOf("zero", 0, 0, 0)
  <2> SUFFICES ASSUME SessionInv, Signed, extracted.ok, raw # ForeignMessage
               PROVE  /\ HasPlaceholderNonce(t.header)
                      /\ ~ AttestedFinality(t.header).ok
                      /\ ~ HasPlaceholderNonce(c.header)
                      /\ AttestedFinality(c.header).ok
                      /\ extracted.val[2] # MessageHash(c)
                      /\ t = [header |-> Unassigned(c.header, t.header.nonce),
                              body   |-> Uncharged(c.body)]
    BY DEF TemplateIsCompletedByIris, Unassigned, Uncharged
  <2>1. BurnedV2 /\ version = "v2"  BY SignedFields DEF Signed
  <2>2. PICK takes :
          LET m == BurnMessageOf("assigned", Executed, Charged(takes), 1)
          IN /\ Decode(canonical) = Ok(m) /\ c = m
             /\ AttestedFinality(m.header) = AttestedAs
             /\ canonical = Encode(m)
    BY SignedFields
  <2>3. raw = MessageOfBurn /\ extracted.val[2] = Keccak256(raw)
    BY ExtractedMessage
  <2>4. raw = Encode(sent)
    BY <2>1, <2>3, MessagesOfBurn DEF MessageOfBurn, SentMessage, Call
  <2>5. Decode(raw) = Ok(sent)  BY <2>1, <2>4, BurnMessagesAreRead
  <2>6. t = sent  BY <2>5, Results
  <2>7. /\ t.header = BurnHeader("zero", 0) /\ t.body = BurnBody(0, 0)
        /\ t = [header |-> BurnHeader("zero", 0), body |-> BurnBody(0, 0)]
        /\ c.header = BurnHeader("assigned", Executed)
        /\ c.body = BurnBody(Charged(takes), 1)
    BY <2>2, <2>6 DEF BurnMessageOf
  <2> DEFINE m == BurnMessageOf("assigned", Executed, Charged(takes), 1)
  <2>8. /\ sent.header.nonce = "zero" /\ m.header.nonce = "assigned"
        /\ sent.header.finality_threshold_executed = 0
    BY <2>1, BurnMessageFields
  <2>9. /\ c = m /\ canonical = Encode(m) /\ Decode(canonical) = Ok(m)
        /\ AttestedFinality(c.header) = AttestedAs
    BY <2>2
  <2> HIDE DEF t, c, m, sent, raw
  <2>10. HasPlaceholderNonce(t.header) /\ ~ HasPlaceholderNonce(c.header)
    BY <2>6, <2>8, <2>9 DEF HasPlaceholderNonce
  <2>11. ~ AttestedFinality(t.header).ok
    <3>1. ~ FinalityFromU32(0).ok  BY Results DEF FinalityFromU32
    <3> QED  BY <2>6, <2>8, <3>1, Results DEF AttestedFinality, OrElse
  <2>12. AttestedFinality(c.header).ok  BY <2>9, Results DEF AttestedAs
  <2>13. extracted.val[2] # MessageHash(c)
    <3>1. raw # canonical
      <4>1. Ok(sent) # Ok(m)
        <5>1. Ok(sent).val = sent /\ Ok(m).val = m  BY Results
        <5> QED  BY <2>8, <5>1
      <4> QED  BY <2>5, <2>9, <4>1
    <3>2. MessageHash(c) = Keccak256(canonical)  BY <2>9 DEF MessageHash
    <3> QED  BY <2>3, <3>1, <3>2 DEF Keccak256
  <2>14. t = [header |-> Unassigned(c.header, t.header.nonce),
              body   |-> Uncharged(c.body)]
    <3>1. t.header.nonce = "zero"  BY <2>6, <2>8
    <3>2. /\ Unassigned(c.header, "zero") = BurnHeader("zero", 0)
          /\ Uncharged(c.body) = BurnBody(0, 0)
      BY <2>7, CompletionIsUndone
    <3> QED  BY <2>7, <3>1, <3>2
  <2> QED  BY <2>10, <2>11, <2>12, <2>13, <2>14
<1> QED  BY SessionInvHolds, <1>1, PTL

\* The message extracted is that of the burn unless another came before it, and a
\* v1 session that extracted another is never given its own.
THEOREM ExtractionFindsOwnBurnHolds == ProgramSpec => []ExtractionFindsOwnBurn
<1>1. SessionInv => ExtractionFindsOwnBurn
  <2> SUFFICES ASSUME SessionInv PROVE ExtractionFindsOwnBurn
    OBVIOUS
  <2>1. extracted.ok =>
          /\ extracted.val[1] = (IF Alone THEN MessageOfBurn ELSE ForeignMessage)
          /\ extracted.val[2] = Keccak256(extracted.val[1])
    BY ExtractedMessage
  <2>2. ASSUME version = "v1", taken = "own" PROVE Alone
    <3>1. extracted.ok /\ extracted.val[2] = Keccak256(canonical)
      BY <2>2 DEF SessionInv, EndInv, Asked
    <3>2. canonical # NoBytes  BY <2>2 DEF SessionInv, PhaseInv
    <3>3. extracted.val[1] = canonical  BY <2>1, <3>1 DEF Keccak256
    <3> QED  BY <2>1, <3>1, <3>2, <3>3 DEF ForeignMessage
  <2> QED  BY <2>1, <2>2 DEF ExtractionFindsOwnBurn
<1> QED  BY SessionInvHolds, <1>1, PTL

\* The fees are at most a quarter of the amount, and the buffer doubles them at
\* most, so that a cap is at most half of it, rounded up twice.
FeesAreModest ==
  /\ Buffer =< BUFFER_PERCENT_DENOMINATOR
  /\ \A fee \in FeeLevels : 4 * fee =< BPS_HUNDREDTH_DENOMINATOR

\* A cap quoted for such a fee is below the amount, but for amounts of one and
\* two atomic units, where rounding up reaches it.
LEMMA ModestCapIsBelowAmount ==
  ASSUME NEW fee \in Nat, NEW amount \in Nat, NEW buffer \in Nat,
         4 * fee =< BPS_HUNDREDTH_DENOMINATOR,
         buffer =< BUFFER_PERCENT_DENOMINATOR, amount >= 3
  PROVE  ApplyWithBuffer(fee, amount, buffer) < amount
<1> DEFINE half    == (amount - 1) \div 2
           charged == ApplyToAmount(fee, amount)
<1>1. half \in Nat /\ 2 * half =< amount - 1 /\ amount =< 4 * half  BY SMT
<1> HIDE DEF half
<1>2. PICK million \in Nat \ {0} : million = BPS_HUNDREDTH_DENOMINATOR
  BY DEF BPS_HUNDREDTH_DENOMINATOR
<1>3. amount * fee \in Nat /\ amount * fee =< million * half
  <2>1. amount * (4 * fee) =< amount * million
    <3>1. 4 * fee \in Nat  BY SMT
    <3> QED  BY <1>2, <3>1, TimesIsMonotone
  <2>2. million * amount =< million * (4 * half)
    <3>1. 4 * half \in Nat  BY <1>1
    <3> QED  BY <1>1, <1>2, <3>1, TimesIsMonotone
  <2>3. /\ amount * (4 * fee) = 4 * (amount * fee)
        /\ million * (4 * half) = 4 * (million * half)
        /\ amount * million = million * amount
    BY <1>1, <1>2, SMT
  <2>4. amount * fee \in Nat /\ million * half \in Nat /\ million * amount \in Nat
    BY <1>1, <1>2, SMT
  <2> QED  BY <2>1, <2>2, <2>3, <2>4
<1>4. charged \in Nat /\ charged =< half
  BY <1>1, <1>2, <1>3, CeilDivIsLeast, CeilDivNat DEF ApplyToAmount
<1> HIDE DEF charged
<1>5. charged * (buffer + 100) \in Nat
      /\ charged * (buffer + 100) =< 100 * (amount - 1)
  <2>1. buffer + 100 =< 200 /\ buffer + 100 \in Nat
    BY DEF BUFFER_PERCENT_DENOMINATOR
  <2>2. charged * (buffer + 100) =< charged * 200
    BY <1>4, <2>1, TimesIsMonotone
  <2>3. charged * 200 =< 100 * (amount - 1)  BY <1>1, <1>4
  <2>4. charged * (buffer + 100) \in Nat  BY <1>4, <2>1, SMT
  <2> QED  BY <1>4, <2>2, <2>3, <2>4
<1>6. CeilDiv(charged * (buffer + 100), 100) =< amount - 1
  <2>1. amount - 1 \in Nat /\ 100 \in Nat \ {0}  BY SMT
  <2> QED  BY <1>5, <2>1, CeilDivIsLeast
<1>7. CeilDiv(charged * (buffer + 100), 100) \in Nat
  BY <1>5, CeilDivNat
<1> QED
  BY <1>6, <1>7 DEF ApplyWithBuffer, BUFFER_PERCENT_DENOMINATOR, charged

\* A burn of a validated route that the messenger reverts asks for something that
\* burn does not check, which the property names, for every mode, token, amount,
\* fee and minimum.
THEOREM OnlyUncheckedBurnsRevertHolds ==
  ASSUME FeesAreModest
  PROVE  ProgramSpec => []OnlyUncheckedBurnsRevert
<1>1. SessionInv => OnlyUncheckedBurnsRevert
  <2> SUFFICES ASSUME SessionInv, validated, pc = "reverted",
                      Call.amount # 0, IsRegistered(Call.token),
                      ~ (HasHook(built.mode) /\ built.mode.hook_data = <<>>),
                      ~ (HasFeeSwitch /\ Call.max_fee < minimum)
               PROVE  /\ IsFast(built.mode) /\ Call.max_fee >= Call.amount
                      /\ quote # <<>> => Call.amount =< 2
    BY DEF OnlyUncheckedBurnsRevert, Call
  <2>1. version = "v2" /\ RouteNew(built.source, built.destination).ok
        /\ tx # <<>> /\ ~ BurnIsAccepted(Call)
    BY DEF SessionInv, BridgeInv, PhaseInv, LogInv, PCs
  <2>2. BurnedV2  BY <2>1, SessionBurnedV2
  <2>3. Call.amount \in Nat \ {0} /\ Call.max_fee \in Nat
        /\ Call.max_fee = ModeMaxFee(built.mode)
    BY <2>2 DEF BurnedV2
  <2>4. IsFast(built.mode) /\ CapReachesAmount(built.mode, Call.amount)
    <3> SUFFICES ASSUME ~ (/\ IsFast(built.mode)
                           /\ CapReachesAmount(built.mode, Call.amount))
                 PROVE  FALSE
      OBVIOUS
    <3>1. IsBridge(built)  BY BridgesAreBridges DEF SessionInv, BridgeInv
    <3>2. /\ Burn(built, Call.token, Call.amount).ok
          /\ Burn(built, Call.token, Call.amount).val.call = Call
      BY <2>2 DEF BurnedV2
    <3>3. /\ Call.max_fee < Call.amount
          /\ Call.domain # AsU32[DomainIdV2Arms[built.source]]
          /\ Call.fn = "depositForBurnWithHook" =>
               HasHook(built.mode) /\ Call.hook = built.mode.hook_data
      BY <2>1, <2>3, <3>1, <3>2, BurnMeetsTheMessenger
    <3>4. HasFeeSwitch => Call.max_fee >= minimum
      <4>1. minimum \in Nat  BY DEF SessionInv, PhaseInv, MinFeeAmounts
      <4> QED  BY <2>3, <4>1
    <3>5. Call.amount > 0  BY <2>3
    <3> QED  BY <2>1, <3>3, <3>4, <3>5 DEF BurnIsAccepted, LocalDomain
  <2>5. Call.max_fee >= Call.amount
    BY <2>3, <2>4 DEF CapReachesAmount
  <2>6. ASSUME quote # <<>> PROVE Call.amount =< 2
    <3>1. /\ quote[1].fee \in FeeLevels /\ quote[1].amount = Call.amount
          /\ built.mode.max_fee
               = ApplyWithBuffer(quote[1].fee, Call.amount, Buffer)
      BY <2>1, <2>6 DEF SessionInv, BridgeInv, RequestInv
    <3>2. Call.max_fee = ApplyWithBuffer(quote[1].fee, Call.amount, Buffer)
      BY <2>3, <2>4, <3>1 DEF ModeMaxFee, IsFast
    <3>3. /\ quote[1].fee \in Nat /\ Buffer \in Nat
          /\ 4 * quote[1].fee =< BPS_HUNDREDTH_DENOMINATOR
          /\ Buffer =< BUFFER_PERCENT_DENOMINATOR
      BY <3>1, SessionAssumption DEF FeesAreModest
    <3> QED  BY <2>3, <2>5, <3>2, <3>3, ModestCapIsBelowAmount
  <2> QED  BY <2>4, <2>5, <2>6
<1> QED  BY SessionInvHolds, <1>1, PTL

---------------------------------------------------------------------------
(* The window of get_attestation.  A session polls in one step what          *)
(* AttestationPolling polls request by request; both implement               *)
(* SettledAnswers, and so do the flows of Transfer. What it asks about is    *)
(* its own burn: what it takes of a sibling is no answer to that.            *)

World == [s \in {"burn"} |-> IF canonical # NoBytes THEN "attested" ELSE "open"]

\* What the session goes on with from get_attestation.
Answer == IF taken = "own" /\ pc \in {"attested", "minted", "mintrefused"}
          THEN [outcome |-> "attested", subject |-> "burn"]
          ELSE [outcome |-> "open", subject |-> "none"]

Told == [a \in {"session"} |-> Answer]

Window == INSTANCE SettledAnswers WITH
              Subjects <- {"burn"}, Askers <- {"session"},
              Outcomes <- {"attested", "failed"}, Open <- "open",
              NoSubject <- "none", world <- World, answered <- Told

\* A session goes on with its own message only once Iris has signed it.
THEOREM WindowIsSettled == ProgramSpec => Window!Spec
<1>1. ProgramInit => Window!Init
  <2> SUFFICES ASSUME ProgramInit PROVE Window!Init
    OBVIOUS
  <2>1. pc = "start" /\ canonical = NoBytes
    BY DEF ProgramInit, SessionInit
  <2> QED
    BY <2>1 DEF Window!Init, Window!NoAnswer, World, Told, Answer
<1>2. IInv /\ IInv' /\ [ProgramNext]_allVars => [Window!Next]_(Window!vars)
  <2> SUFFICES ASSUME SessionInv, SessionInv', SessionStep
               PROVE  [Window!Next]_(Window!vars)
    BY ProgramSteps DEF IInv
  <2>1. CASE canonical' = canonical
    <3>1. World' = World  BY <2>1 DEF World
    <3>2. Told' = [Told EXCEPT !["session"] = Answer']  BY DEF Told
    <3>3. CASE taken' = "own" /\ pc' \in {"attested", "minted", "mintrefused"}
      <4>1. World["burn"] = "attested"
        BY <2>1, <3>3 DEF SessionInv, PhaseInv, World
      <4>2. Window!Answer("session", "burn", "attested")
        BY <3>1, <3>2, <3>3, <4>1 DEF Window!Answer, Answer
      <4> QED  BY <4>2 DEF Window!Next
    <3>4. CASE ~ (taken' = "own" /\ pc' \in {"attested", "minted", "mintrefused"})
      <4>1. Window!Withdraw("session")
        BY <3>1, <3>2, <3>4 DEF Window!Withdraw, Window!NoAnswer, Answer
      <4> QED  BY <4>1 DEF Window!Next
    <3> QED  BY <3>3, <3>4
  <2>2. CASE canonical' # canonical
    <3>1. Signs
      BY <2>2 DEF SessionStep, Builds, BuildV2, BuildFromRoute, BuildV1, Built, Refuse,
           Quotes, QuoteFastFee, QuoteStandardFee, Sends, Submit, Mines, MineBurn,
           Changes, ChangeFee, ChangeMinimum, client, world, Extracts, Extract,
           Polling, AwaitSigned,
           AwaitSibling, AwaitNothing, Mint, vars
    <3>2. /\ canonical = NoBytes /\ canonical' # NoBytes
          /\ pc' = pc /\ taken' = taken
      BY <2>2, <3>1 DEF Signs, IrisSigns, client
    <3>3. World' = [World EXCEPT !["burn"] = "attested"] /\ Told' = Told
      BY <3>2 DEF World, Told, Answer
    <3>4. Window!Settle("burn", "attested")
      BY <3>2, <3>3 DEF Window!Settle, World
    <3> QED  BY <3>4 DEF Window!Next
  <2> QED  BY <2>1, <2>2
<1> QED
  BY <1>1, <1>2, IInvHolds, PTL DEF ProgramSpec, Window!Spec

=============================================================================
