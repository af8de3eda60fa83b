--------------------------- MODULE OfflineExamples ---------------------------
(***************************************************************************)
(* The examples that ask the library about its configuration and send      *)
(* nothing: v2_integration_validation, v2_asset_support,                   *)
(* v2_standard_transfer and basic_bridge.  Each is the conjunction of what *)
(* it asserts and of the lookups it propagates with `?`: it is true when   *)
(* the program ends with Ok.  They hold a second copy of the domain        *)
(* numbers, addresses and capabilities of the registry.                    *)
(***************************************************************************)
EXTENDS Fees

MainnetChains ==
  {"Mainnet", "Arbitrum", "Base", "Optimism", "Avalanche", "Polygon",
   "Unichain", "Linea", "Sonic", "Sei", "Hyperliquid"}
TestnetChains ==
  {"Sepolia", "BaseSepolia", "ArbitrumSepolia", "OptimismSepolia",
   "AvalancheFuji", "PolygonAmoy"}

BuiltBridge(source, destination, kind, maxFee, hook) ==
  FromRoute(<<source, destination>>,
            [kind |-> kind, max_fee |-> maxFee, hook_data |-> hook])

StandardBridge(source, destination) ==
  BuiltBridge(source, destination, "Standard", 0, <<>>)

---------------------------------------------------------------------------
(* v2_integration_validation, section by section.                          *)

ValidateChainSupport ==
  \A chain \in MainnetChains \cup TestnetChains :
    /\ chain \in SupportsCctpV2
    /\ CctpV2DomainId(chain).ok
    /\ TokenMessengerV2Address(chain).ok
    /\ MessageTransmitterV2Address(chain).ok

KnownMappings ==
  [Mainnet |-> <<"Ethereum", 0>>, Avalanche |-> <<"Avalanche", 1>>,
   Optimism |-> <<"Optimism", 2>>, Arbitrum |-> <<"Arbitrum", 3>>,
   Base |-> <<"Base", 6>>, Polygon |-> <<"Polygon", 7>>,
   Unichain |-> <<"Unichain", 10>>, Linea |-> <<"Linea", 11>>,
   Sonic |-> <<"Sonic", 13>>, Sei |-> <<"Sei", 16>>,
   Hyperliquid |-> <<"HyperEvm", 19>>, Sepolia |-> <<"Ethereum", 0>>,
   AvalancheFuji |-> <<"Avalanche", 1>>, OptimismSepolia |-> <<"Optimism", 2>>,
   ArbitrumSepolia |-> <<"Arbitrum", 3>>, BaseSepolia |-> <<"Base", 6>>,
   PolygonAmoy |-> <<"Polygon", 7>>]

ValidateDomainIds ==
  \A chain \in DOMAIN KnownMappings :
    LET actual == CctpV2DomainId(chain)
    IN /\ actual = Ok(KnownMappings[chain][1])
       /\ AsU32[actual.val] = KnownMappings[chain][2]

ValidateContractAddresses ==
  /\ \A chain \in MainnetChains :
       /\ TokenMessengerV2Address(chain) = Ok("28b5")
       /\ MessageTransmitterV2Address(chain) = Ok("81D4")
  /\ \A chain \in TestnetChains :
       /\ TokenMessengerV2Address(chain) = Ok("8FE6")
       /\ MessageTransmitterV2Address(chain) = Ok("E737")

\* A bridge reports its mode, its hook, its finality and its fee cap.
Reports(bridge, fast, hook, finality, maxFee) ==
  /\ IsFast(bridge.mode) = fast
  /\ ModeHookData(bridge.mode) = hook
  /\ FinalityAsU32[FinalityThreshold(bridge.mode)] = finality
  /\ MaxFee(bridge) = maxFee

ValidateBridgeConfigurations ==
  LET hook == <<"byte", "byte", "byte", "byte">>
      none == Err("None")
      On(kind, maxFee, data) ==
        BuiltBridge("Mainnet", "Linea", kind, maxFee, data)
  IN /\ Reports(On("Standard", 0, <<>>), FALSE, none, 2000, none)
     /\ Reports(On("Fast", 1000, <<>>), TRUE, none, 1000, Ok(1000))
     /\ Reports(On("StandardWithHook", 0, hook), FALSE, Ok(hook), 2000, none)
     /\ Reports(On("FastWithHook", 1000, hook), TRUE, Ok(hook), 1000, Ok(1000))

ValidateApiEndpoints ==
  LET mainnet == StandardBridge("Mainnet", "Linea")
      testnet == StandardBridge("Sepolia", "BaseSepolia")
  IN /\ ApiUrl(mainnet) = "production"
     /\ CreateUrl(mainnet, "abab").val.host = "production"
     /\ CreateUrl(mainnet, "abab").val.tx = "abab"
     /\ ApiUrl(testnet) = "sandbox"
     /\ CreateUrl(testnet, "abab").val.host = "sandbox"
     /\ CreateUrl(testnet, "abab").val.tx = "abab"

FastCapability ==
  [Mainnet |-> TRUE, Arbitrum |-> TRUE, Base |-> TRUE, Optimism |-> TRUE,
   Linea |-> TRUE, Sonic |-> FALSE, Avalanche |-> FALSE, Polygon |-> FALSE,
   Sei |-> FALSE, Unichain |-> TRUE, Hyperliquid |-> FALSE, Sepolia |-> TRUE,
   BaseSepolia |-> TRUE]

ValidateFastTransferSupport ==
  \A chain \in DOMAIN FastCapability :
    /\ SupportsFastTransfer(chain) = Ok(FastCapability[chain])
    /\ IF FastCapability[chain]
       THEN FastTransferFeeBps(chain).ok
       ELSE FastTransferFeeBps(chain) = Err("FastTransferUnsupported")

ValidateErrorHandling ==
  /\ ~ CctpV2DomainId("Moonbeam").ok
  /\ ~ TokenMessengerV2Address("Moonbeam").ok
  /\ ~ SupportsFastTransfer("Moonbeam").ok

TestPairs ==
  {<<"Mainnet", "Linea">>, <<"Arbitrum", "Base">>, <<"Base", "Sonic">>,
   <<"Sepolia", "BaseSepolia">>}

ValidateCrossChainCompatibility ==
  \A pair \in TestPairs :
    LET bridge == StandardBridge(pair[1], pair[2])
    IN /\ {pair[1], pair[2]} \subseteq SupportsCctpV2
       /\ CctpV2DomainId(bridge.source).ok
       /\ DestinationDomainId(bridge).ok
       /\ TokenMessengerV2Contract(bridge).ok
       /\ MessageTransmitterV2Contract(bridge).ok
       /\ IsTestnet(bridge.source) <=> (ApiUrl(bridge) = "sandbox")

V2IntegrationValidation ==
  /\ ValidateChainSupport
  /\ ValidateDomainIds
  /\ ValidateContractAddresses
  /\ ValidateBridgeConfigurations
  /\ ValidateApiEndpoints
  /\ ValidateFastTransferSupport
  /\ ValidateErrorHandling
  /\ ValidateCrossChainCompatibility

---------------------------------------------------------------------------
(* The three smaller ones.                                                 *)

V2AssetSupport ==
  LET usdc == ForAsset("Mainnet", "Linea", "USDC")
      eurc == ForAsset("Mainnet", "Base", "EURC")
  IN /\ usdc.ok /\ RouteTokenAddress(usdc.val, "USDC", 1).ok
     /\ eurc.ok /\ RouteTokenAddress(eurc.val, "EURC", 1).ok
     /\ ~ ForAsset("Mainnet", "Avalanche", "EURC").ok
     /\ ~ ForAsset("Mainnet", "Base", "USYC").ok

V2StandardTransfer ==
  LET bridge == StandardBridge("Mainnet", "Linea")
  IN /\ TokenMessengerV2Contract(bridge).ok
     /\ MessageTransmitterV2Contract(bridge).ok
     /\ CctpV2DomainId(bridge.source).ok
     /\ DestinationDomainId(bridge).ok
     /\ CreateUrl(bridge, "0000").ok

BasicBridge ==
  /\ TokenMessengerAddress("Mainnet").ok
  /\ MessageTransmitterAddress("Arbitrum").ok
  /\ CctpDomainId("Arbitrum").ok
  /\ ConfirmationAverageTime("Mainnet").ok
  /\ ConfirmationAverageTime("Arbitrum").ok
=============================================================================
