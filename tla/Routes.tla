------------------------------- MODULE Routes -------------------------------
(***************************************************************************)
(* The chain registry of the SDK and the routes it validates: the match    *)
(* tables of chain/v2.rs and chain/config.rs, the addresses they return,   *)
(* the domain identifiers and finality thresholds of the protocol, the     *)
(* assets and routes of primitives.rs.                                     *)
(*                                                                         *)
(* A chain, an address and a domain are named: a chain by its NamedChain   *)
(* variant, an address by its first two bytes, a domain by its DomainId    *)
(* variant.  A match whose last arm is an error is a function whose        *)
(* DOMAIN is what the other arms list.                                     *)
(***************************************************************************)
EXTENDS Integers, TLC

CONSTANT OtherChains   \* NamedChain variants that no table of the SDK lists

Ok(v)  == [ok |-> TRUE, val |-> v]
Err(e) == [ok |-> FALSE, err |-> e]

\* r? : the first error of a chain of fallible calls is the one returned.
AndThen(r, Next(_)) == IF r.ok THEN Next(r.val) ELSE r

\* Iterator::find : the first element that matches.
Find(seq, Matches(_)) ==
  LET found == {i \in DOMAIN seq : Matches(seq[i])}
  IN IF found = {} THEN Err("None")
     ELSE Ok(seq[CHOOSE i \in found : \A j \in found : i =< j])

---------------------------------------------------------------------------
(* Domains and finality thresholds (protocol/domain_id.rs, finality.rs).   *)

AsU32 ==
  [Ethereum |-> 0, Avalanche |-> 1, Optimism |-> 2, Arbitrum |-> 3,
   Solana |-> 5, Base |-> 6, Polygon |-> 7, Sui |-> 8, Aptos |-> 9,
   Unichain |-> 10, Linea |-> 11, Codex |-> 12, Sonic |-> 13,
   WorldChain |-> 14, Monad |-> 15, Sei |-> 16, BnbSmartChain |-> 17,
   Xdc |-> 18, HyperEvm |-> 19, Ink |-> 21, Plume |-> 22,
   StarknetTestnet |-> 25, ArcTestnet |-> 26, Stellar |-> 27, Edge |-> 28,
   Injective |-> 29, Morph |-> 30, Pharos |-> 31, Cronos |-> 32,
   Plasma |-> 33, XLayer |-> 37]

Domains == DOMAIN AsU32

FromU32Arms ==
  [v \in (0 .. 3) \cup (5 .. 19) \cup {21, 22} \cup (25 .. 33) \cup {37} |->
     CASE v = 0 -> "Ethereum" [] v = 1 -> "Avalanche" [] v = 2 -> "Optimism"
       [] v = 3 -> "Arbitrum" [] v = 5 -> "Solana" [] v = 6 -> "Base"
       [] v = 7 -> "Polygon" [] v = 8 -> "Sui" [] v = 9 -> "Aptos"
       [] v = 10 -> "Unichain" [] v = 11 -> "Linea" [] v = 12 -> "Codex"
       [] v = 13 -> "Sonic" [] v = 14 -> "WorldChain" [] v = 15 -> "Monad"
       [] v = 16 -> "Sei" [] v = 17 -> "BnbSmartChain" [] v = 18 -> "Xdc"
       [] v = 19 -> "HyperEvm" [] v = 21 -> "Ink" [] v = 22 -> "Plume"
       [] v = 25 -> "StarknetTestnet" [] v = 26 -> "ArcTestnet"
       [] v = 27 -> "Stellar" [] v = 28 -> "Edge" [] v = 29 -> "Injective"
       [] v = 30 -> "Morph" [] v = 31 -> "Pharos" [] v = 32 -> "Cronos"
       [] v = 33 -> "Plasma" [] v = 37 -> "XLayer"]

DomainFromU32(v) ==
  IF v \in DOMAIN FromU32Arms THEN Ok(FromU32Arms[v])
                              ELSE Err("InvalidDomainId")

IsEvm(domain) ==
  domain \notin {"Solana", "Sui", "Aptos", "StarknetTestnet", "Stellar"}

FinalityAsU32 == [Fast |-> 1000, Standard |-> 2000]

FinalityFromU32(v) ==
  CASE v = 1000 -> Ok("Fast")
    [] v = 2000 -> Ok("Standard")
    [] OTHER    -> Err("InvalidFinalityThreshold")

---------------------------------------------------------------------------
(* CCTP v2 (chain/v2.rs).                                                  *)

SupportsCctpV2 ==
  {"Mainnet", "Sepolia", "Arbitrum", "ArbitrumSepolia", "Base",
   "BaseSepolia", "Optimism", "OptimismSepolia", "Avalanche",
   "AvalancheFuji", "Polygon", "PolygonAmoy", "Unichain", "Linea", "Sonic",
   "Sei", "Hyperliquid"}

Chains == SupportsCctpV2 \cup OtherChains

\* NamedChain::is_testnet of alloy, for the chains of the registry.
IsTestnet(chain) ==
  chain \in {"Sepolia", "ArbitrumSepolia", "BaseSepolia", "OptimismSepolia",
             "AvalancheFuji", "PolygonAmoy"}

\* if !self.supports_cctp_v2() { return Err(UnsupportedChain) }
IfSupported(chain, r) ==
  IF chain \in SupportsCctpV2 THEN r ELSE Err("UnsupportedChain")

SupportsFastTransfer(chain) ==
  IfSupported(chain,
    Ok(chain \in {"Mainnet", "Sepolia", "Arbitrum", "ArbitrumSepolia", "Base",
                  "BaseSepolia", "Optimism", "OptimismSepolia", "Unichain",
                  "Linea"}))

SupportsStandardTransferFeeSwitch(chain) ==
  IfSupported(chain, Ok(chain = "Sei"))

IfFast(chain, r) ==
  AndThen(SupportsFastTransfer(chain),
          LAMBDA fast : IF fast THEN r ELSE Err("FastTransferUnsupported"))

FastTransferFeeBps(chain) == IfFast(chain, Ok("Unknown"))

CCTP_V2_ADDRESSES ==
  [MessageTransmitter |-> [mainnet |-> "81D4", testnet |-> "E737"],
   TokenMessenger     |-> [mainnet |-> "28b5", testnet |-> "8FE6"]]

\* Seeded fault: the addresses of the two environments are exchanged.
TokenMessengerV2AddressSwapped(chain) ==
  IfSupported(chain,
    Ok(IF IsTestnet(chain) THEN CCTP_V2_ADDRESSES.TokenMessenger.mainnet
                           ELSE CCTP_V2_ADDRESSES.TokenMessenger.testnet))

TokenMessengerV2Address(chain) ==
  IfSupported(chain,
    Ok(IF IsTestnet(chain) THEN CCTP_V2_ADDRESSES.TokenMessenger.testnet
                           ELSE CCTP_V2_ADDRESSES.TokenMessenger.mainnet))

MessageTransmitterV2Address(chain) ==
  IfSupported(chain,
    Ok(IF IsTestnet(chain) THEN CCTP_V2_ADDRESSES.MessageTransmitter.testnet
                           ELSE CCTP_V2_ADDRESSES.MessageTransmitter.mainnet))

DomainIdV2Arms ==
  [Mainnet |-> "Ethereum", Sepolia |-> "Ethereum", Avalanche |-> "Avalanche",
   AvalancheFuji |-> "Avalanche", Optimism |-> "Optimism",
   OptimismSepolia |-> "Optimism", Arbitrum |-> "Arbitrum",
   ArbitrumSepolia |-> "Arbitrum", Base |-> "Base", BaseSepolia |-> "Base",
   Polygon |-> "Polygon", PolygonAmoy |-> "Polygon", Unichain |-> "Unichain",
   Linea |-> "Linea", Sonic |-> "Sonic", Sei |-> "Sei",
   Hyperliquid |-> "HyperEvm"]

CctpV2DomainId(chain) ==
  IfSupported(chain, IF chain \in DOMAIN DomainIdV2Arms
                     THEN Ok(DomainIdV2Arms[chain])
                     ELSE Err("UnsupportedChain"))

FastTransferConfirmationTime(chain) ==
  IfFast(chain,
    CASE chain \in {"Mainnet", "Sepolia"} -> Ok(20)
      [] chain \in {"Arbitrum", "ArbitrumSepolia", "Base", "BaseSepolia",
                    "Optimism", "OptimismSepolia", "Unichain", "Linea"} -> Ok(8)
      [] OTHER -> Err("UnsupportedChain"))

StandardTransferConfirmationTime(chain) ==
  IfSupported(chain,
    CASE chain \in {"Mainnet", "Sepolia", "Arbitrum", "ArbitrumSepolia",
                    "Base", "BaseSepolia", "Optimism", "OptimismSepolia",
                    "Unichain"} -> Ok(19 * 60)
      [] chain \in {"Avalanche", "AvalancheFuji"}  -> Ok(20)
      [] chain \in {"Polygon", "PolygonAmoy"}      -> Ok(8 * 60)
      [] chain = "Linea"                           -> Ok(8 * 60 * 60)
      [] chain \in {"Sonic", "Sei", "Hyperliquid"} -> Ok(5)
      [] OTHER -> Err("UnsupportedChain"))

\* The environment of Iris a chain belongs to (bridge/config.rs).
IrisApiUrl(chain) == IF IsTestnet(chain) THEN "sandbox" ELSE "production"

---------------------------------------------------------------------------
(* CCTP v1 (chain/config.rs): four tables and is_supported, each with its  *)
(* own list of chains.                                                     *)

V1MESSENGER ==
  [Arbitrum |-> "1933", ArbitrumSepolia |-> "9f3B", Avalanche |-> "6b25",
   Base |-> "1682", BaseSepolia |-> "9f3B", Mainnet |-> "bd3f",
   Sepolia |-> "9f3B", Optimism |-> "2B40", Polygon |-> "9daF",
   Unichain |-> "4e74"]

V1TRANSMITTER ==
  [Arbitrum |-> "c303", ArbitrumSepolia |-> "acf1", Avalanche |-> "8186",
   Base |-> "ad09", BaseSepolia |-> "7865", Mainnet |-> "0a99",
   Sepolia |-> "7865", Optimism |-> "4D41", Polygon |-> "F3be",
   Unichain |-> "353b"]

IsSupportedV1 ==
  {"Mainnet", "Arbitrum", "Base", "Optimism", "Unichain", "Avalanche",
   "Polygon", "Sepolia", "ArbitrumSepolia", "AvalancheFuji", "BaseSepolia",
   "OptimismSepolia", "PolygonAmoy"}

ConfirmationAverageTime(chain) ==
  CASE chain \in {"Mainnet", "Arbitrum", "Base", "Optimism", "Unichain"} ->
         Ok(19 * 60)
    [] chain = "Avalanche" -> Ok(20)
    [] chain = "Polygon"   -> Ok(8 * 60)
    [] chain = "Sepolia"   -> Ok(60)
    [] chain \in {"ArbitrumSepolia", "AvalancheFuji", "BaseSepolia",
                  "OptimismSepolia", "PolygonAmoy"} -> Ok(20)
    [] OTHER -> Err("UnsupportedChain")

DomainIdV1Arms ==
  [Arbitrum |-> "Arbitrum", ArbitrumSepolia |-> "Arbitrum",
   Avalanche |-> "Avalanche", Base |-> "Base", BaseSepolia |-> "Base",
   Mainnet |-> "Ethereum", Sepolia |-> "Ethereum", Optimism |-> "Optimism",
   Polygon |-> "Polygon", Unichain |-> "Unichain"]

CctpDomainId(chain) ==
  IF chain \in DOMAIN DomainIdV1Arms THEN Ok(DomainIdV1Arms[chain])
                                     ELSE Err("UnsupportedChain")

TokenMessengerAddress(chain) ==
  IF chain \in {"Arbitrum", "ArbitrumSepolia", "Avalanche", "Base",
                "BaseSepolia", "Sepolia", "Mainnet", "Optimism", "Polygon",
                "Unichain"}
  THEN Ok(V1MESSENGER[chain]) ELSE Err("UnsupportedChain")

MessageTransmitterAddress(chain) ==
  IF chain \in {"Arbitrum", "Avalanche", "Base", "Mainnet", "Optimism",
                "Polygon", "ArbitrumSepolia", "BaseSepolia", "Sepolia",
                "Unichain"}
  THEN Ok(V1TRANSMITTER[chain]) ELSE Err("UnsupportedChain")

---------------------------------------------------------------------------
(* Assets and validated routes (primitives.rs).                            *)

Assets == {"USDC", "EURC", "USYC"}

TOKEN ==
  [USDC |-> [Mainnet |-> "A0b8", Sepolia |-> "1c7D", Arbitrum |-> "af88",
             ArbitrumSepolia |-> "75fa", Avalanche |-> "B97E",
             AvalancheFuji |-> "5425", Base |-> "8335",
             BaseSepolia |-> "036C", Optimism |-> "0b2C",
             OptimismSepolia |-> "5fd8", Polygon |-> "3c49",
             PolygonAmoy |-> "41E9", Unichain |-> "078D", Linea |-> "1762",
             Sonic |-> "2921", Sei |-> "e15f", Hyperliquid |-> "b883"],
   EURC |-> [Mainnet |-> "1aBa", Sepolia |-> "0821", Base |-> "60a3",
             BaseSepolia |-> "8084"]]

UsdcEvmTokenAddress(chain) ==
  IF chain \in
       {"Mainnet", "Sepolia", "Arbitrum", "ArbitrumSepolia", "Avalanche",
        "AvalancheFuji", "Base", "BaseSepolia", "Optimism",
        "OptimismSepolia", "Polygon", "PolygonAmoy", "Unichain", "Linea",
        "Sonic", "Sei", "Hyperliquid"}
  THEN Ok(TOKEN.USDC[chain]) ELSE Err("UnsupportedAssetChain")

EurcEvmTokenAddress(chain) ==
  IF chain \in {"Mainnet", "Sepolia", "Base", "BaseSepolia"}
  THEN Ok(TOKEN.EURC[chain]) ELSE Err("UnsupportedAssetChain")

IsSupportedOnV2BridgeChain(asset, chain) ==
  CASE asset = "USDC" -> chain \in SupportsCctpV2
    [] asset = "EURC" -> chain \in {"Mainnet", "Sepolia", "Base", "BaseSepolia"}
    [] asset = "USYC" -> FALSE

V2BridgeTokenAddress(asset, chain) ==
  CASE asset = "USDC" -> UsdcEvmTokenAddress(chain)
    [] asset = "EURC" -> EurcEvmTokenAddress(chain)
    [] asset = "USYC" -> Err("UnsupportedAssetChain")

\* A CctpV2Route is the pair of its chains.
ValidateV2Route(asset, route) ==
  LET valid ==
        CASE asset = "USDC" ->
               /\ IsSupportedOnV2BridgeChain("USDC", route[1])
               /\ IsSupportedOnV2BridgeChain("USDC", route[2])
          [] asset = "EURC" ->
               {route[1], route[2]} \in {{"Mainnet", "Base"},
                                         {"Sepolia", "BaseSepolia"}}
          [] asset = "USYC" -> FALSE
  IN IF valid THEN Ok(route) ELSE Err("UnsupportedAssetRoute")

\* Seeded fault: the environments of the two chains are not compared.
RouteNewAnyEnvironment(source, destination) ==
  IF ~ {source, destination} \subseteq SupportsCctpV2
  THEN Err("UnsupportedChain")
  ELSE IF source = destination THEN Err("InvalidConfig")
  ELSE Ok(<<source, destination>>)

RouteNew(source, destination) ==
  IF ~ {source, destination} \subseteq SupportsCctpV2
  THEN Err("UnsupportedChain")
  ELSE IF source = destination \/ IsTestnet(source) # IsTestnet(destination)
  THEN Err("InvalidConfig")
  ELSE Ok(<<source, destination>>)

ForAsset(source, destination, asset) ==
  AndThen(RouteNew(source, destination),
          LAMBDA route : ValidateV2Route(asset, route))

RouteTokenAddress(route, asset, end) ==
  AndThen(ValidateV2Route(asset, route),
          LAMBDA valid : V2BridgeTokenAddress(asset, valid[end]))

IrisFeePathSegment(asset) ==
  IF asset = "USDC" THEN Ok("USDC") ELSE Err("TransferFeeEndpointUnavailable")
=============================================================================
