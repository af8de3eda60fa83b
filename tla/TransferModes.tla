--------------------------- MODULE TransferModes ---------------------------
(***************************************************************************)
(* What a burn puts on the wire: TransferMode (transfer_mode.rs), the      *)
(* accessors and the guards of CctpV2 (bridge/v2.rs), the request builders *)
(* of TokenMessengerV2Contract, and those of the v1 contract.              *)
(*                                                                         *)
(* A bridge is the record of its builder's fields.  Providers are what the *)
(* chains are; the sender of a transaction is the account of the session.  *)
(***************************************************************************)
EXTENDS Routes, Sequences

Anyone == "0x0"   \* Address::ZERO as destinationCaller

\* The wire values of the v2 burn functions, one record for both of them.
BurnCall(fn, domain, recipient, token, amount, maxFee, minFinality, hook) ==
  [fn |-> fn, domain |-> domain, recipient |-> recipient, token |-> token,
   amount |-> amount, caller |-> Anyone, max_fee |-> maxFee,
   min_finality |-> minFinality, hook |-> hook]

---------------------------------------------------------------------------
(* TransferMode.  max_fee and hook_data are fields of the variants that    *)
(* have them; the others hold the neutral value.                           *)

ModeKinds == {"Standard", "StandardWithFee", "Fast", "StandardWithHook",
              "StandardWithFeeAndHook", "FastWithHook"}

FinalityThreshold(mode) ==
  IF mode.kind \in {"Fast", "FastWithHook"} THEN "Fast" ELSE "Standard"

IsFast(mode) == mode.kind \in {"Fast", "FastWithHook"}

HasHook(mode) ==
  mode.kind \in {"StandardWithHook", "StandardWithFeeAndHook", "FastWithHook"}

UsesFeeSwitch(mode) ==
  mode.kind \in {"StandardWithFee", "StandardWithFeeAndHook"}

HasExplicitFeeCap(mode) == IsFast(mode) \/ UsesFeeSwitch(mode)

ModeMaxFee(mode) ==
  IF mode.kind \in {"StandardWithFee", "StandardWithFeeAndHook", "Fast",
                    "FastWithHook"}
  THEN mode.max_fee ELSE 0

ModeHookData(mode) ==
  IF HasHook(mode) THEN Ok(mode.hook_data) ELSE Err("None")

---------------------------------------------------------------------------
(* Accessors of CctpV2 and its view through the CctpBridge trait.          *)

ApiUrl(bridge) ==
  IF bridge.api_url_override.ok THEN bridge.api_url_override.val
                                ELSE IrisApiUrl(bridge.source)

DestinationDomainId(bridge)        == CctpV2DomainId(bridge.destination)
TokenMessengerV2Contract(bridge)   == TokenMessengerV2Address(bridge.source)
MessageTransmitterV2Contract(bridge) ==
  MessageTransmitterV2Address(bridge.destination)

MaxFee(bridge) ==
  IF HasExplicitFeeCap(bridge.mode) THEN Ok(ModeMaxFee(bridge.mode))
                                    ELSE Err("None")

FromRoute(route, mode) ==
  [source |-> route[1], destination |-> route[2], mode |-> mode,
   recipient |-> "recipient", api_url_override |-> Err("None")]

\* The CctpBridge trait for v2.
TraitView(bridge) ==
  [supports_fast_transfer |->
     /\ IsFast(bridge.mode)
     /\ SupportsFastTransfer(bridge.source) = Ok(TRUE),
   supports_hooks     |-> HasHook(bridge.mode),
   finality_threshold |-> Ok(FinalityThreshold(bridge.mode))]

EnsureFastTransferSupported(bridge) ==
  AndThen(SupportsFastTransfer(bridge.source),
          LAMBDA fast : IF fast THEN Ok("unit")
                                ELSE Err("FastTransferUnsupported"))

EnsureFeeSwitchSupported(bridge) ==
  AndThen(SupportsStandardTransferFeeSwitch(bridge.source),
          LAMBDA switch : IF switch
                          THEN Ok("unit")
                          ELSE Err("StandardTransferFeeSwitchUnsupported"))

ValidateTransferMode(bridge) ==
  AndThen(IF IsFast(bridge.mode) THEN EnsureFastTransferSupported(bridge)
                                 ELSE Ok("unit"),
          LAMBDA unit : IF UsesFeeSwitch(bridge.mode)
                        THEN EnsureFeeSwitchSupported(bridge)
                        ELSE Ok(unit))

ValidatedAssetRoute(bridge, asset) ==
  ForAsset(bridge.source, bridge.destination, asset)

SourceTokenAddress(bridge, asset) ==
  AndThen(ValidatedAssetRoute(bridge, asset),
          LAMBDA route : RouteTokenAddress(route, asset, 1))

---------------------------------------------------------------------------
(* Request builders of the contracts.                                      *)

DepositForBurnInternal(recipient, domain, token, amount, maxFee, finality) ==
  BurnCall("depositForBurn", AsU32[domain], recipient, token, amount, maxFee,
           finality, <<>>)

DepositForBurnWithFee(recipient, domain, token, amount, maxFee, finality) ==
  DepositForBurnInternal(recipient, domain, token, amount, maxFee, finality)

DepositForBurn(recipient, domain, token, amount, finality) ==
  DepositForBurnWithFee(recipient, domain, token, amount, 0, finality)

DepositForBurnFast(recipient, domain, token, amount, maxFee, finality) ==
  DepositForBurnInternal(recipient, domain, token, amount, maxFee, finality)

DepositForBurnWithHooks(recipient, domain, token, amount, cap, finality, hook) ==
  BurnCall("depositForBurnWithHook", AsU32[domain], recipient, token, amount,
           cap, finality, hook)

\* The v1 function has no fee, no finality and no hook.
DepositForBurnV1(recipient, domain, token, amount) ==
  DepositForBurnInternal(recipient, domain, token, amount, 0,
                         FinalityAsU32.Standard)

---------------------------------------------------------------------------
(* burn: the guards in their order, then the request of the mode.          *)

\* Seeded fault (issue 218): a burn with a hook asks for standard finality
\* while the bridge reports fast.
BurnRequestHookIsStandard(bridge, domain, token, amount) ==
  LET mode     == bridge.mode
      maxFee   == ModeMaxFee(mode)
      finality == FinalityAsU32[FinalityThreshold(mode)]
  IN IF HasHook(mode)
     THEN DepositForBurnWithHooks(bridge.recipient, domain, token, amount,
                                  maxFee, FinalityAsU32.Standard,
                                  mode.hook_data)
     ELSE DepositForBurnWithFee(bridge.recipient, domain, token, amount,
                                maxFee, finality)

BurnRequest(bridge, domain, token, amount) ==
  LET mode     == bridge.mode
      maxFee   == ModeMaxFee(mode)
      finality == FinalityAsU32[FinalityThreshold(mode)]
  IN CASE mode.kind = "Standard" ->
            DepositForBurn(bridge.recipient, domain, token, amount, finality)
       [] mode.kind = "StandardWithFee" ->
            DepositForBurnWithFee(bridge.recipient, domain, token, amount,
                                  maxFee, finality)
       [] mode.kind = "Fast" ->
            DepositForBurnFast(bridge.recipient, domain, token, amount,
                               maxFee, finality)
       [] HasHook(mode) ->
            DepositForBurnWithHooks(bridge.recipient, domain, token, amount,
                                    maxFee, finality, mode.hook_data)

\* Seeded fault: a cap equal to the amount passes.
CapExceedsAmount(mode, amount) == ModeMaxFee(mode) > amount

CapReachesAmount(mode, amount) == ModeMaxFee(mode) >= amount

Burn(bridge, token, amount) ==
  AndThen(ValidateTransferMode(bridge), LAMBDA unit :
    IF UsesFeeSwitch(bridge.mode) /\ CapReachesAmount(bridge.mode, amount)
    THEN Err("InvalidAmount")
    ELSE AndThen(TokenMessengerV2Contract(bridge), LAMBDA messenger :
         AndThen(DestinationDomainId(bridge), LAMBDA domain :
           Ok([to   |-> messenger,
               call |-> BurnRequest(bridge, domain, token, amount)]))))

BurnAsset(bridge, asset, amount) ==
  AndThen(SourceTokenAddress(bridge, asset),
          LAMBDA token : Burn(bridge, token, amount))

\* A v1 burn as the examples and the README build it: the tables of the
\* bridge, then the request builder.
BurnV1(bridge, token, amount) ==
  AndThen(TokenMessengerAddress(bridge.source), LAMBDA messenger :
  AndThen(CctpDomainId(bridge.destination), LAMBDA domain :
    Ok([to   |-> messenger,
        call |-> DepositForBurnV1(bridge.recipient, domain, token, amount)])))
=============================================================================
