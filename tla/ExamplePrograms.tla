--------------------------- MODULE ExamplePrograms ---------------------------
(***************************************************************************)
(* The programs that drive a session: an application, which may call the   *)
(* library as it likes, or an example.  The two that spend testnet funds,  *)
(* testnet_validation (standard) and v2_fast_transfer, read their route,   *)
(* endpoints and tokens from the environment, read balances, stop there    *)
(* unless EXECUTE_TRANSFER is "true", and then approve, burn, poll and     *)
(* mint through the actions of BridgeSession.  Those of OfflineExamples    *)
(* ask the registry and end.                                               *)
(*                                                                         *)
(* The process environment, the RPC answers and the approval's inclusion   *)
(* are external.  mint_if_needed is the Mint of the session: relayers are  *)
(* in MintRelay.  A name of the environment is given after the trimming    *)
(* and lower-casing of parse_chain.                                        *)
(***************************************************************************)
EXTENDS BridgeSession, OfflineExamples

CONSTANT Environments   \* the environments a funded example is started in

VARIABLES
  program,    \* which program runs
  env,        \* its environment
  stage,      \* "idle" in an application; where the example is
  configured, \* <<>>, or what FundedV2Route::from_env returned
  funded,     \* whether the balances it read sufficed
  allowance,  \* what it knows of the token: "unknown", "short" or "enough"
  approval    \* its approval on the chain: "none", "pending" or "mined"

exampleVars == <<program, env, stage, configured, funded, allowance, approval>>
allVars == <<vars, exampleVars>>

FundedPrograms  == {"testnet_validation", "v2_fast_transfer"}
OfflinePrograms == {"v2_integration_validation", "v2_asset_support",
                    "v2_standard_transfer", "basic_bridge"}

Stopped == {"done", "failed"}

DEFAULT_TRANSFER_AMOUNT == 1000000

---------------------------------------------------------------------------
(* FundedV2Route::from_env.                                                *)

DEFAULT_SOURCE_CHAIN      == "ArbitrumSepolia"
DEFAULT_DESTINATION_CHAIN == "BaseSepolia"

Aliases ==
     "ethereum-sepolia" :> "Sepolia" @@ "eth-sepolia" :> "Sepolia"
  @@ "sepolia" :> "Sepolia"
  @@ "arbitrum-sepolia" :> "ArbitrumSepolia"
  @@ "arb-sepolia" :> "ArbitrumSepolia"
  @@ "base-sepolia" :> "BaseSepolia"
  @@ "optimism-sepolia" :> "OptimismSepolia"
  @@ "op-sepolia" :> "OptimismSepolia"
  @@ "avalanche-fuji" :> "AvalancheFuji" @@ "fuji" :> "AvalancheFuji"
  @@ "polygon-amoy" :> "PolygonAmoy" @@ "amoy" :> "PolygonAmoy"

\* NamedChain::from_str, for the other names an environment may hold.
ChainNames ==
     "mainnet" :> "Mainnet" @@ "linea" :> "Linea" @@ "moonbeam" :> "Moonbeam"

ParseChain(raw) ==
  CASE raw \in DOMAIN Aliases    -> Ok(Aliases[raw])
    [] raw \in DOMAIN ChainNames -> Ok(ChainNames[raw])
    [] OTHER                     -> Err("InvalidConfig")

ChainFromEnv(raw, default) == IF raw = "" THEN Ok(default) ELSE ParseChain(raw)

\* rpc_env_var and alchemy_host list the same chains.
RpcEnvVar == [chain \in {"Sepolia", "AvalancheFuji", "OptimismSepolia",
                         "ArbitrumSepolia", "BaseSepolia", "PolygonAmoy"} |->
                <<chain, "RPC_URL">>]

AlchemyHost ==
  [Sepolia |-> "eth-sepolia", AvalancheFuji |-> "avax-fuji",
   OptimismSepolia |-> "opt-sepolia", ArbitrumSepolia |-> "arb-sepolia",
   BaseSepolia |-> "base-sepolia", PolygonAmoy |-> "polygon-amoy"]

ParseRpcUrl(text) == IF text = "bad" THEN Err("InvalidConfig") ELSE Ok(text)

\* The generic variable, then that of the chain, then the Alchemy key.
RpcUrlFor(chain, rpc) ==
  IF rpc.generic # "" THEN ParseRpcUrl(rpc.generic)
  ELSE IF chain \notin DOMAIN RpcEnvVar THEN Err("InvalidConfig")
  ELSE IF rpc.chain # "" THEN ParseRpcUrl(rpc.chain)
  ELSE IF rpc.key = "" \/ chain \notin DOMAIN AlchemyHost
  THEN Err("InvalidConfig")
  ELSE ParseRpcUrl(AlchemyHost[chain])

\* Seeded fault: two rows of the table of tokens are exchanged.
DefaultTestnetUsdcSwapped ==
  [Sepolia |-> "1c7D", AvalancheFuji |-> "5425", OptimismSepolia |-> "5fd8",
   ArbitrumSepolia |-> "036C", BaseSepolia |-> "75fa", PolygonAmoy |-> "41E9"]

DefaultTestnetUsdc ==
  [Sepolia |-> "1c7D", AvalancheFuji |-> "5425", OptimismSepolia |-> "5fd8",
   ArbitrumSepolia |-> "75fa", BaseSepolia |-> "036C", PolygonAmoy |-> "41E9"]

UsdcAddressFor(chain, text) ==
  CASE text = "bad" -> Err("InvalidConfig")
    [] text \notin {"", "bad"} -> Ok(text)
    [] text = "" -> IF chain \in DOMAIN DefaultTestnetUsdc
                    THEN Ok(DefaultTestnetUsdc[chain])
                    ELSE Err("InvalidConfig")

FromEnv(e) ==
  AndThen(ChainFromEnv(e.source, DEFAULT_SOURCE_CHAIN), LAMBDA source :
  AndThen(ChainFromEnv(e.destination, DEFAULT_DESTINATION_CHAIN),
          LAMBDA destination :
  AndThen(RouteNew(source, destination), LAMBDA chains :
    IF ~ IsTestnet(source) \/ ~ IsTestnet(destination)
    THEN Err("InvalidConfig")
    ELSE
      AndThen(RpcUrlFor(source, e.rpc), LAMBDA from :
      AndThen(RpcUrlFor(destination, e.rpc), LAMBDA to :
      AndThen(UsdcAddressFor(source, e.usdc), LAMBDA token :
      AndThen(UsdcAddressFor(destination, ""), LAMBDA minted :
        Ok([chains |-> chains, source_usdc_address |-> token]))))))))

---------------------------------------------------------------------------
(* The examples, stage by stage.                                           *)

Fast == program = "v2_fast_transfer"

\* `?` and panics end the process; nothing it did is undone.
Goto(s) == stage' = s

Configure ==
  LET config == FromEnv(env)
      source == config.val.chains[1]
  IN /\ stage = "config"
     /\ IF config.ok /\ (Fast => SupportsFastTransfer(source) = Ok(TRUE))
        THEN configured' = <<config.val>> /\ Goto("balances")
        ELSE Goto("failed") /\ UNCHANGED configured
     /\ UNCHANGED <<vars, program, env, funded, allowance, approval>>

\* The four reads are joined; below a minimum the example reports and stops.
CheckBalances(reply) ==
  /\ stage = "balances"
  /\ funded' = (reply = "enough")
  /\ CASE reply = "error"  -> Goto("failed")
       [] reply = "short"  -> Goto("done")
       [] reply = "enough" -> Goto("gate")
  /\ UNCHANGED <<vars, program, env, configured, allowance, approval>>

\* Seeded fault: any value of EXECUTE_TRANSFER goes on.
DryRunIfUnset(value) == value = ""

DryRun(value) == value # "true"

Gate ==
  /\ stage = "gate"
  /\ IF DryRun(env.execute) THEN Goto("done") ELSE Goto("bridge")
  /\ UNCHANGED <<vars, program, env, configured, funded, allowance, approval>>

\* The plain builder, although the route was validated.
SetUpBridge ==
  /\ stage = "bridge"
  /\ BuildV2(configured[1].chains[1], configured[1].chains[2], StandardMode)
  /\ Goto(IF Fast THEN "quote" ELSE "checks")
  /\ UNCHANGED <<program, env, configured, funded, allowance, approval>>

\* The bridge that burns is built with the cap that the first one quoted.
QuoteCap(response) ==
  /\ stage = "quote"
  /\ QuoteFastFee(DEFAULT_TRANSFER_AMOUNT, response)
  /\ Goto(IF pc' = "refused" THEN "failed" ELSE "checks")
  /\ UNCHANGED <<program, env, configured, funded, allowance, approval>>

\* Domains and addresses resolve, and the endpoint is asserted to be the
\* sandbox.
CheckConfiguration ==
  /\ stage = "checks"
  /\ IF /\ CctpV2DomainId(built.source).ok /\ DestinationDomainId(built).ok
        /\ TokenMessengerV2Contract(built).ok
        /\ MessageTransmitterV2Contract(built).ok
        /\ ApiUrl(built) = "sandbox"
     THEN Goto("allowance") ELSE Goto("failed")
  /\ UNCHANGED <<vars, program, env, configured, funded, allowance, approval>>

ReadAllowance(reply) ==
  /\ stage = "allowance"
  /\ allowance' = reply
  /\ CASE reply = "unknown" -> Goto("failed")
       [] reply = "short"   -> Goto("approve")
       [] reply = "enough"  -> Goto("burn")
  /\ UNCHANGED <<vars, program, env, configured, funded, approval>>

\* It sleeps five seconds for the confirmation and does not look for it.
Approve(sent) ==
  /\ stage = "approve"
  /\ IF sent THEN approval' = "pending" /\ Goto("burn")
             ELSE Goto("failed") /\ UNCHANGED approval
  /\ UNCHANGED <<vars, program, env, configured, funded, allowance>>

ApprovalMined ==
  /\ approval = "pending" /\ approval' = "mined"
  /\ UNCHANGED <<vars, program, env, stage, configured, funded, allowance>>

\* The gas estimate of a burn that would revert is an error of send.
EstimateFails ==
  allowance = "short" /\ approval = "pending"

BurnOnce(sent) ==
  /\ stage = "burn"
  /\ IF sent /\ ~ EstimateFails
     THEN /\ BurnTokens(configured[1].source_usdc_address, DEFAULT_TRANSFER_AMOUNT)
          /\ Goto(IF pc' = "refused" THEN "failed" ELSE "await")
     ELSE Goto("failed") /\ UNCHANGED vars
  /\ UNCHANGED <<program, env, configured, funded, allowance, approval>>

Poll ==
  /\ stage = "await"
  /\ Polling
  /\ Goto(IF pc' = "attested" THEN "mint" ELSE "failed")
  /\ UNCHANGED <<program, env, configured, funded, allowance, approval>>

MintIfNeeded ==
  /\ stage = "mint"
  /\ Mint
  /\ Goto(IF pc' = "minted" THEN "done" ELSE "failed")
  /\ UNCHANGED <<program, env, configured, funded, allowance, approval>>

\* An offline example runs from end to end and sends nothing.
RunOffline ==
  /\ stage = "offline"
  /\ Goto(IF CASE program = "v2_integration_validation" -> V2IntegrationValidation
               [] program = "v2_asset_support"          -> V2AssetSupport
               [] program = "v2_standard_transfer"      -> V2StandardTransfer
               [] program = "basic_bridge"              -> BasicBridge
          THEN "done" ELSE "failed")
  /\ UNCHANGED <<vars, program, env, configured, funded, allowance, approval>>

---------------------------------------------------------------------------

ProgramInit ==
  /\ SessionInit
  /\ \/ program = "application" /\ env = <<>> /\ stage = "idle"
     \/ program \in OfflinePrograms /\ env = <<>> /\ stage = "offline"
     \/ program \in FundedPrograms /\ env \in Environments /\ stage = "config"
  /\ configured = <<>> /\ funded = FALSE
  /\ allowance = "unknown" /\ approval = "none"

ExampleStep ==
  \/ Configure
  \/ \E reply \in {"error", "short", "enough"} : CheckBalances(reply)
  \/ Gate
  \/ SetUpBridge
  \/ \E response \in FeeResponses : QuoteCap(response)
  \/ CheckConfiguration
  \/ \E reply \in {"unknown", "short", "enough"} : ReadAllowance(reply)
  \/ \E sent \in BOOLEAN : Approve(sent) \/ BurnOnce(sent)
  \/ Poll
  \/ MintIfNeeded
  \/ RunOffline

ProgramNext ==
  \/ program = "application" /\ SessionNext /\ UNCHANGED exampleVars
  \/ ExampleStep
  \/ program \in FundedPrograms /\ Environment /\ UNCHANGED exampleVars
  \/ ApprovalMined
  \/ stage \in Stopped /\ UNCHANGED allVars

\* An example is a program that runs; Iris and the chains owe it nothing.
ProgramSpec == ProgramInit /\ [][ProgramNext]_allVars /\ WF_allVars(ExampleStep)

---------------------------------------------------------------------------

\* An example sends an approval or a burn only on a testnet route, with the
\* balances it asks for, and only when it was told EXECUTE_TRANSFER=true
\* (testnet_validation.rs:21); a dry run leaves the session untouched.
FundedSpendsOnlyOnDemand ==
  program \in FundedPrograms /\ (approval # "none" \/ tx # <<>> \/ pc # "start") =>
    /\ env.execute = "true" /\ funded
    /\ IsTestnet(built.source) /\ IsTestnet(built.destination)

\* What an example burns is the asset burn_asset would burn on its route: its
\* own table of tokens agrees with the library's, unless it was overridden.
FundedBurnsUsdc ==
  program \in FundedPrograms /\ tx # <<>> /\ env.usdc = "" =>
    Ok(tx[1].call.token) = SourceTokenAddress(built, "USDC")

\* A started example ends, whatever the chains and Iris do or do not.
FundedRunEnds == (stage = "config") ~> (stage \in Stopped)

\* The examples that need no network end with Ok: what they assert of domains,
\* addresses, capabilities and endpoints, written down a second time, agrees
\* with the registry the library routes by.
OfflineExamplesPass ==
  program \in OfflinePrograms => stage # "failed"
=============================================================================
