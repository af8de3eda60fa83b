------------------------ MODULE ExampleProgramsProofs ------------------------
(***************************************************************************)
(* Proofs of FundedSpendsOnlyOnDemand and FundedBurnsUsdc for every set of *)
(* environments, chains, modes and fees.  Both go by what an example has   *)
(* established when it reaches a stage: StageInv and TokenInv.             *)
(***************************************************************************)
EXTENDS ExamplePrograms, TLAPS

\* CctpV2Route::new accepts only pairs of distinct supported chains of one
\* environment, and returns them.
LEMMA RouteNewPairs ==
  ASSUME NEW source, NEW destination, RouteNew(source, destination).ok
  PROVE  /\ {source, destination} \subseteq SupportsCctpV2
         /\ source # destination
         /\ IsTestnet(source) = IsTestnet(destination)
         /\ RouteNew(source, destination).val = <<source, destination>>
BY DEF RouteNew, Ok, Err

\* FundedV2Route::from_env returns testnet routes only.
LEMMA ConfiguredRouteIsTestnet ==
  ASSUME NEW e, FromEnv(e).ok
  PROVE  /\ IsTestnet(FromEnv(e).val.chains[1])
         /\ IsTestnet(FromEnv(e).val.chains[2])
<1> DEFINE source      == ChainFromEnv(e.source, DEFAULT_SOURCE_CHAIN)
           destination == ChainFromEnv(e.destination, DEFAULT_DESTINATION_CHAIN)
           chains      == RouteNew(source.val, destination.val)
<1>1. source.ok /\ destination.ok /\ chains.ok
  BY DEF FromEnv, AndThen, Err
<1>2. chains.val = <<source.val, destination.val>>
  BY <1>1, RouteNewPairs
<1>3. IsTestnet(source.val) /\ IsTestnet(destination.val)
  BY <1>1 DEF FromEnv, AndThen, Err
<1>4. \E token : FromEnv(e) = Ok([chains |-> chains.val,
                                  source_usdc_address |-> token])
  BY <1>1 DEF FromEnv, AndThen, Err
<1> HIDE DEF source, destination, chains
<1> QED  BY <1>2, <1>3, <1>4 DEF Ok

---------------------------------------------------------------------------
(* The inductive invariant: what an example has established at each stage. *)

Untouched == approval = "none" /\ tx = <<>> /\ pc = "start"

\* What a burn of an example needs, once its bridge is built.
Cleared ==
  /\ env.execute = "true" /\ funded
  /\ {"source", "destination"} \subseteq DOMAIN built
  /\ IsTestnet(built.source) /\ IsTestnet(built.destination)

Before == {"config", "balances", "gate", "bridge"}
After  == {"quote", "checks", "allowance", "approve", "burn", "await", "mint"}

StageInv ==
  program \in FundedPrograms =>
    /\ stage \in Before \cup After \cup Stopped
    /\ stage \in Before => Untouched
    /\ stage \in After => Cleared
    /\ stage \in Stopped => Untouched \/ Cleared
    /\ stage \in {"balances", "gate", "bridge"} =>
         /\ IsTestnet(configured[1].chains[1])
         /\ IsTestnet(configured[1].chains[2])
    /\ stage \in {"gate", "bridge"} => funded = TRUE
    /\ stage = "bridge" => env.execute = "true"

\* A program starts at the first stage, having touched nothing.
LEMMA StageInvInit == ProgramInit => StageInv
BY DEF ProgramInit, SessionInit, StageInv, Untouched, Before, After, Stopped,
       FundedPrograms, OfflinePrograms

\* Rebuilding the bridge with a quoted cap keeps its chains.
LEMMA QuoteKeepsRoute ==
  ASSUME NEW amount, NEW response, QuoteFastFee(amount, response),
         {"source", "destination"} \subseteq DOMAIN built
  PROVE  /\ built'.source = built.source /\ built'.destination = built.destination
         /\ {"source", "destination"} \subseteq DOMAIN built'
<1>1. \/ built' = built
      \/ \E k, m : built' = [built EXCEPT !.mode.kind = k, !.mode.max_fee = m]
  BY DEF QuoteFastFee
<1> QED BY <1>1

\* Every step of an example, of the chains or of Iris keeps it.
LEMMA StageInvStep == StageInv /\ [ProgramNext]_allVars => StageInv'
<1> SUFFICES ASSUME StageInv, [ProgramNext]_allVars, program \in FundedPrograms
             PROVE  StageInv'
  BY DEF StageInv, ProgramNext, ExampleStep, allVars, exampleVars, Configure,
         CheckBalances, Gate, SetUpBridge, QuoteCap, CheckConfiguration,
         ReadAllowance, Approve, BurnOnce, Poll, MintIfNeeded, RunOffline,
         ApprovalMined
<1> USE DEF StageInv, Before, After, Stopped, Untouched
<1>1. CASE Configure
  <2>1. FromEnv(env).ok =>
          /\ IsTestnet(FromEnv(env).val.chains[1])
          /\ IsTestnet(FromEnv(env).val.chains[2])
    BY ConfiguredRouteIsTestnet
  <2>2. UNCHANGED <<pc, tx, approval, env, program>>
    BY <1>1 DEF Configure, vars
  <2>3. \/ stage' = "failed"
        \/ /\ stage' = "balances" /\ FromEnv(env).ok
           /\ configured' = <<FromEnv(env).val>>
    BY <1>1 DEF Configure, Goto
  <2> QED  BY <1>1, <2>1, <2>2, <2>3 DEF Configure
<1>2. CASE \E reply \in {"error", "short", "enough"} : CheckBalances(reply)
  BY <1>2 DEF CheckBalances, Goto, vars
<1>3. CASE Gate
  BY <1>3 DEF Gate, DryRun, Goto, vars
<1>4. CASE SetUpBridge
  <2>1. /\ built'.source = configured[1].chains[1]
        /\ built'.destination = configured[1].chains[2]
        /\ {"source", "destination"} \subseteq DOMAIN built'
    BY <1>4 DEF SetUpBridge, BuildV2, Built, FromRoute
  <2>2. stage = "bridge" /\ stage' \in {"quote", "checks"}
    BY <1>4 DEF SetUpBridge, Goto
  <2> QED  BY <1>4, <2>1, <2>2 DEF SetUpBridge, Cleared
<1>5. CASE \E response \in FeeResponses : QuoteCap(response)
  <2>1. PICK response : QuoteCap(response)  BY <1>5
  <2>2. Cleared /\ stage' \in {"failed", "checks"}
    BY <2>1 DEF QuoteCap, Goto
  <2>3. Cleared'
    BY <2>1, <2>2, QuoteKeepsRoute DEF QuoteCap, Cleared
  <2> QED  BY <2>1, <2>2, <2>3 DEF QuoteCap
<1>6. CASE CheckConfiguration
  BY <1>6 DEF CheckConfiguration, Goto, vars, Cleared
<1>7. CASE \E reply \in {"unknown", "short", "enough"} : ReadAllowance(reply)
  <2>1. stage = "allowance" /\ stage' \in {"failed", "approve", "burn"}
    BY <1>7 DEF ReadAllowance, Goto
  <2>2. Cleared'
    BY <1>7, <2>1 DEF ReadAllowance, vars, Cleared
  <2> QED  BY <1>7, <2>1, <2>2 DEF ReadAllowance
<1>8. CASE \E sent \in BOOLEAN : Approve(sent)
  BY <1>8 DEF Approve, Goto, vars, Cleared
<1>9. CASE \E sent \in BOOLEAN : BurnOnce(sent)
  <2>1. UNCHANGED built
    BY <1>9 DEF BurnOnce, BurnTokens, Submit, vars
  <2>2. Cleared /\ stage' \in {"failed", "await"}
    BY <1>9 DEF BurnOnce, Goto
  <2> QED  BY <1>9, <2>1, <2>2 DEF BurnOnce, Cleared
<1>10. CASE Poll
  <2>1. UNCHANGED built
    BY <1>10 DEF Poll, Polling, AwaitSigned, AwaitSibling, AwaitNothing
  <2>2. Cleared /\ stage' \in {"failed", "mint"}
    BY <1>10 DEF Poll, Goto
  <2> QED  BY <1>10, <2>1, <2>2 DEF Poll, Cleared
<1>11. CASE MintIfNeeded
  <2>1. UNCHANGED built
    BY <1>11 DEF MintIfNeeded, Mint
  <2>2. Cleared /\ stage' \in {"failed", "done"}
    BY <1>11 DEF MintIfNeeded, Goto
  <2> QED  BY <1>11, <2>1, <2>2 DEF MintIfNeeded, Cleared
<1>12. CASE Environment /\ UNCHANGED exampleVars
  <2>1. UNCHANGED <<built, tx>>
    BY <1>12 DEF Environment, MineBurn, ChangeFee, ChangeMinimum, IrisSigns, client
  <2>2. pc = "start" => pc' = "start"
    BY <1>12 DEF Environment, MineBurn, ChangeFee, ChangeMinimum, IrisSigns, client
  <2> QED  BY <1>12, <2>1, <2>2 DEF exampleVars, Cleared
<1>13. CASE ApprovalMined
  BY <1>13 DEF ApprovalMined, vars, Cleared
<1>14. CASE UNCHANGED allVars
  BY <1>14 DEF allVars, vars, exampleVars, Cleared
<1> QED
  BY <1>1, <1>2, <1>3, <1>4, <1>5, <1>6, <1>7, <1>8, <1>9, <1>10, <1>11, <1>12,
     <1>13, <1>14
  DEF ProgramNext, ExampleStep, RunOffline, FundedPrograms

\* An example spends only on demand, in every environment it may be started in.
THEOREM FundedSpendsOnlyOnDemandHolds ==
  ProgramSpec => []FundedSpendsOnlyOnDemand
<1>1. StageInv => FundedSpendsOnlyOnDemand
  BY DEF StageInv, FundedSpendsOnlyOnDemand, Cleared, Untouched, Before, After,
         Stopped
<1> QED  BY StageInvInit, StageInvStep, <1>1, PTL DEF ProgramSpec

---------------------------------------------------------------------------
(* The token of an example: its own table against that of the library.     *)

\* Where the example has a token for a chain, it is that of burn_asset.
LEMMA TablesOfTokensAgree ==
  ASSUME NEW source, NEW destination, RouteNew(source, destination).ok,
         source \in DOMAIN DefaultTestnetUsdc
  PROVE  \A b : b.source = source /\ b.destination = destination =>
           SourceTokenAddress(b, "USDC") = Ok(DefaultTestnetUsdc[source])
<1> SUFFICES ASSUME NEW b, b.source = source, b.destination = destination
             PROVE  SourceTokenAddress(b, "USDC") = Ok(DefaultTestnetUsdc[source])
  OBVIOUS
<1>1. /\ source \in SupportsCctpV2 /\ destination \in SupportsCctpV2
      /\ RouteNew(source, destination) = Ok(<<source, destination>>)
  BY DEF RouteNew, Ok, Err
<1>2. ValidateV2Route("USDC", <<source, destination>>) = Ok(<<source, destination>>)
  BY <1>1 DEF ValidateV2Route, IsSupportedOnV2BridgeChain
<1>3. UsdcEvmTokenAddress(source) = Ok(DefaultTestnetUsdc[source])
  BY DEF UsdcEvmTokenAddress, DefaultTestnetUsdc, TOKEN
<1>4. ForAsset(source, destination, "USDC") = Ok(<<source, destination>>)
  BY <1>1, <1>2 DEF ForAsset, AndThen, Ok
<1>5. ValidatedAssetRoute(b, "USDC") = Ok(<<source, destination>>)
  BY <1>4 DEF ValidatedAssetRoute
<1>6. RouteTokenAddress(<<source, destination>>, "USDC", 1)
        = Ok(DefaultTestnetUsdc[source])
  <2>1. <<source, destination>>[1] = source  OBVIOUS
  <2>2. V2BridgeTokenAddress("USDC", <<source, destination>>[1])
          = Ok(DefaultTestnetUsdc[source])
    BY <1>3, <2>1 DEF V2BridgeTokenAddress
  <2>3. LET valid == ValidateV2Route("USDC", <<source, destination>>)
        IN valid.ok /\ valid.val = <<source, destination>>
    BY <1>2 DEF Ok
  <2> QED  BY <2>2, <2>3 DEF RouteTokenAddress, AndThen
<1> QED  BY <1>5, <1>6 DEF SourceTokenAddress, AndThen, Ok

\* What from_env returns is a route, with the token of its source unless the
\* environment overrides it.
LEMMA ConfiguredTokenIsOfTable ==
  ASSUME NEW e, FromEnv(e).ok
  PROVE  LET c == FromEnv(e).val
         IN /\ RouteNew(c.chains[1], c.chains[2]).ok
            /\ e.usdc = "" => /\ c.chains[1] \in DOMAIN DefaultTestnetUsdc
                              /\ c.source_usdc_address
                                   = DefaultTestnetUsdc[c.chains[1]]
<1> DEFINE source      == ChainFromEnv(e.source, DEFAULT_SOURCE_CHAIN)
           destination == ChainFromEnv(e.destination, DEFAULT_DESTINATION_CHAIN)
           chains      == RouteNew(source.val, destination.val)
           token       == UsdcAddressFor(source.val, e.usdc)
<1>1. source.ok /\ destination.ok /\ chains.ok
  BY DEF FromEnv, AndThen, Err
<1>2. chains.val = <<source.val, destination.val>>
  BY <1>1, RouteNewPairs
<1>3. /\ token.ok
      /\ FromEnv(e) = Ok([chains |-> chains.val, source_usdc_address |-> token.val])
  BY <1>1 DEF FromEnv, AndThen, Err
<1>4. e.usdc = "" => /\ source.val \in DOMAIN DefaultTestnetUsdc
                     /\ token.val = DefaultTestnetUsdc[source.val]
  BY <1>3 DEF UsdcAddressFor, Ok, Err
<1>5. /\ FromEnv(e).val.chains = <<source.val, destination.val>>
      /\ FromEnv(e).val.source_usdc_address = token.val
  BY <1>2, <1>3 DEF Ok
<1>6. /\ FromEnv(e).val.chains[1] = source.val
      /\ FromEnv(e).val.chains[2] = destination.val
  BY <1>5
<1> HIDE DEF source, destination, token
<1> QED  BY <1>1, <1>4, <1>5, <1>6

\* A burn request is for the token it was asked to burn, in every mode.
LEMMA BurnCarriesToken ==
  ASSUME NEW b, NEW token, NEW amount, b.mode.kind \in ModeKinds,
         Burn(b, token, amount).ok
  PROVE  Burn(b, token, amount).val.call.token = token
<1>1. \A domain : BurnRequest(b, domain, token, amount).token = token
  BY DEF BurnRequest, ModeKinds, HasHook, DepositForBurn, DepositForBurnFast,
         DepositForBurnWithFee, DepositForBurnInternal, DepositForBurnWithHooks,
         BurnCall
<1>2. \E to, domain :
        Burn(b, token, amount)
          = Ok([to |-> to, call |-> BurnRequest(b, domain, token, amount)])
  BY DEF Burn, AndThen, Err
<1> QED  BY <1>1, <1>2 DEF Ok

\* The bridge has its fields, and a mode of the library.
ModeIsKnown ==
  /\ {"source", "destination", "mode"} \subseteq DOMAIN built
  /\ "kind" \in DOMAIN built.mode /\ built.mode.kind \in ModeKinds

\* A quote leaves a bridge of a known mode.
LEMMA QuoteKeepsMode ==
  ASSUME NEW amount, NEW response, QuoteFastFee(amount, response), ModeIsKnown
  PROVE  ModeIsKnown'
<1>1. \/ built' = built
      \/ \E k \in ModeKinds : \E m :
           built' = [built EXCEPT !.mode.kind = k, !.mode.max_fee = m]
  BY DEF QuoteFastFee, ModeKinds
<1>2. CASE built' = built  BY <1>2 DEF ModeIsKnown
<1>3. ASSUME NEW k \in ModeKinds, NEW m,
             built' = [built EXCEPT !.mode.kind = k, !.mode.max_fee = m]
      PROVE  ModeIsKnown'
  <2>1. /\ DOMAIN built' = DOMAIN built
        /\ built'.mode = [built.mode EXCEPT !.kind = k, !.max_fee = m]
    BY <1>3 DEF ModeIsKnown
  <2>2. /\ DOMAIN built'.mode = DOMAIN built.mode
        /\ built'.mode.kind = k
    BY <2>1 DEF ModeIsKnown
  <2> QED  BY <1>3, <2>1, <2>2 DEF ModeIsKnown
<1> QED  BY <1>1, <1>2, <1>3

\* The inductive invariant: the configured token, the bridge built on the
\* configured route, and no burn before the stage that burns.
TokenInv ==
  program \in FundedPrograms =>
    /\ stage \in {"balances", "gate", "bridge"} \cup After =>
         /\ RouteNew(configured[1].chains[1], configured[1].chains[2]).ok
         /\ env.usdc = "" =>
              /\ configured[1].chains[1] \in DOMAIN DefaultTestnetUsdc
              /\ configured[1].source_usdc_address
                   = DefaultTestnetUsdc[configured[1].chains[1]]
    /\ stage \in After =>
         /\ ModeIsKnown
         /\ built.source = configured[1].chains[1]
         /\ built.destination = configured[1].chains[2]
    /\ stage \in {"quote", "checks", "allowance", "approve", "burn"} => tx = <<>>
    /\ FundedBurnsUsdc

\* Nothing is configured or burned at the start.
LEMMA TokenInvInit == ProgramInit => TokenInv
BY DEF ProgramInit, SessionInit, TokenInv, FundedBurnsUsdc, After,
       FundedPrograms, OfflinePrograms

\* A step that leaves the bridge, the burn and the configuration alone, and goes
\* from a stage to a later one, keeps the invariant.
LEMMA TokenInvKept ==
  ASSUME TokenInv, UNCHANGED <<built, tx, env, program, configured>>,
         \/ stage' = stage
         \/ stage' \in Stopped
         \/ stage = "balances" /\ stage' = "gate"
         \/ stage = "gate" /\ stage' = "bridge"
         \/ stage = "checks" /\ stage' = "allowance"
         \/ stage = "allowance" /\ stage' \in {"approve", "burn"}
         \/ stage = "approve" /\ stage' = "burn"
         \/ stage = "await" /\ stage' = "mint"
  PROVE  TokenInv'
<1>1. FundedBurnsUsdc => FundedBurnsUsdc'
  BY DEF FundedBurnsUsdc
<1>2. ModeIsKnown => ModeIsKnown'  BY DEF ModeIsKnown
<1> QED  BY <1>1, <1>2 DEF TokenInv, After, Stopped

\* Every step keeps it, given that the stages are what StageInv says.
LEMMA TokenInvStep == StageInv /\ TokenInv /\ [ProgramNext]_allVars => TokenInv'
<1> SUFFICES ASSUME StageInv, TokenInv, [ProgramNext]_allVars,
                    program \in FundedPrograms
             PROVE  TokenInv'
  BY DEF TokenInv, FundedBurnsUsdc, ProgramNext, ExampleStep, allVars,
         exampleVars, Configure, CheckBalances, Gate, SetUpBridge, QuoteCap,
         CheckConfiguration, ReadAllowance, Approve, BurnOnce, Poll,
         MintIfNeeded, RunOffline, ApprovalMined
<1>1. CASE Configure
  <2>1. CASE stage' = "failed" /\ UNCHANGED configured
    BY <1>1, <2>1, TokenInvKept DEF Configure, vars, Stopped
  <2>2. CASE /\ stage' = "balances" /\ FromEnv(env).ok
             /\ configured' = <<FromEnv(env).val>>
    <3>1. tx = <<>>  BY <1>1 DEF Configure, StageInv, Untouched, Before
    <3>2. configured'[1] = FromEnv(env).val  BY <2>2
    <3> QED
      BY <1>1, <2>2, <3>1, <3>2, ConfiguredTokenIsOfTable
      DEF Configure, vars, TokenInv, FundedBurnsUsdc, After
  <2> QED  BY <1>1, <2>1, <2>2 DEF Configure, Goto
<1>2. CASE \E reply \in {"error", "short", "enough"} : CheckBalances(reply)
  BY <1>2, TokenInvKept DEF CheckBalances, Goto, vars, Stopped
<1>3. CASE Gate
  BY <1>3, TokenInvKept DEF Gate, Goto, vars, Stopped
<1>4. CASE SetUpBridge
  <2>1. built' = FromRoute(<<configured[1].chains[1], configured[1].chains[2]>>,
                           StandardMode)
    BY <1>4 DEF SetUpBridge, BuildV2, Built
  <2>2. /\ built'.source = configured[1].chains[1]
        /\ built'.destination = configured[1].chains[2]
        /\ ModeIsKnown'
    BY <2>1 DEF FromRoute, ModeIsKnown, StandardMode, ModeKinds
  <2>3. stage = "bridge" /\ stage' \in {"quote", "checks"} /\ tx = <<>>
    BY <1>4 DEF SetUpBridge, Goto, StageInv, Untouched, Before
  <2>4. UNCHANGED <<tx, env, program, configured>>
    BY <1>4 DEF SetUpBridge, BuildV2, Built
  <2> QED  BY <2>2, <2>3, <2>4 DEF TokenInv, FundedBurnsUsdc, After
<1>5. CASE \E response \in FeeResponses : QuoteCap(response)
  <2>1. PICK response : QuoteCap(response)  BY <1>5
  <2>2. QuoteFastFee(DEFAULT_TRANSFER_AMOUNT, response) /\ stage = "quote"
    BY <2>1 DEF QuoteCap
  <2>3. /\ UNCHANGED <<tx, env, program, configured>>
        /\ stage' \in {"failed", "checks"}
    BY <2>1 DEF QuoteCap, QuoteFastFee, Goto
  <2>4. ModeIsKnown /\ tx = <<>>  BY <2>2 DEF TokenInv, After
  <2>5. ModeIsKnown'  BY <2>2, <2>4, QuoteKeepsMode
  <2>6. built'.source = built.source /\ built'.destination = built.destination
    BY <2>2, <2>4, QuoteKeepsRoute DEF ModeIsKnown
  <2> QED  BY <2>2, <2>3, <2>4, <2>5, <2>6 DEF TokenInv, FundedBurnsUsdc, After
<1>6. CASE CheckConfiguration
  BY <1>6, TokenInvKept DEF CheckConfiguration, Goto, vars, Stopped
<1>7. CASE \E reply \in {"unknown", "short", "enough"} : ReadAllowance(reply)
  BY <1>7, TokenInvKept DEF ReadAllowance, Goto, vars, Stopped
<1>8. CASE \E sent \in BOOLEAN : Approve(sent)
  BY <1>8, TokenInvKept DEF Approve, Goto, vars, Stopped
<1>9. CASE \E sent \in BOOLEAN : BurnOnce(sent)
  <2> DEFINE token == configured[1].source_usdc_address
             burn  == Burn(built, token, DEFAULT_TRANSFER_AMOUNT)
  <2>1. stage = "burn" /\ UNCHANGED <<env, program, configured>>
    BY <1>9 DEF BurnOnce
  <2>2. CASE UNCHANGED <<built, tx>> /\ stage' = "failed"
    BY <2>1, <2>2, TokenInvKept DEF Stopped
  <2>3. CASE /\ burn.ok /\ tx' = <<burn.val>> /\ UNCHANGED built
             /\ stage' = "await"
    <3>1. tx'[1].call.token = token
      BY <2>1, <2>3, BurnCarriesToken DEF TokenInv, After, ModeIsKnown
    <3>2. env.usdc = "" => SourceTokenAddress(built, "USDC") = Ok(token)
      BY <2>1, TablesOfTokensAgree DEF TokenInv, After
    <3>3. FundedBurnsUsdc'
      BY <2>1, <2>3, <3>1, <3>2 DEF FundedBurnsUsdc
    <3> QED  BY <2>1, <2>3, <3>3 DEF TokenInv, After, ModeIsKnown
  <2>4. \/ UNCHANGED <<built, tx>> /\ stage' = "failed"
        \/ /\ burn.ok /\ tx' = <<burn.val>> /\ UNCHANGED built
           /\ stage' = "await"
    <3>1. CASE UNCHANGED vars /\ stage' = "failed"  BY <3>1 DEF vars
    <3>2. CASE /\ Submit(burn)
               /\ stage' = IF pc' = "refused" THEN "failed" ELSE "await"
      BY <3>2 DEF Submit, Refuse
    <3> QED  BY <1>9, <3>1, <3>2 DEF BurnOnce, BurnTokens, Goto
  <2> QED  BY <2>2, <2>3, <2>4
<1>10. CASE Poll
  BY <1>10, TokenInvKept
     DEF Poll, Polling, AwaitSigned, AwaitSibling, AwaitNothing, Goto, Stopped
<1>11. CASE MintIfNeeded
  BY <1>11, TokenInvKept DEF MintIfNeeded, Mint, Refuse, Goto, Stopped
<1>12. CASE Environment /\ UNCHANGED exampleVars
  BY <1>12, TokenInvKept
  DEF Environment, MineBurn, ChangeFee, ChangeMinimum, IrisSigns, client, exampleVars
<1>13. CASE ApprovalMined
  BY <1>13, TokenInvKept DEF ApprovalMined, vars
<1>14. CASE UNCHANGED allVars
  BY <1>14, TokenInvKept DEF allVars, vars, exampleVars
<1> QED
  BY <1>1, <1>2, <1>3, <1>4, <1>5, <1>6, <1>7, <1>8, <1>9, <1>10, <1>11, <1>12,
     <1>13, <1>14
  DEF ProgramNext, ExampleStep, RunOffline, FundedPrograms, StageInv, Before,
      After, Stopped

\* The token an example burns is the one the library has for its source chain,
\* in every environment that does not override it.
THEOREM FundedBurnsUsdcHolds == ProgramSpec => []FundedBurnsUsdc
<1>1. TokenInv => FundedBurnsUsdc  BY DEF TokenInv, FundedBurnsUsdc
<1> QED
  BY StageInvInit, StageInvStep, TokenInvInit, TokenInvStep, <1>1, PTL
  DEF ProgramSpec
=============================================================================
