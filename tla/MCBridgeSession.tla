-------------------------- MODULE MCBridgeSession --------------------------
EXTENDS ExamplePrograms

MCChains == {"Mainnet", "Linea", "Sei", "Sepolia", "BaseSepolia", "Moonbeam"}

ModeOf(kind, maxFee, hook) ==
  [kind |-> kind, max_fee |-> maxFee, hook_data |-> hook]

\* A cap of zero, one that reaches an amount, one that falls short of the fee,
\* a hook of no bytes, and one mode of every other kind.
MCModes ==
  { StandardMode, ModeOf("StandardWithFee", 2, <<>>), ModeOf("Fast", 0, <<>>),
    ModeOf("Fast", 100000, <<>>), ModeOf("StandardWithHook", 0, <<"byte">>),
    ModeOf("StandardWithFeeAndHook", 2, <<"byte">>),
    ModeOf("FastWithHook", 16, <<>>), ModeOf("FastWithHook", 16, <<"byte">>) }

Rpc(generic, chain, key) == [generic |-> generic, chain |-> chain, key |-> key]

MCEnvironments ==
  [source : {"", "sepolia", "amoy", "mainnet", "nowhere"},
   destination : {"", "linea", "sepolia"},
   rpc : {Rpc("node", "", ""), Rpc("bad", "", ""), Rpc("", "node", "key"),
          Rpc("", "", "key"), Rpc("", "", "")},
   usdc : {"", "bad", "abcd"},
   execute : {"", "1", "true"}]

\* The chains whose is_supported and tables are compared.
MCSupportedChains == {"Sepolia", "OptimismSepolia", "PolygonAmoy"}
MCNoEnvironments == {}
=============================================================================
