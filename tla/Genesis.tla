------------------------------ MODULE Genesis -------------------------------
(***************************************************************************)
(* The genesis presets of runtime/src/genesis_config_presets.rs: what each *)
(* network of this runtime starts from.  Keys are the names the source or  *)
(* its comments give them and balances count millions of UNIT.             *)
(***************************************************************************)
EXTENDS Naturals, TLC

GENESIS_TREASURY_ISSUANCE == 550
GENESIS_AIRDROP_ISSUANCE == 50
DEV_ACCOUNT_BALANCE == 1

INITIAL_DIFFICULTY == 1000
MAIN_INITIAL_DIFFICULTY == 1000000

DEV_CHAIN_ID == 320262
TEST_EVM_CHAIN_ID == 320261
MAIN_EVM_CHAIN_ID == 32026

FEE_ANCHOR == 10000

PRIME == "Prime"

DEV_EVM_ACCOUNTS == {"Alith", "Baltathar", "Charleth", "Dorothy", "Ethan", "Faith"}

\* Each validator with its GRANDPA and its ImOnline key.
Keyed(accounts) ==
    [a \in accounts |-> [grandpa |-> <<"ed25519", a>>, im_online |-> <<"sr25519", a>>]]

dev_validators == Keyed({"Alice"})

testnet_validators == Keyed({"Tester"})

live_validators == Keyed({"Live1", "Live2", "Live3", "Live4"})

dev_balances ==
    [a \in {"Alice", "Bob", "Charlie", "Dave", "Eve", "Ferdie"} \cup DEV_EVM_ACCOUNTS
        |-> DEV_ACCOUNT_BALANCE] @@ "Treasury" :> GENESIS_TREASURY_ISSUANCE

live_balances ==
    "Treasury" :> GENESIS_TREASURY_ISSUANCE @@ "Airdrop" :> GENESIS_AIRDROP_ISSUANCE

dev_registrars == <<"Alice">>

live_registrars == <<"Registrar">>

\* Every validator signs its own session keys, and the balances token's proxy
\* contract is the only one there is.
genesis_patch(balances, prime_key, registrars, validators, chain_id, initial_difficulty) ==
    [balances |-> balances, prime |-> prime_key, registrars |-> registrars,
     session_keys |-> validators, initial_validators |-> DOMAIN validators,
     multiplier |-> FEE_ANCHOR, chain_id |-> chain_id,
     contracts |-> {"balances_erc20"}, difficulty |-> initial_difficulty]

development_config_genesis ==
    genesis_patch(dev_balances, "Alice", dev_registrars, dev_validators,
                  DEV_CHAIN_ID, INITIAL_DIFFICULTY)

local_config_genesis ==
    genesis_patch(dev_balances, "Alice", dev_registrars, dev_validators,
                  DEV_CHAIN_ID, INITIAL_DIFFICULTY)

integration_config_genesis ==
    genesis_patch(dev_balances, "Alice", dev_registrars, dev_validators,
                  DEV_CHAIN_ID, INITIAL_DIFFICULTY)


testnet_config_genesis ==
    genesis_patch(live_balances, PRIME, live_registrars, testnet_validators,
                  TEST_EVM_CHAIN_ID, INITIAL_DIFFICULTY)

mainnet_config_genesis ==
    genesis_patch(live_balances, PRIME, live_registrars, live_validators,
                  MAIN_EVM_CHAIN_ID, MAIN_INITIAL_DIFFICULTY)

preset_names == {"development", "local_testnet", "integration", "testnet", "mainnet"}

get_preset(id) ==
    CASE id = "development" -> development_config_genesis
      [] id = "local_testnet" -> local_config_genesis
      [] id = "integration" -> integration_config_genesis
      [] id = "testnet" -> testnet_config_genesis
      [] id = "mainnet" -> mainnet_config_genesis
=============================================================================
