------------------------------ MODULE Registry ------------------------------
(***************************************************************************)
(* The tables the crate ships, row by row: the constants of Shape and      *)
(* Layout as they are in the repository.  No row has eras.                 *)
(***************************************************************************)
EXTENDS Naturals

Row(program, account_type, data_len, len_rule) ==
  [program |-> program, account_type |-> account_type,
   data_len |-> data_len, len_rule |-> len_rule, len_eras |-> << >>]

KAMINO_ACCOUNTS == {
  Row("Kamino Lend", "Obligation", 3344, "Exact"),
  Row("Kamino Lend", "UserMetadata", 1032, "Exact"),
  Row("Kamino Lend", "Reserve", 8624, "Exact"),
  Row("Kamino Lend", "LendingMarket", 4664, "Exact")}

METEORA_DBC_ACCOUNTS == {
  Row("Meteora DBC", "VirtualPool", 424, "Exact"),
  Row("Meteora DBC", "PoolConfig", 1048, "Exact"),
  Row("Meteora DBC", "MeteoraDammV2Metadata", 230, "Exact"),
  Row("Meteora DBC", "MeteoraDammMigrationMetadata", 280, "Exact"),
  Row("Meteora DBC", "TokenBadge", 168, "Exact"),
  Row("Meteora DBC", "PartnerMetadata", 148, "AtLeast"),
  Row("Meteora DBC", "VirtualPoolMetadata", 148, "AtLeast"),
  Row("Meteora DBC", "Operator", 72, "Exact"),
  Row("Meteora DBC", "TransferHookPool", 424, "Exact"),
  Row("Meteora DBC", "ConfigWithTransferHook", 1128, "Exact")}

METEORA_DLMM_ACCOUNTS == {
  Row("Meteora DLMM", "LbPair", 904, "Exact"),
  Row("Meteora DLMM", "BinArray", 10136, "Exact"),
  Row("Meteora DLMM", "PositionV2", 8120, "AtLeast"),
  Row("Meteora DLMM", "BinArrayBitmapExtension", 1576, "Exact"),
  Row("Meteora DLMM", "PresetParameter2", 192, "Exact")}

ORCA_WHIRLPOOL_ACCOUNTS == {
  Row("Orca Whirlpool", "Whirlpool", 653, "Exact"),
  Row("Orca Whirlpool", "Position", 216, "Exact"),
  Row("Orca Whirlpool", "TickArray", 9988, "Exact"),
  Row("Orca Whirlpool", "DynamicTickArray", 148, "AtLeast"),
  Row("Orca Whirlpool", "FeeTier", 44, "Exact"),
  Row("Orca Whirlpool", "WhirlpoolsConfig", 108, "Exact"),
  Row("Orca Whirlpool", "WhirlpoolsConfigExtension", 616, "Exact"),
  Row("Orca Whirlpool", "AdaptiveFeeTier", 256, "Exact"),
  Row("Orca Whirlpool", "LockConfig", 241, "Exact"),
  Row("Orca Whirlpool", "PositionBundle", 136, "Exact")}

\* PROGRAMS, by name.
PROGRAMS == {"Kamino Lend", "Meteora DBC", "Meteora DLMM", "Orca Whirlpool"}

all_specs ==
  KAMINO_ACCOUNTS \cup METEORA_DBC_ACCOUNTS
    \cup METEORA_DLMM_ACCOUNTS \cup ORCA_WHIRLPOOL_ACCOUNTS

\* field
F(name, offset, kind) == [name |-> name, offset |-> offset, kind |-> kind]

LAYOUTS == {
  [program |-> "Kamino Lend", account_type |-> "Obligation", fields |-> {
     F("tag", 8, "U64"), F("last_update_slot", 16, "U64"),
     F("lending_market", 32, "Pubkey"), F("owner", 64, "Pubkey")}],
  [program |-> "Kamino Lend", account_type |-> "Reserve", fields |-> {
     F("version", 8, "U64"), F("last_update_slot", 16, "U64"),
     F("lending_market", 32, "Pubkey"), F("liquidity_mint", 128, "Pubkey"),
     F("liquidity_supply_vault", 160, "Pubkey"), F("liquidity_fee_vault", 192, "Pubkey"),
     F("liquidity_available_amount", 224, "U64"),
     F("liquidity_borrowed_amount_sf", 232, "U128"),
     F("liquidity_market_price_sf", 248, "U128"), F("liquidity_mint_decimals", 272, "U64")}],
  [program |-> "Kamino Lend", account_type |-> "LendingMarket", fields |-> {
     F("version", 8, "U64"), F("bump_seed", 16, "U64"),
     F("lending_market_owner", 24, "Pubkey")}],
  [program |-> "Orca Whirlpool", account_type |-> "Whirlpool", fields |-> {
     F("whirlpools_config", 8, "Pubkey"), F("tick_spacing", 41, "U16"),
     F("fee_rate", 45, "U16"), F("protocol_fee_rate", 47, "U16"),
     F("liquidity", 49, "U128"), F("sqrt_price", 65, "U128"),
     F("tick_current_index", 81, "I32"), F("token_mint_a", 101, "Pubkey"),
     F("token_vault_a", 133, "Pubkey"), F("token_mint_b", 181, "Pubkey"),
     F("token_vault_b", 213, "Pubkey")}],
  [program |-> "Orca Whirlpool", account_type |-> "Position", fields |-> {
     F("whirlpool", 8, "Pubkey"), F("position_mint", 40, "Pubkey"),
     F("liquidity", 72, "U128"), F("tick_lower_index", 88, "I32"),
     F("tick_upper_index", 92, "I32")}],
  [program |-> "Meteora DLMM", account_type |-> "LbPair", fields |-> {
     F("active_id", 76, "I32"), F("bin_step", 80, "U16"), F("status", 82, "U8"),
     F("token_x_mint", 88, "Pubkey"), F("token_y_mint", 120, "Pubkey"),
     F("reserve_x", 152, "Pubkey"), F("reserve_y", 184, "Pubkey")}],
  [program |-> "Meteora DBC", account_type |-> "VirtualPool", fields |-> {
     F("config", 72, "Pubkey"), F("creator", 104, "Pubkey"), F("base_mint", 136, "Pubkey"),
     F("base_vault", 168, "Pubkey"), F("quote_vault", 200, "Pubkey"),
     F("base_reserve", 232, "U64"), F("quote_reserve", 240, "U64")}]}
=============================================================================
