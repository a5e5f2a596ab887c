---------------------------- MODULE ProgramAccounts ---------------------------
(***************************************************************************)
(* The account layouts of the program parsers.                             *)
(*                                                                         *)
(* Each arm of a parser is a ROW: how many accounts it insists on          *)
(* (check_min_accounts_req), at which index it reads each declared field   *)
(* (ix.accounts[i], which panics past the end), which indices it reads     *)
(* only if they are there (ix.accounts.get(i)), and where the slice for    *)
(* the trailing list starts.  The declared fields are those of the         *)
(* accounts struct the arm fills.                                          *)
(***************************************************************************)
EXTENDS Integers, Sequences

-----------------------------------------------------------------------------
(* The accounts structs: the declared fields, in declared order.           *)

\* instructions.rs of the SPL Token parser: the plain instructions
TokenFields ==
  [Transfer |-> <<"source", "destination", "owner", "multisig_signers">>,
   InitializeMint |-> <<"mint">>,
   InitializeAccount |-> <<"account", "mint", "owner">>,
   InitializeAccount2 |-> <<"account", "mint">>,
   InitializeMultisig |-> <<"multisig", "signers">>,
   Approve |-> <<"source", "delegate", "owner", "multisig_signers">>,
   Revoke |-> <<"source", "owner", "multisig_signers">>,
   SetAuthority |-> <<"current_authority", "account", "multisig_signers">>,
   MintTo |-> <<"mint", "account", "mint_authority", "multisig_signers">>,
   Burn |-> <<"account", "mint", "owner", "multisig_signers">>]

\* ... and the checked, query and lamport instructions
TokenCheckedFields ==
  [CloseAccount |-> <<"account", "destination", "owner", "multisig_signers">>,
   FreezeAccount |-> <<"account", "mint", "mint_freeze_authority", "multisig_signers">>,
   ThawAccount |-> <<"account", "mint", "mint_freeze_authority", "multisig_signers">>,
   TransferChecked |-> <<"source", "mint", "destination", "owner", "multisig_signers">>,
   ApproveChecked |-> <<"source", "mint", "delegate", "owner", "multisig_signers">>,
   MintToChecked |-> <<"mint", "account", "mint_authority", "multisig_signers">>,
   BurnChecked |-> <<"account", "mint", "owner", "multisig_signers">>,
   SyncNative |-> <<"account">>,
   GetAccountDataSize |-> <<"mint">>,
   InitializeImmutableOwner |-> <<"account">>,
   AmountToUiAmount |-> <<"mint">>,
   UiAmountToAmount |-> <<"mint">>,
   WithdrawExcessLamports |-> <<"source", "destination", "authority", "multisig_signers">>,
   UnwrapLamports |-> <<"source", "destination", "authority", "multisig_signers">>]

\* The token-2022 instructions with an arm of their own
ExtensionFields ==
  [CreateNativeMint |-> <<"mint", "funding_account">>,
   InitializeMintCloseAuthority |-> <<"mint">>,
   InitializeNonTransferableMint |-> <<"mint">>,
   Reallocate |-> <<"account", "payer", "owner", "multisig_signers">>,
   InitializePermanentDelegate |-> <<"account">>,
   WithdrawExcessLamports |-> <<"source_account", "destination_account", "authority",
       "multisig_signers">>]

\* The extensions that share Initialize/Update or Enable/Disable
CommonFields ==
  [Initialize |-> <<"mint">>,
   Update |-> <<"mint", "extension_authority", "multisig_signers">>,
   Enable |-> <<"account", "owner", "multisig_signers">>,
   Disable |-> <<"account", "owner", "multisig_signers">>]

\* Transfer fees
TransferFeeFields ==
  [TransferCheckedWithFee |-> <<"source", "mint", "destination", "owner",
       "multisig_signers">>,
   InitializeTransferFeeConfig |-> <<"mint">>,
   WithdrawWithheldTokensFromMint |-> <<"mint", "fee_recipient",
       "withdraw_withheld_authority", "multisig_signers">>,
   WithdrawWithheldTokensFromAccounts |-> <<"mint", "fee_recipient",
       "withdraw_withheld_authority", "source_accounts", "multisig_signers">>,
   SetTransferFee |-> <<"mint", "mint_fee_acc_owner", "multisig_signers">>,
   HarvestWithheldTokensToMint |-> <<"mint", "mint_fee_acc_owner">>]

\* Confidential transfers
ConfidentialTransferFields ==
  [UpdateMint |-> <<"mint", "authority">>,
   ConfigureAccount |-> <<"account", "mint", "sysvar", "owner", "multisig_signers">>,
   ApproveAccount |-> <<"account", "mint", "authority">>,
   EmptyAccount |-> <<"account", "sysvar", "owner", "multisig_signers">>,
   Deposit |-> <<"account", "mint", "owner", "multisig_signers">>,
   Withdraw |-> <<"source_account", "mint", "destination", "owner", "multisig_signers">>,
   Transfer |-> <<"source_account", "mint", "destination", "context_account", "owner",
       "multisig_signers">>,
   ApplyPendingBalance |-> <<"account", "owner", "multisig_signers">>,
   Credits |-> <<"account", "owner", "multisig_signers">>,
   TransferWithFee |-> <<"source_account", "mint", "destination">>,
   ConfigureAccountWithRegistry |-> <<"account", "mint", "registry">>]

\* Fees of confidential transfers
ConfidentialTransferFeeFields ==
  [InitializeConfidentialTransferFeeConfig |-> <<"mint">>,
   WithdrawWithheldTokensFromMint |-> <<"mint", "fee_recipient", "sysvar",
       "withdraw_withheld_authority", "multisig_signers">>,
   WithdrawWithheldTokensFromAccounts |-> <<"mint", "fee_recipient", "sysvar",
       "withdraw_withheld_authority", "source_accounts", "multisig_signers">>,
   HarvestWithheldTokensToMint |-> <<"mint", "source_accounts">>,
   EnableHarvestToMint |-> <<"mint", "confidential_transfer_fee_authority",
       "multisig_signers">>,
   DisableHarvestToMint |-> <<"account", "confidential_transfer_fee_authority",
       "multisig_signers">>]

\* The token-group interface
TokenGroupFields ==
  [InitializeGroup |-> <<"group", "mint", "mint_authority">>,
   UpdateGroupMaxSize |-> <<"group", "update_authority">>,
   UpdateGroupAuthority |-> <<"group", "current_authority">>,
   InitializeMember |-> <<"member", "member_mint", "member_mint_authority", "group",
       "group_update_authority">>]

\* The token-metadata interface
TokenMetadataFields ==
  [Initialize |-> <<"metadata", "update_authority", "mint", "mint_authority">>,
   UpdateField |-> <<"metadata", "update_authority">>,
   RemoveKey |-> <<"metadata", "update_authority">>,
   UpdateAuthority |-> <<"metadata", "current_update_authority">>,
   Emit |-> <<"metadata">>]

\* The stake pool: validators
StakePoolValidatorFields ==
  [Initialize |-> <<"stake_pool", "manager", "staker", "stake_pool_withdraw_authority",
       "validator_list", "reserve_stake", "pool_mint", "manager_pool_account",
       "token_program", "deposit_authority">>,
   AddValidatorToPool |-> <<"stake_pool", "staker", "funder", "stake_pool_withdraw",
       "validator_list", "stake", "validator", "rent", "clock", "sysvar_stake_history",
       "stake_config", "system_program", "stake_program">>,
   RemoveValidatorFromPool |-> <<"stake_pool", "staker", "stake_pool_withdraw",
       "validator_list", "stake_account", "transient_stake_account", "clock",
       "stake_program">>,
   DecreaseValidatorStake |-> <<"stake_pool", "staker", "stake_pool_withdraw_authority",
       "validator_list", "validator_stake", "transient_stake", "clock", "rent",
       "system_program", "stake_program">>,
   IncreaseValidatorStake |-> <<"stake_pool", "staker", "stake_pool_withdraw_authority",
       "validator_list", "reserve_stake", "transient_stake", "validator_stake", "validator",
       "clock", "rent", "sysvar_stake_history", "stake_config", "system_program",
       "stake_program">>,
   SetPreferredValidator |-> <<"stake_pool_address", "staker", "validator_list_address">>]

\* The stake pool: balances, deposits and withdrawals
StakePoolUserFields ==
  [UpdateValidatorListBalance |-> <<"stake_pool", "stake_pool_withdraw_authority",
       "validator_list_address", "reserve_stake", "clock", "sysvar_stake_history",
       "stake_program">>,
   UpdateStakePoolBalance |-> <<"stake_pool", "withdraw_authority",
       "validator_list_storage", "reserve_stake", "manager_fee_account", "stake_pool_mint",
       "token_program">>,
   CleanupRemovedValidatorEntries |-> <<"stake_pool", "validator_list_storage">>,
   DepositStake |-> <<"stake_pool", "validator_list_storage",
       "stake_pool_deposit_authority", "stake_pool_withdraw_authority",
       "deposit_stake_address", "validator_stake_account", "reserve_stake_account",
       "pool_tokens_to", "manager_fee_account", "referrer_pool_tokens_account", "pool_mint",
       "clock", "sysvar_stake_history", "token_program", "stake_program">>,
   WithdrawStake |-> <<"stake_pool", "validator_list_storage", "stake_pool_withdraw",
       "stake_to_split", "stake_to_receive", "user_stake_authority",
       "user_transfer_authority", "user_pool_token_account", "manager_fee_account",
       "pool_mint", "clock", "token_program", "stake_program">>,
   SetManager |-> <<"stake_pool", "manager", "new_manager", "new_fee_receiver">>,
   SetFee |-> <<"stake_pool", "manager">>]

\* The stake pool: the staker and deposits of SOL
StakePoolDepositFields ==
  [SetStaker |-> <<"stake_pool", "set_staker_authority", "new_staker">>,
   DepositSol |-> <<"stake_pool", "stake_pool_withdraw_authority", "reserve_stake_account",
       "lamports_from", "pool_tokens_to", "manager_fee_account",
       "referrer_pool_tokens_account", "pool_mint", "system_program", "token_program",
       "deposit_authority">>]

\* The stake pool: authorities and metadata
StakePoolAuthorityFields ==
  [SetFundingAuthority |-> <<"stake_pool", "manager", "auth">>,
   WithdrawSol |-> <<"stake_pool", "stake_pool_withdraw_authority",
       "user_transfer_authority", "pool_tokens_from", "reserve_stake_account",
       "lamports_to", "manager_fee_account", "pool_mint", "clock", "sysvar_stake_history",
       "stake_program", "token_program", "sol_withdraw_authority">>,
   CreateTokenMetadata |-> <<"stake_pool", "manager", "stake_pool_withdraw_authority",
       "pool_mint", "payer", "token_metadata", "mpl_token_metadata", "system_program">>,
   UpdateTokenMetadata |-> <<"stake_pool", "manager", "stake_pool_withdraw_authority",
       "token_metadata", "mpl_token_metadata">>,
   IncreaseAdditionalValidatorStake |-> <<"stake_pool", "staker",
       "stake_pool_withdraw_authority", "validator_list", "reserve_stake",
       "ephemeral_stake", "transient_stake", "validator_stake", "validator", "clock",
       "stake_history", "stake_config", "system_program", "stake_program">>]

\* The stake pool: stake taken back
StakePoolReserveFields ==
  [DecreaseAdditionalValidatorStake |-> <<"stake_pool", "staker",
       "stake_pool_withdraw_authority", "validator_list", "reserve_stake",
       "validator_stake", "ephemeral_stake", "transient_stake", "clock", "stake_history",
       "system_program", "stake_program">>,
   DecreaseValidatorStakeWithReserve |-> <<"stake_pool", "staker",
       "stake_pool_withdraw_authority", "validator_list", "reserve_stake",
       "validator_stake", "transient_stake", "clock", "stake_history", "system_program",
       "stake_program">>]

\* The stake pool: limits on slippage
StakePoolSlippageFields ==
  [DepositStakeWithSlippage |-> <<"stake_pool", "validator_list_storage",
       "stake_pool_deposit_authority", "stake_pool_withdraw_authority",
       "deposit_stake_address", "validator_stake_account", "reserve_stake_account",
       "pool_tokens_to", "manager_fee_account", "referrer_pool_tokens_account", "pool_mint",
       "clock", "sysvar_stake_history", "token_program", "stake_program">>,
   WithdrawStakeWithSlippage |-> <<"stake_pool", "validator_list_storage",
       "stake_pool_withdraw", "stake_to_split", "stake_to_receive", "user_stake_authority",
       "user_transfer_authority", "user_pool_token_account", "manager_fee_account",
       "pool_mint", "clock", "token_program", "stake_program">>,
   DepositSolWithSlippage |-> <<"stake_pool", "stake_pool_withdraw_authority",
       "reserve_stake_account", "lamports_from", "pool_tokens_to", "manager_fee_account",
       "referrer_pool_tokens_account", "pool_mint", "system_program", "token_program",
       "deposit_authority">>,
   WithdrawSolWithSlippage |-> <<"stake_pool", "stake_pool_withdraw_authority",
       "user_transfer_authority", "pool_tokens_from", "reserve_stake_account",
       "lamports_to", "manager_fee_account", "pool_mint", "clock", "sysvar_stake_history",
       "stake_program", "token_program", "sol_withdraw_authority">>]

\* The upgradeable BPF loader
BpfLoaderFields ==
  [InitializeBuffer |-> <<"buffer", "authority">>,
   Write |-> <<"buffer", "authority">>,
   Deploy |-> <<"payer", "program_data", "program", "buffer", "rent", "clock",
       "system_program", "authority">>,
   Upgrade |-> <<"program_data", "program", "buffer", "spill", "rent", "clock",
       "authority">>,
   SetAuthority |-> <<"account", "current_authority", "new_authority">>,
   Close |-> <<"close_target", "recipient", "authority", "program">>,
   ExtendProgram |-> <<"program_data", "program", "system_program", "payer">>,
   SetAuthorityChecked |-> <<"account", "current_authority", "new_authority">>]

-----------------------------------------------------------------------------
(* The arms.  "at" gives the index read for each declared field in turn,   *)
(* "opt" the indices read with get for the fields after those, "mid" the   *)
(* length of a list that starts after the last of "at", "tail" where the   *)
(* trailing list starts; NoList where there is no such list.               *)

NoList == -1

Row(min, at, opt, mid, tail) ==
  [min |-> min, at |-> at, opt |-> opt, mid |-> mid, tail |-> tail]

\* The indices from, from + 1, ... , from + n - 1.
Indices(from, n) == [i \in 1 .. n |-> from + i - 1]

\* n accounts, each field at its place.
Fixed(n) == Row(n, Indices(0, n), <<>>, NoList, NoList)

\* n accounts and, after them, the signers of a multisig.
Signers(n) == Row(n, Indices(0, n), <<>>, NoList, n)

\* n accounts that must be there and k that may be.
Optional(n, k) == Row(n, Indices(0, n), Indices(n, k), NoList, NoList)

\* parse_impl_with_depth: the two p-token tags.
TokenTagRows == [WithdrawExcessLamports |-> Signers(3), UnwrapLamports |-> Signers(3)]

\* parse_impl_with_depth: Transfer to InitializeMultisig2.  The rent sysvar at 1 is skipped.
TokenSetupRows ==
  [Transfer |-> Signers(3), InitializeAccount |-> Fixed(3), InitializeMint |-> Fixed(1),
   InitializeMint2 |-> Fixed(1), InitializeAccount2 |-> Fixed(2),
   InitializeAccount3 |-> Fixed(2), InitializeMultisig |-> Row(3, <<0>>, <<>>, NoList, 2),
   InitializeMultisig2 |-> Row(2, <<0>>, <<>>, NoList, 1)]

\* A mutation: SetAuthority is read in the order its struct is declared in.
TokenAuthorityRowsDeclared ==
  [Approve |-> Signers(3), Revoke |-> Signers(2), SetAuthority |-> Signers(2),
   MintTo |-> Signers(3), Burn |-> Signers(3), CloseAccount |-> Signers(3),
   FreezeAccount |-> Signers(3), ThawAccount |-> Signers(3)]

\* parse_impl_with_depth: Approve to ThawAccount.  SetAuthorityAccounts declares the
\* authority before the account.
TokenAuthorityRows ==
  [Approve |-> Signers(3), Revoke |-> Signers(2),
   SetAuthority |-> Row(2, <<1, 0>>, <<>>, NoList, 2), MintTo |-> Signers(3), Burn |-> Signers(3),
   CloseAccount |-> Signers(3), FreezeAccount |-> Signers(3), ThawAccount |-> Signers(3)]

\* parse_impl_with_depth: TransferChecked to UiAmountToAmount.
TokenCheckedRows ==
  [TransferChecked |-> Signers(4), ApproveChecked |-> Signers(4), MintToChecked |-> Signers(3),
   BurnChecked |-> Signers(3), SyncNative |-> Fixed(1), GetAccountDataSize |-> Fixed(1),
   InitializeImmutableOwner |-> Fixed(1), AmountToUiAmount |-> Fixed(1),
   UiAmountToAmount |-> Fixed(1)]

\* The extensions' own arms.  Reallocate skips the system program at 2, and
\* CreateNativeMintAccounts declares the mint before the funding account.
ExtensionRows ==
  [SetAuthority |-> Row(2, <<1, 0>>, <<>>, NoList, 2), CreateNativeMint |-> Row(2, <<1, 0>>, <<>>, NoList, NoList),
   InitializeMintCloseAuthority |-> Fixed(1), InitializeNonTransferableMint |-> Fixed(1),
   Reallocate |-> Row(4, <<0, 1, 3>>, <<>>, NoList, 4), InitializePermanentDelegate |-> Fixed(1),
   WithdrawExcessLamports |-> Signers(3)]

\* try_parse_extension_instruction, InitAndUpdate and EnableAndDisable.
CommonRows ==
  [Initialize |-> Fixed(1), Update |-> Signers(2), Enable |-> Signers(2), Disable |-> Signers(2)]

\* A mutation: the signers start with the source accounts.
TransferFeeRowsOverlapping(n) ==
  [TransferCheckedWithFee |-> Signers(4), InitializeTransferFeeConfig |-> Fixed(1),
   WithdrawWithheldTokensFromMint |-> Signers(3),
   WithdrawWithheldTokensFromAccounts |-> Row(3 + n, <<0, 1, 2>>, <<>>, n, 3),
   HarvestWithheldTokensToMint |-> Fixed(2), SetTransferFee |-> Signers(2)]

\* TransferFeeIx::try_parse; n is num_token_accounts.
TransferFeeRows(n) ==
  [TransferCheckedWithFee |-> Signers(4), InitializeTransferFeeConfig |-> Fixed(1),
   WithdrawWithheldTokensFromMint |-> Signers(3),
   WithdrawWithheldTokensFromAccounts |-> Row(3 + n, <<0, 1, 2>>, <<>>, n, 3 + n),
   HarvestWithheldTokensToMint |-> Fixed(2), SetTransferFee |-> Signers(2)]

\* ConfidentialTransferIx::try_parse, set-up and balances.
ConfidentialTransferRows ==
  [InitializeMint |-> Fixed(1), UpdateMint |-> Fixed(2), ConfigureAccount |-> Signers(4),
   ApproveAccount |-> Fixed(3), EmptyAccount |-> Signers(3), Deposit |-> Signers(3),
   Withdraw |-> Signers(4), Transfer |-> Signers(5), ApplyPendingBalance |-> Signers(2)]

\* ConfidentialTransferIx::try_parse, credits and the arms that check more than they read.
ConfidentialCreditRows ==
  [EnableConfidentialCredits |-> Signers(2), DisableConfidentialCredits |-> Signers(2),
   EnableNonConfidentialCredits |-> Signers(2), DisableNonConfidentialCredits |-> Signers(2),
   TransferWithFee |-> Row(5, <<0, 1, 2>>, <<>>, NoList, NoList),
   ConfigureAccountWithRegistry |-> Row(4, <<0, 1, 2>>, <<>>, NoList, NoList)]

\* ConfidentialTransferFeeIx::try_parse.  The two source lists are trailing lists.
ConfidentialTransferFeeRows ==
  [InitializeConfidentialTransferFeeConfig |-> Fixed(1),
   WithdrawWithheldTokensFromMint |-> Signers(4),
   WithdrawWithheldTokensFromAccounts |-> Row(5, <<0, 1, 2, 3>>, <<>>, NoList, 4),
   HarvestWithheldTokensToMint |-> Row(2, <<0>>, <<>>, NoList, 1),
   EnableHarvestToMint |-> Signers(2), DisableHarvestToMint |-> Signers(2)]

\* TokenGroupIx::try_parse.
TokenGroupRows ==
  [InitializeGroup |-> Fixed(3), UpdateGroupMaxSize |-> Fixed(2),
   UpdateGroupAuthority |-> Fixed(2), InitializeMember |-> Fixed(5)]

\* TokenMetadataIx::try_parse.
TokenMetadataRows ==
  [Initialize |-> Fixed(4), UpdateField |-> Fixed(2), RemoveKey |-> Fixed(2),
   UpdateAuthority |-> Fixed(2), Emit |-> Fixed(1)]

\* The stake pool's parse_impl: validators.
StakePoolValidatorRows ==
  [Initialize |-> Optional(9, 1), AddValidatorToPool |-> Fixed(13),
   RemoveValidatorFromPool |-> Fixed(8), DecreaseValidatorStake |-> Fixed(10),
   IncreaseValidatorStake |-> Fixed(14), SetPreferredValidator |-> Fixed(3)]

\* ... balances, deposits and withdrawals.
StakePoolUserRows ==
  [UpdateValidatorListBalance |-> Fixed(7), UpdateStakePoolBalance |-> Fixed(7),
   CleanupRemovedValidatorEntries |-> Fixed(2), DepositStake |-> Fixed(15),
   WithdrawStake |-> Fixed(13), SetManager |-> Fixed(4), SetFee |-> Fixed(2)]

\* ... authorities and metadata.
StakePoolAuthorityRows ==
  [SetStaker |-> Fixed(3), DepositSol |-> Optional(10, 1), SetFundingAuthority |-> Optional(2, 1),
   WithdrawSol |-> Optional(12, 1), CreateTokenMetadata |-> Fixed(8),
   UpdateTokenMetadata |-> Fixed(5)]

\* ... stake added and taken back.
StakePoolReserveRows ==
  [IncreaseAdditionalValidatorStake |-> Fixed(14), DecreaseAdditionalValidatorStake |-> Fixed(12),
   DecreaseValidatorStakeWithReserve |-> Fixed(11)]

\* A mutation: the source and the target of WithdrawSolWithSlippage change places.
StakePoolSlippageRowsSwapped ==
  [DepositStakeWithSlippage |-> Fixed(15), WithdrawStakeWithSlippage |-> Fixed(13),
   DepositSolWithSlippage |-> Optional(10, 1),
   WithdrawSolWithSlippage |->
     Row(12, <<0, 1, 2, 5, 4, 3, 6, 7, 8, 9, 10, 11>>, <<12>>, NoList, NoList)]

\* ... and limits on slippage.
StakePoolSlippageRows ==
  [DepositStakeWithSlippage |-> Fixed(15), WithdrawStakeWithSlippage |-> Fixed(13),
   DepositSolWithSlippage |-> Optional(10, 1), WithdrawSolWithSlippage |-> Optional(12, 1)]

\* The loader's parse_impl.
BpfLoaderRows ==
  [InitializeBuffer |-> Fixed(2), Write |-> Fixed(2), Deploy |-> Fixed(8), Upgrade |-> Fixed(7),
   SetAuthority |-> Optional(2, 1), Close |-> Optional(2, 2), ExtendProgram |-> Optional(2, 2),
   SetAuthorityChecked |-> Fixed(3)]
=============================================================================
