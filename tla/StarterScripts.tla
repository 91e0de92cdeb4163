--------------------------- MODULE StarterScripts ---------------------------
(***************************************************************************)
(* The scripts of reference/flare-viem-starter as programs of              *)
(* SmartAccounts: what the main function of each awaits, in order, with    *)
(* the helpers of its directory written out.                               *)
(*                                                                         *)
(* Amounts are units: one unit is what one script mints, buys, borrows or  *)
(* moves.  A batch of calls is what it takes and gives as a whole, since   *)
(* the personal account runs it atomically.                                *)
(***************************************************************************)
EXTENDS Naturals, Sequences

StarterAssets == {
  "fxrp", "c2flr", "usdt0", "notice", "redeemed", "sent", "shares",
  "chips", "bet", "drawn", "allowRoulette",
  "collateralTok", "loanTok", "collateral", "debt",
  "morphoCol", "morphoLoan", "shimCol", "shimLoan", "shimAuth",
  "credential", "accepted", "valid", "deposit", "usdt", "allowLending",
  "allowBridge", "bridged", "mptAuth", "vaultAuth", "vaultMpt", "mpt",
  "sending", "sepoliaFxrp", "redeeming", "composerRedeemed", "allowShim",
  "walletFxrp", "allowOft", "allowComposer", "queue", "tag", "tagBound"}
StarterKinds == {"FE", "FF", "E0", "E1", "mint", "reserve", "agent", "order"}
StarterEvents == {"none", "UserOp", "DirectMinted", "Reserved", "MintingExecuted",
                  "FXrpTransferred", "Deposited", "InitiateBridge"}
StarterRoutes == {<<"bet", "drawn">>, <<"sending", "sepoliaFxrp">>,
                  <<"redeeming", "composerRedeemed">>}

Unit(assets) == [a \in assets |-> 1]
Op(takes, gives) == [takes |-> Unit(takes), gives |-> gives, sets |-> {}, emits |-> "none"]
Approve(rights) == [Op({}, {}) EXCEPT !.sets = rights]
\* The batch needs the allowances or rights and leaves them in place.
Using(rights, op) == [op EXCEPT !.takes = Unit(DOMAIN @ \union rights), !.sets = @ \union rights]
Emitting(event, op) == [op EXCEPT !.emits = event]
NoCall == Op({}, {})

S(verb) == [do |-> verb, on |-> "pay", kind |-> "mint", op |-> NoCall,
            about |-> {}, event |-> "none", what |-> "op", n |-> 0]
About(verb, assets) == [S(verb) EXCEPT !.about = assets]
Branch(verb, assets, n) == [About(verb, assets) EXCEPT !.n = n]
OnStuck(step) == [step EXCEPT !.on = "stuck"]

\* sendXrplPayment: a payment of that kind carrying op and minting net units.
Payment_(kind, op, net) == [S("Pay") EXCEPT !.kind = kind, !.op = op, !.n = net]
Send(kind, op, net) == <<S("ReadNonce"), Payment_(kind, op, net)>>
Watching(event) == <<S("Watch"), [S("Await") EXCEPT !.event = event]>>
Minting(reuse, on) == <<[S("Prove") EXCEPT !.on = on],
                        [S("Mint") EXCEPT !.on = on, !.n = reuse]>>
Confirming(what, on) == <<[S("Confirm") EXCEPT !.on = on, !.what = what]>>
CheckXrpFor(kind, n) == <<[S("CheckXrp") EXCEPT !.kind = kind, !.n = n]>>
Require(assets) == <<[S("Need") EXCEPT !.op = Op(assets, {})]>>
Transact(op) == <<[S("Tx") EXCEPT !.op = op]>>
Reading(assets) == <<About("Read", assets)>>

\* The three-step flow of a 0xFE memo, with the measured assets of its batch.
HashOf(op, net, measured) ==
  <<S("ReadNonce"), [Payment_("FE", op, net) EXCEPT !.about = measured]>>
  \o Minting(0, "pay") \o Confirming("op", "pay")
Hash(op, net) == HashOf(op, net, {})

\* sendMemoFieldInstruction.
MemoOf(op, net, measured) ==
  <<S("ReadNonce"), [Payment_("FF", op, net) EXCEPT !.about = measured]>>
  \o Watching("UserOp")
Memo(op, net) == MemoOf(op, net, {})

-----------------------------------------------------------------------------
(* Recovery of a stuck direct mint and the fast-forward of the nonce.      *)

\* executeDirectMintingWithData(reuseExistingMint), or the receipt of whoever
\* minted the payment first.
MintOrLoad(on) == <<[S("Used") EXCEPT !.on = on, !.n = 3]>> \o Minting(1, on)

E0Recovery(onMinted) ==
  <<S("Stage"), [S("Diagnose") EXCEPT !.n = onMinted]>>
  \o CheckXrpFor("E0", 1) \o <<Payment_("E0", NoCall, 1)>>
  \o MintOrLoad("pay") \o Confirming("ignore", "pay") \o Confirming("credit", "pay")
  \o MintOrLoad("stuck") \o Confirming("credit", "stuck")

E1FastForward ==
  <<S("Stage"), [S("SetGoal") EXCEPT !.n = 2], S("CheckGoal")>>
  \o CheckXrpFor("E1", 1) \o <<Payment_("E1", NoCall, 1)>>
  \o MintOrLoad("pay") \o Confirming("raise", "pay") \o <<S("GoalReached")>>

\* The demonstration sends a 0xFE payment and does not execute it.
Demo(payments) == CheckXrpFor("mint", payments) \o Send("FE", NoCall, 1) \o <<S("OwnStuck")>>

RecoverDemo == Demo(1) \o E0Recovery(0)
RecoverNamed == <<S("PickStuck")>> \o E0Recovery(0)

RecoveryLength == Len(E0Recovery(0)) - 1
FastForwardDemo == <<S("NoteNonce")>> \o Demo(3) \o <<S("SameNonce")>>
                   \o E0Recovery(RecoveryLength) \o E1FastForward
FastForwardNamed == <<S("NoteNonce"), S("PickStuck")>>
                    \o E0Recovery(RecoveryLength) \o E1FastForward
FastForwardOnly == E1FastForward

-----------------------------------------------------------------------------
(* Roulette.                                                               *)

PlaceBet == Op({"chips"}, {"bet"})
SettleBet == Op({"drawn"}, {})
WaitForNextSecureRandom == <<About("Until", {"drawn"})>>
RouletteBet == Reading({"drawn"}) \o Hash(PlaceBet, 0) \o WaitForNextSecureRandom \o Hash(SettleBet, 0)
RouletteBetMemo == Reading({"drawn"}) \o Memo(PlaceBet, 0) \o WaitForNextSecureRandom \o Memo(SettleBet, 0)

RouletteFund == Hash(Op({"fxrp"}, {"chips"}), 1)
MintFxrpAndApprove == Memo(Approve({"allowRoulette"}), 1)
BuyChips == Memo(Op({"fxrp", "allowRoulette"}, {"chips"}), 0)
RouletteFundMemo == MintFxrpAndApprove \o BuyChips

CashOut == Op({"chips"}, {"fxrp"})
ReadBalances == Reading({"chips"}) \o <<About("IfLacks", {"chips"})>>
RouletteCashOut == ReadBalances \o HashOf(CashOut, 0, {"chips"})
RouletteCashOutMemo == ReadBalances \o MemoOf(CashOut, 0, {"chips"})

-----------------------------------------------------------------------------
(* Morpho: the personal account calls the market, the memo scripts a shim. *)

MintMock == Transact(Approve({"collateralTok"})) \o Transact(Approve({"loanTok"}))
BuildMorphoSetupUserSide(setup) ==
  Reading({"morphoCol", "morphoLoan"}) \o <<About("IfHas", {"morphoCol", "morphoLoan"})>> \o setup
MorphoSetup == MintMock \o BuildMorphoSetupUserSide(Hash(Approve({"morphoCol", "morphoLoan"}), 0))

\* Three memos, each left out when what it grants was there at the outset.
GrantUnless(right) == <<Branch("IfHas", {right}, 5)>> \o Memo(Approve({right}), 0)
EnsureShimSetupMemoField ==
  Reading({"shimCol", "shimLoan", "shimAuth"})
  \o <<About("IfHas", {"shimCol", "shimLoan", "shimAuth"})>>
  \o GrantUnless("shimCol") \o GrantUnless("shimLoan") \o GrantUnless("shimAuth")
MorphoSetupMemo == MintMock \o EnsureShimSetupMemoField

SupplyAndBorrow == Op({"collateralTok"}, {"collateral", "debt", "loanTok"})
MorphoBorrow == Hash(Using({"morphoCol"}, SupplyAndBorrow), 0)
MorphoBorrowMemo == Memo(Using({"shimCol", "shimAuth"}, SupplyAndBorrow), 0)

RepayAndWithdraw == Op({"debt", "collateral", "loanTok"}, {"collateralTok"})
GetAndLogState ==
  Reading({"debt", "collateral"}) \o <<About("IfLacks", {"debt", "collateral"})>>
MorphoRepay ==
  GetAndLogState \o HashOf(Using({"morphoLoan"}, RepayAndWithdraw), 0, {"debt", "collateral"})
MorphoRepayMemo ==
  GetAndLogState \o MemoOf(Using({"shimLoan", "shimAuth"}, RepayAndWithdraw), 0, {"debt", "collateral"})

-----------------------------------------------------------------------------
(* Custom instructions and redemption.                                     *)

CustomInstructions == CheckXrpFor("FE", 1) \o Hash(Op({}, {"notice"}), 1)
\* The relayer forwards no native value: the personal account pays for both.
CustomInstructionsMemo ==
  CheckXrpFor("FF", 2) \o Memo(Op({"c2flr"}, {}), 1) \o Memo(Op({"c2flr"}, {"notice"}), 0)

RedeemLots == Op({"fxrp"}, {"redeemed"})
Redeem == Hash(RedeemLots, 1)
RedeemMemo == Memo(RedeemLots, 1)

-----------------------------------------------------------------------------
(* Flare lending: borrow against FXRP and bridge the loan to the XRPL.     *)

IssueCredential == Transact(Approve({"credential"}))
AcceptCredential == Transact(Using({"credential"}, Approve({"accepted"})))
IssueCredentialScript == IssueCredential \o AcceptCredential

\* The proof of the certificate exists only when the credential does.
GetCertificateFdcProof == Require({"credential"})
ValidateUser == Reading({"valid"}) \o <<Branch("IfHas", {"valid"}, 3)>>
                \o GetCertificateFdcProof \o Transact(Approve({"valid"}))

\* MPTokenAuthorize unless authorized, then the payment of the issuer or vault.
SendMpt(auth, payment) ==
  Reading({auth}) \o <<Branch("IfHas", {auth}, 2)>> \o Transact(Approve({auth})) \o Transact(payment)
SendMptToAccount == SendMpt("vaultAuth", Op({}, {"vaultMpt"}))
TransferEventAmount == SendMpt("mptAuth", Op({"vaultMpt"}, {"mpt"}))
FindLatestInitiateBridge == <<[S("FindLatest") EXCEPT !.event = "InitiateBridge"]>>
PayOut == FindLatestInitiateBridge \o TransferEventAmount

IssueMptOnXrpl == Transact(NoCall)
IssueMintMpt == IssueMptOnXrpl \o SendMptToAccount

DepositBorrowBridge == Emitting("InitiateBridge", Op({"fxrp"}, {"deposit", "bridged"}))
LendingDeposit == Hash(DepositBorrowBridge, 1) \o PayOut
LendingCertified == ValidateUser \o Hash(Using({"valid"}, DepositBorrowBridge), 1) \o PayOut

\* The same five calls in four payments.
LendingBatches(rights) ==
  Memo(Approve({"allowLending"}), 1)
  \o Memo(Using(rights, Op({"fxrp", "allowLending"}, {"deposit", "usdt"})), 0)
  \o Memo(Approve({"allowBridge"}), 0)
  \o Memo(Emitting("InitiateBridge", Op({"usdt", "allowBridge"}, {"bridged"})), 0)
LendingDepositMemo == LendingBatches({}) \o PayOut
LendingCertifiedMemo == ValidateUser \o LendingBatches({"valid"}) \o PayOut

-----------------------------------------------------------------------------
(* LayerZero: FXRP to Sepolia and back.                                    *)

WaitForOftReceivedOnSepolia == <<About("Until", {"sepoliaFxrp"})>>
CrossChainMint ==
  Reading({"sepoliaFxrp"}) \o Hash(Op({"fxrp"}, {"sending"}), 1) \o WaitForOftReceivedOnSepolia
CrossChainMintMemo ==
  Memo(Approve({"allowShim"}), 1) \o Reading({"sepoliaFxrp"})
  \o Memo(Op({"fxrp", "allowShim"}, {"sending"}), 0) \o WaitForOftReceivedOnSepolia

ApproveTokens == Transact(Approve({"allowOft"})) \o Transact(Approve({"allowComposer"}))
ExecuteBridge == Transact(Op({"walletFxrp", "allowOft"}, {"sending"}))
BridgeFxrp == Require({"walletFxrp"}) \o ApproveTokens \o ExecuteBridge

CheckBalance == Require({"sepoliaFxrp"})
ExecuteSendAndRedeem == Transact(Op({"sepoliaFxrp"}, {"redeeming"}))
WaitForFAssetRedeemed == <<About("Until", {"composerRedeemed"})>>
CrossChainRedeem ==
  Reading({"composerRedeemed"}) \o CheckBalance \o ExecuteSendAndRedeem \o WaitForFAssetRedeemed
CrossChainRedeemToTag ==
  Reading({"composerRedeemed"}) \o CheckBalance \o ExecuteSendAndRedeem \o WaitForFAssetRedeemed

-----------------------------------------------------------------------------
(* FAssets from the script's own wallet, USDT0, and the operator's flows.  *)

SwapUsdt0ToFxrp == Require({"usdt0"}) \o Hash(Op({"usdt0"}, {"fxrp"}), 0)
TransferUsdt0 == Require({"usdt0"}) \o Hash(Op({"usdt0"}, {"sent"}), 0)

SendDirectMintPayment == <<Payment_("mint", NoCall, 1)>>
WaitForDirectMintingOutcome == Watching("DirectMinted")
DirectMint == SendDirectMintPayment \o WaitForDirectMintingOutcome

ReserveTag == Transact(Op({}, {"tag"}))
SetMintingRecipient == Transact(Using({"tag"}, Approve({"tagBound"})))
DirectMintTag == ReserveTag \o SetMintingRecipient \o DirectMint
TransferMintingTag == Require({"tag"}) \o Transact(Op({"tag"}, {}))

ValidateRedeemAmount == Require({"queue"})
RedeemAmount == ValidateRedeemAmount \o Transact(Op({"walletFxrp", "queue"}, {"redeemed"}))
RedeemWithTag == ValidateRedeemAmount \o Transact(Op({"walletFxrp", "queue"}, {"redeemed"}))

ReserveCollateral(deposit) ==
  <<Payment_("reserve", deposit, 0), S("Watch"), S("AwaitReservation")>>
SendMintPayment == <<Payment_("agent", NoCall, 1)>> \o Watching("MintingExecuted")
TransferFxrp == <<Payment_("order", Emitting("FXrpTransferred", Op({"fxrp"}, {"sent"})), 0)>>
                \o Watching("FXrpTransferred")
MintAndTransfer == ReserveCollateral(NoCall) \o SendMintPayment \o TransferFxrp

WatchForDepositEvent == Watching("Deposited")
UpshiftMintAndDeposit ==
  ReserveCollateral(Emitting("Deposited", Op({"fxrp"}, {"shares"})))
  \o SendMintPayment \o WatchForDepositEvent

-----------------------------------------------------------------------------
StarterPrograms == [
  idle |-> <<>>, recoverDemo |-> RecoverDemo, recover |-> RecoverNamed,
  fastForwardDemo |-> FastForwardDemo, fastForward |-> FastForwardNamed,
  fastForwardOnly |-> FastForwardOnly,
  bet |-> RouletteBet, betMemo |-> RouletteBetMemo, fund |-> RouletteFund,
  fundMemo |-> RouletteFundMemo, cashOut |-> RouletteCashOut,
  cashOutMemo |-> RouletteCashOutMemo,
  setup |-> MorphoSetup, setupMemo |-> MorphoSetupMemo, borrow |-> MorphoBorrow,
  borrowMemo |-> MorphoBorrowMemo, repay |-> MorphoRepay, repayMemo |-> MorphoRepayMemo,
  custom |-> CustomInstructions, customMemo |-> CustomInstructionsMemo,
  redeem |-> Redeem, redeemMemo |-> RedeemMemo,
  issueCredential |-> IssueCredentialScript, issueMpt |-> IssueMintMpt,
  lending |-> LendingDeposit, lendingCertified |-> LendingCertified,
  lendingMemo |-> LendingDepositMemo, lendingCertifiedMemo |-> LendingCertifiedMemo,
  crossChainMint |-> CrossChainMint, crossChainMintMemo |-> CrossChainMintMemo,
  bridge |-> BridgeFxrp, crossChainRedeem |-> CrossChainRedeem,
  crossChainRedeemToTag |-> CrossChainRedeemToTag,
  swap |-> SwapUsdt0ToFxrp, transferUsdt0 |-> TransferUsdt0,
  directMint |-> DirectMint, directMintTag |-> DirectMintTag,
  transferTag |-> TransferMintingTag, redeemAmount |-> RedeemAmount,
  redeemWithTag |-> RedeemWithTag, mintAndTransfer |-> MintAndTransfer,
  upshift |-> UpshiftMintAndDeposit]

=============================================================================
