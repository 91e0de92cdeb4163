--------------------------- MODULE LendingPoolProofs ---------------------------
(***************************************************************************)
(* Theorems about LendingPool for every instance.  What they need of the   *)
(* registry is not proved again: the pool's steps leave the registry       *)
(* alone, so every behaviour here is a behaviour of SolvencyRegistry and   *)
(* its theorems apply.                                                     *)
(***************************************************************************)
EXTENDS LendingPanel, SumTheorems

CONSTANT NoCredit

\* The theorems of the registry alone: the parameters of the whitelist beside
\* it play no part in them.
RegistryTheorems == INSTANCE VaultProofContractsProofs
  WITH Deployer <- ZeroAddress, MaxKnown <- 0,
       owner <- ZeroAddress, knownMeasurements <- <<>>

(***************************************************************************)
(* The pool and its token leave the registry to its own transactions.      *)
(***************************************************************************)
THEOREM PoolKeepsRegistry == Spec => Registry!Spec
<1>1. Init => Registry!Init
  BY DEF Init
<1>2. [Next]_vars => [Registry!Next]_(Registry!vars)
  BY DEF Next, vars, PoolNext, RegistryNext, Registry!vars, registryVars, tokenVars,
         Faucet, OwnerMint, Mint, Transfer, Approve, Borrow, Repay
<1> QED
  BY <1>1, <1>2, PTL DEF Spec, Registry!Spec

\* The registry under the two names it has here is one and the same.
LEMMA SameRegistry ==
  /\ Registry!Init <=> RegistryTheorems!Init
  /\ [Registry!Next]_(Registry!vars) <=> [RegistryTheorems!Next]_(RegistryTheorems!vars)
  /\ Registry!TypeOK <=> RegistryTheorems!TypeOK
  /\ Registry!LiveWalletIsBound <=> RegistryTheorems!LiveWalletIsBound
BY DEF Registry!Init, Registry!NoAttestation, Registry!Next, Registry!vars,
       Registry!Submission, Registry!SubmitAttestation, Registry!Accepted,
       Registry!BoundElsewhere, Registry!Live, Registry!Relist, Registry!Tick,
       Registry!TypeOK, Registry!Attestation, Registry!Uint64,
       Registry!LiveWalletIsBound, Registry!Wallet,
       RegistryTheorems!Init, RegistryTheorems!NoAttestation,
       RegistryTheorems!Next, RegistryTheorems!vars,
       RegistryTheorems!Submission, RegistryTheorems!SubmitAttestation,
       RegistryTheorems!Accepted, RegistryTheorems!BoundElsewhere,
       RegistryTheorems!Live, RegistryTheorems!Relist, RegistryTheorems!Tick,
       RegistryTheorems!TypeOK, RegistryTheorems!Attestation,
       RegistryTheorems!Uint64, RegistryTheorems!LiveWalletIsBound,
       RegistryTheorems!Wallet

LEMMA RegistryHolds == Spec => [](Registry!TypeOK /\ Registry!LiveWalletIsBound)
<1>1. RegistryTheorems!RegistryAssumption /\ RegistryTheorems!ContractsAssumption
  BY PoolRegistryAssumption DEF Registry!RegistryAssumption, RegistryTheorems!RegistryAssumption,
     RegistryTheorems!ContractsAssumption, RegistryTheorems!Whitelist!MeasurementAssumption
<1>2. RegistryTheorems!Spec => [](RegistryTheorems!TypeOK /\ RegistryTheorems!LiveWalletIsBound)
  BY <1>1, RegistryTheorems!TypeCorrect, RegistryTheorems!BindingHolds, PTL
<1> QED
  BY <1>2, PoolKeepsRegistry, SameRegistry, PTL DEF Registry!Spec, RegistryTheorems!Spec

-----------------------------------------------------------------------------

\* Moving tokens a holder has keeps every balance a natural number.
LEMMA MovedIsTyped ==
  ASSUME balance \in [Holder -> Nat], NEW from \in Holder, NEW to \in Holder,
         from # to, NEW amount \in Nat, amount <= balance[from]
  PROVE  Moved(from, to, amount) \in [Holder -> Nat]
BY DEF Moved

(***************************************************************************)
(* Type correctness: debts, balances and allowances never go below zero.   *)
(* The registry's part comes from its own theorem.                         *)
(***************************************************************************)
PoolTypeOK ==
  /\ borrowed \in [Address -> Nat]
  /\ balance \in [Holder -> Nat]
  /\ allowance \in [Address -> Nat]
  /\ supply \in Nat

LEMMA PoolTypePreserved == PoolTypeOK /\ [Next]_vars => PoolTypeOK'
<1> SUFFICES ASSUME PoolTypeOK, [Next]_vars PROVE PoolTypeOK'
  OBVIOUS
<1> USE PoolAssumption DEF PoolTypeOK, Holder
<1>1. ASSUME NEW to \in Holder, NEW amount \in Nat, Mint(to, amount)
      PROVE  PoolTypeOK'
  BY <1>1 DEF Mint
<1>2. ASSUME NEW w \in Address, Faucet(w) PROVE PoolTypeOK'
  BY <1>1, <1>2 DEF Faucet
<1>3. ASSUME NEW w \in Address, NEW to \in Holder, NEW amount \in Amount,
             OwnerMint(w, to, amount)
      PROVE  PoolTypeOK'
  BY <1>1, <1>3 DEF OwnerMint
<1>4. ASSUME NEW w \in Address, NEW to \in Holder, NEW amount \in Amount,
             Transfer(w, to, amount)
      PROVE  PoolTypeOK'
  BY <1>4, MovedIsTyped DEF Transfer
<1>5. ASSUME NEW w \in Address, NEW amount \in Amount, Approve(w, amount)
      PROVE  PoolTypeOK'
  BY <1>5 DEF Approve
<1>6. ASSUME NEW w \in Address, NEW amount \in Amount, Borrow(w, amount)
      PROVE  PoolTypeOK'
  <2>1. Moved(Pool, w, amount) \in [Holder -> Nat]
    BY <1>6, MovedIsTyped DEF Borrow
  <2>2. borrowed' \in [Address -> Nat]
    BY <1>6 DEF Borrow
  <2> QED
    BY <1>6, <2>1, <2>2 DEF Borrow
<1>7. ASSUME NEW w \in Address, NEW amount \in Amount, Repay(w, amount)
      PROVE  PoolTypeOK'
  <2>1. Moved(w, Pool, amount) \in [Holder -> Nat]
    BY <1>7, MovedIsTyped DEF Repay
  <2>2. borrowed' \in [Address -> Nat] /\ allowance' \in [Address -> Nat]
    BY <1>7 DEF Repay
  <2> QED
    BY <1>7, <2>1, <2>2 DEF Repay
<1>8. CASE RegistryNext \/ UNCHANGED vars
  BY <1>8 DEF RegistryNext, vars, tokenVars
<1> QED
  BY <1>2, <1>3, <1>4, <1>5, <1>6, <1>7, <1>8 DEF Next, PoolNext

THEOREM TypeCorrect == Spec => []TypeOK
<1>1. Init => PoolTypeOK
  BY PoolAssumption DEF Init, PoolTypeOK, Holder
<1>2. PoolTypeOK /\ Registry!TypeOK => TypeOK
  BY DEF PoolTypeOK, TypeOK
<1> QED
  BY <1>1, <1>2, PoolTypePreserved, RegistryHolds, PTL DEF Spec

(***************************************************************************)
(* A loan needs the tier of a live attestation, and the attestation's      *)
(* account is bound to the borrower (by the registry's invariant).         *)
(***************************************************************************)
LEMMA LoanIsBacked ==
  ASSUME TypeOK, Registry!LiveWalletIsBound,
         NEW w \in Address \ {ZeroAddress}, NEW amount \in Amount,
         Borrow(w, amount)
  PROVE  /\ Registry!Live(w)
         /\ nullifierOwner[attestations[w].nullifier] = w
         /\ attestations[w].tier \in 1..4
         /\ borrowed' = [borrowed EXCEPT ![w] = @ + amount]
         /\ borrowed'[w] <= TierCap[attestations[w].tier]
<1>1. Registry!TierOf(w) \in 1..4
  BY DEF Borrow, WithinCap
<1>2. Registry!Live(w) /\ Registry!TierOf(w) = attestations[w].tier
  BY <1>1 DEF Registry!TierOf
<1>3. borrowed[w] + amount <= TierCap[attestations[w].tier]
  BY <1>2 DEF Borrow, WithinCap
<1>4. nullifierOwner[attestations[w].nullifier] = w
  BY <1>2 DEF Registry!LiveWalletIsBound, Registry!Wallet
<1> QED
  BY <1>1, <1>2, <1>3, <1>4 DEF Borrow, TypeOK

\* Every step other than a loan leaves each debt as it is or lowers it.
LEMMA OtherStepsDoNotLend ==
  ASSUME TypeOK, [Next]_vars, NEW v \in Address,
         ~\E w \in Address \ {ZeroAddress}, amount \in Amount : Borrow(w, amount)
  PROVE  borrowed'[v] \in Nat /\ borrowed'[v] <= borrowed[v]
<1> USE PoolAssumption DEF TypeOK
<1>1. ASSUME NEW w \in Address, NEW amount \in Amount, Repay(w, amount)
      PROVE  borrowed'[v] \in Nat /\ borrowed'[v] <= borrowed[v]
  BY <1>1 DEF Repay
<1>2. CASE UNCHANGED borrowed
  BY <1>2
<1> QED
  BY <1>1, <1>2 DEF Next, PoolNext, RegistryNext, vars, Faucet, OwnerMint, Mint,
                    Transfer, Approve

(***************************************************************************)
(* Debt is only drawn by a wallet that a live attestation backs, from an   *)
(* account bound to it, within the cap of the attested tier.               *)
(***************************************************************************)
THEOREM DebtIsBacked == Spec => DebtNeedsBoundAccount
<1> DEFINE Backed(w) == /\ Registry!Live(w)
                        /\ nullifierOwner[attestations[w].nullifier] = w
                        /\ borrowed'[w] <= TierCap[attestations[w].tier]
<1>1. TypeOK /\ Registry!LiveWalletIsBound /\ [Next]_vars
      => [\A w \in Address : borrowed'[w] > borrowed[w] => Backed(w)]_vars
  <2> SUFFICES ASSUME TypeOK, Registry!LiveWalletIsBound, [Next]_vars,
                      NEW v \in Address, borrowed'[v] > borrowed[v]
               PROVE  Backed(v)
    OBVIOUS
  <2>1. PICK w \in Address \ {ZeroAddress}, amount \in Amount : Borrow(w, amount)
    BY OtherStepsDoNotLend DEF TypeOK
  <2>2. v = w
    BY <2>1, LoanIsBacked DEF TypeOK
  <2> QED
    BY <2>1, <2>2, LoanIsBacked
<1> QED
  BY <1>1, TypeCorrect, RegistryHolds, PTL DEF Spec, DebtNeedsBoundAccount

(***************************************************************************)
(* No wallet ever owes more than the highest tier's cap.                   *)
(***************************************************************************)
THEOREM DebtIsCapped == Spec => []DebtBelowTopCap
<1>1. Init => DebtBelowTopCap
  BY PoolAssumption DEF Init, DebtBelowTopCap
<1>2. TypeOK /\ Registry!LiveWalletIsBound /\ DebtBelowTopCap /\ [Next]_vars
      => DebtBelowTopCap'
  <2> SUFFICES ASSUME TypeOK, Registry!LiveWalletIsBound, DebtBelowTopCap,
                      [Next]_vars, NEW v \in Address
               PROVE  borrowed'[v] <= TierCap[4]
    BY DEF DebtBelowTopCap
  <2>1. borrowed[v] <= TierCap[4] /\ borrowed[v] \in Nat /\ TierCap[4] \in Nat
    BY PoolAssumption DEF DebtBelowTopCap, TypeOK
  <2>2. ASSUME NEW w \in Address \ {ZeroAddress}, NEW amount \in Amount,
               Borrow(w, amount)
        PROVE  borrowed'[v] <= TierCap[4]
    <3>1. CASE v # w
      BY <2>1, <2>2, <3>1, LoanIsBacked DEF TypeOK
    <3>2. CASE v = w
      <4> DEFINE t == attestations[w].tier
      <4>1. t \in 1..4 /\ borrowed'[w] <= TierCap[t]
        BY <2>2, LoanIsBacked
      <4>2. TierCap[t] <= TierCap[4] /\ TierCap[t] \in Nat
        BY <4>1, PoolAssumption
      <4>3. borrowed'[w] \in Nat
        BY <2>2, LoanIsBacked, PoolAssumption DEF TypeOK
      <4> QED
        BY <2>1, <3>2, <4>1, <4>2, <4>3
    <3> QED
      BY <3>1, <3>2
  <2> QED
    BY <2>1, <2>2, OtherStepsDoNotLend
<1> QED
  BY <1>1, <1>2, TypeCorrect, RegistryHolds, PTL DEF Spec

-----------------------------------------------------------------------------

\* The terms of the sum are numbers, so a loan or a repayment moves the sum by
\* its amount.
LEMMA DebtChangesSum ==
  ASSUME PoolTypeOK, NEW w \in Address, NEW amount \in Int
  PROVE  /\ SumFunction(borrowed) \in Int
         /\ SumFunction([borrowed EXCEPT ![w] = @ + amount]) = SumFunction(borrowed) + amount
         /\ SumFunction([borrowed EXCEPT ![w] = @ - amount]) = SumFunction(borrowed) - amount
<1>1. IsFiniteSet(Address)
  BY PoolAssumption
<1>2. borrowed \in [Address -> Int] /\ borrowed[w] \in Int
  BY DEF PoolTypeOK
<1>3. SumFunction(borrowed) \in Int
  BY <1>1, <1>2, SumType
<1>4. ASSUME NEW v \in Int
      PROVE  SumFunction([borrowed EXCEPT ![w] = v]) = SumFunction(borrowed) - borrowed[w] + v
  BY <1>1, <1>2, SumExcept
<1>5. borrowed[w] + amount \in Int /\ borrowed[w] - amount \in Int
  BY <1>2
<1>6. /\ SumFunction([borrowed EXCEPT ![w] = @ + amount])
           = SumFunction(borrowed) - borrowed[w] + (borrowed[w] + amount)
      /\ SumFunction([borrowed EXCEPT ![w] = @ - amount])
           = SumFunction(borrowed) - borrowed[w] + (borrowed[w] - amount)
  BY <1>4, <1>5
<1> QED
  BY <1>2, <1>3, <1>6

(***************************************************************************)
(* The pool is never short of what it was funded with, for any number of   *)
(* wallets and any sequence of loans, repayments and transfers: a loan     *)
(* moves tokens into debt and a repayment back, and only the pool itself   *)
(* could send its tokens elsewhere.                                        *)
(***************************************************************************)
THEOREM PoolStaysWhole == Spec => []PoolIsWhole
<1>1. Init => PoolIsWhole
  <2>1. SumFunction([w \in Address |-> 0]) = 0
    BY PoolAssumption, SumZero
  <2> QED
    BY <2>1, PoolAssumption DEF Init, Holder, PoolIsWhole
<1>2. Init => PoolTypeOK
  BY PoolAssumption DEF Init, PoolTypeOK, Holder
<1>3. PoolTypeOK /\ PoolIsWhole /\ [Next]_vars => PoolIsWhole'
  <2> SUFFICES ASSUME PoolTypeOK, PoolIsWhole, [Next]_vars PROVE PoolIsWhole'
    OBVIOUS
  <2> DEFINE debts == SumFunction(borrowed)
  <2>1. balance[Pool] \in Nat /\ Pool \in Holder /\ \A w \in Address : w # Pool /\ w \in Holder
    BY PoolAssumption DEF PoolTypeOK, Holder
  <2>2. debts \in Int /\ PoolFunds \in Nat /\ balance[Pool] + debts >= PoolFunds
    <3>1. Deployer \in Address /\ 0 \in Int /\ PoolFunds \in Nat
      BY PoolAssumption
    <3>2. debts \in Int
      BY <3>1, DebtChangesSum
    <3> QED
      BY <3>1, <3>2 DEF PoolIsWhole
  <2>3. ASSUME borrowed' = borrowed, balance'[Pool] \in Nat, balance'[Pool] >= balance[Pool]
        PROVE  PoolIsWhole'
    BY <2>1, <2>2, <2>3 DEF PoolIsWhole
  <2>4. ASSUME NEW to \in Holder, NEW amount \in Nat, Mint(to, amount)
        PROVE  PoolIsWhole'
    BY <2>1, <2>3, <2>4 DEF Mint, PoolTypeOK
  <2>5. ASSUME NEW w \in Address, NEW to \in Holder, NEW amount \in Amount,
               Transfer(w, to, amount)
        PROVE  PoolIsWhole'
    BY <2>1, <2>3, <2>5, PoolAssumption DEF Transfer, Moved, PoolTypeOK
  <2>6. ASSUME NEW w \in Address, NEW amount \in Amount, Borrow(w, amount)
        PROVE  PoolIsWhole'
    <3>1. amount \in Nat /\ amount \in Int
      BY PoolAssumption
    <3>2. SumFunction([borrowed EXCEPT ![w] = @ + amount]) = debts + amount
      BY <3>1, DebtChangesSum
    <3>3. SumFunction(borrowed') = debts + amount
      BY <2>6, <3>2 DEF Borrow
    <3>4. balance'[Pool] = balance[Pool] - amount
      BY <2>1, <2>6 DEF Borrow, Moved, PoolTypeOK
    <3> QED
      BY <2>1, <2>2, <3>1, <3>3, <3>4 DEF PoolIsWhole
  <2>7. ASSUME NEW w \in Address, NEW amount \in Amount, Repay(w, amount)
        PROVE  PoolIsWhole'
    <3>1. amount \in Nat /\ amount \in Int
      BY PoolAssumption
    <3>2. SumFunction([borrowed EXCEPT ![w] = @ - amount]) = debts - amount
      BY <3>1, DebtChangesSum
    <3>3. SumFunction(borrowed') = debts - amount
      BY <2>7, <3>2 DEF Repay
    <3>4. balance'[Pool] = balance[Pool] + amount
      BY <2>1, <2>7, <3>1 DEF Repay, Moved, PoolTypeOK
    <3> QED
      BY <2>1, <2>2, <3>1, <3>3, <3>4 DEF PoolIsWhole
  <2>8. CASE UNCHANGED <<borrowed, balance>>
    BY <2>1, <2>3, <2>8
  <2>9. ASSUME NEW w \in Address, Faucet(w) PROVE PoolIsWhole'
    BY <2>4, <2>9, PoolAssumption DEF Faucet, Holder
  <2>10. ASSUME NEW w \in Address, NEW to \in Holder, NEW amount \in Amount,
                OwnerMint(w, to, amount)
         PROVE  PoolIsWhole'
    BY <2>4, <2>10, PoolAssumption DEF OwnerMint
  <2>11. ASSUME NEW w \in Address, NEW amount \in Amount, Approve(w, amount)
         PROVE  PoolIsWhole'
    BY <2>8, <2>11 DEF Approve
  <2>12. CASE RegistryNext \/ UNCHANGED vars
    BY <2>8, <2>12 DEF RegistryNext, vars, tokenVars
  <2> QED
    BY <2>5, <2>6, <2>7, <2>9, <2>10, <2>11, <2>12 DEF Next, PoolNext
<1> QED
  BY <1>1, <1>2, <1>3, PoolTypePreserved, PTL DEF Spec

-----------------------------------------------------------------------------
(* The panel.                                                              *)

\* A run that waits for its signature is for an amount somebody may borrow.
RunsTyped ==
  /\ runs \in [Slot -> [pc : {"none", "sign", "mined"}, by : Address, amount : Nat,
                        mounted : BOOLEAN]]
  /\ \A s \in Slot :
       runs[s].pc = "sign" => runs[s].by # ZeroAddress /\ runs[s].amount \in Amount

LEMMA RunsStayTyped == RunsTyped /\ [PanelNext]_<<vars, panelVars>> => RunsTyped'
<1> SUFFICES ASSUME RunsTyped, [PanelNext]_<<vars, panelVars>> PROVE RunsTyped'
  OBVIOUS
<1> USE DEF RunsTyped
<1>0. ZeroAddress \in Address /\ Amount \subseteq Nat
  BY PanelAssumption, PoolAssumption, PoolRegistryAssumption DEF Registry!RegistryAssumption
<1>1. CASE UNCHANGED runs
  BY <1>1
<1>2. ASSUME NEW s \in Slot, runs' = [runs EXCEPT ![s] = NoRun] PROVE RunsTyped'
  BY <1>0, <1>2 DEF NoRun
<1>3. ASSUME NEW s \in Slot, NEW amount \in Amount, OnBorrow(s, amount) PROVE RunsTyped'
  BY <1>0, <1>3 DEF OnBorrow
<1>4. ASSUME NEW s \in Slot, Mined(s) PROVE RunsTyped'
  BY <1>4 DEF Mined
<1>5. CASE Reset
  BY <1>5 DEF Reset
<1> QED
  BY <1>1, <1>2, <1>3, <1>4, <1>5
  DEF PanelNext, Open, ReadTier, ReadDebt, ReadLands, ReadFails, BorrowReturns,
      BorrowFails, panelVars

(***************************************************************************)
(* The page is one more user of the pool: whatever it and its late runs    *)
(* do, the contracts see a behaviour of LendingPool, and the theorems      *)
(* above hold with the panel in the picture.                               *)
(***************************************************************************)
THEOREM PanelUsesPool == PanelSpec => Spec
<1>1. PanelInit => Init /\ RunsTyped
  <2>1. ZeroAddress \in Address
    BY PoolRegistryAssumption DEF Registry!RegistryAssumption
  <2> QED
    BY <2>1 DEF PanelInit, RunsTyped, NoRun
<1>2. RunsTyped /\ [PanelNext]_<<vars, panelVars>> => [Next]_vars
  <2> SUFFICES ASSUME RunsTyped, [PanelNext]_<<vars, panelVars>> PROVE [Next]_vars
    OBVIOUS
  <2>1. ASSUME NEW s \in Slot, Mined(s) PROVE Next
    <3>1. /\ runs[s].by \in Address \ {ZeroAddress} /\ runs[s].amount \in Amount
          /\ Borrow(runs[s].by, runs[s].amount)
      BY <2>1 DEF Mined, RunsTyped
    <3> QED
      BY <3>1 DEF Next, PoolNext
  <2> QED
    BY <2>1 DEF PanelNext, Open, Reset, ReadTier, ReadDebt, ReadLands, ReadFails,
                OnBorrow, BorrowReturns, BorrowFails
<1> QED
  BY <1>1, <1>2, RunsStayTyped, PTL DEF PanelSpec, Spec

(***************************************************************************)
(* LoanIsShown by itself is not inductive: that every answer on its way    *)
(* was asked for after the loan, once there is a loan, has to be known,    *)
(* and so does that a page without its panel waits for no answer, since    *)
(* onBorrow may set the transaction while there is none.                   *)
(***************************************************************************)
ReadsTyped ==
  \A r \in reads : r \in [pc : {"tier", "debt", "answer"}, tier : Nat, owed : Nat,
                          cap : Nat, after : BOOLEAN]

LoanInv ==
  /\ borrowTx \in BOOLEAN
  /\ ReadsTyped
  /\ ~open => reads = {}
  /\ borrowTx => \A r \in reads : r.after
  /\ borrowTx /\ refreshed => current

LEMMA LoanInvPreserved ==
  TypeOK /\ LoanInv /\ [PanelNext]_<<vars, panelVars>> => LoanInv'
<1> SUFFICES ASSUME TypeOK, LoanInv, [PanelNext]_<<vars, panelVars>> PROVE LoanInv'
  OBVIOUS
<1> USE DEF LoanInv, ReadsTyped
<1>1. CASE UNCHANGED <<open, borrowTx, reads, history>>
  BY <1>1 DEF history
<1>2. CASE Open
  BY <1>2 DEF Open, Asked, Kept, history
<1>3. CASE Reset
  BY <1>3 DEF Reset, Kept
<1>4. ASSUME NEW r \in reads, ReadTier(r) PROVE LoanInv'
  <2>1. PageWallet \in Address /\ Tier \subseteq Nat
    BY PanelAssumption, PoolRegistryAssumption DEF Registry!RegistryAssumption
  <2>2. attestations[PageWallet].tier \in Tier
    BY <2>1 DEF TypeOK, Registry!TypeOK, Registry!Attestation
  <2>3. Registry!TierOf(PageWallet) \in Nat
    BY <2>1, <2>2 DEF Registry!TierOf
  <2> QED
    BY <1>4, <2>3 DEF ReadTier, storeVars, history
<1>5. ASSUME NEW r \in reads, ReadDebt(r) PROVE LoanInv'
  <2>1. TierCap[r.tier] \in Nat /\ borrowed[PageWallet] \in Nat
    BY <1>5, PanelAssumption, PoolAssumption DEF ReadDebt, TypeOK
  <2> DEFINE answer == [r EXCEPT !.pc = "answer", !.tier = 0, !.owed = borrowed[PageWallet],
                                !.cap = TierCap[r.tier]]
  <2>2. /\ answer \in [pc : {"tier", "debt", "answer"}, tier : Nat, owed : Nat,
                       cap : Nat, after : BOOLEAN]
        /\ answer.after = r.after
    BY <2>1
  <2>3. reads' = (reads \ {r}) \cup {answer} /\ UNCHANGED <<open, borrowTx, history>>
    BY <1>5 DEF ReadDebt, storeVars
  <2> HIDE DEF answer
  <2> QED
    BY <2>2, <2>3 DEF history
<1>6. ASSUME NEW r \in reads, ReadLands(r) PROVE LoanInv'
  BY <1>6 DEF ReadLands
<1>7. ASSUME NEW r \in reads, ReadFails(r) PROVE LoanInv'
  BY <1>7 DEF ReadFails, storeVars, history
<1>8. ASSUME NEW s \in Slot, BorrowReturns(s) PROVE LoanInv'
  <2>1. /\ \A r \in reads' : r = Asked(TRUE)
        /\ open' = open /\ (~open => reads' = {})
        /\ borrowTx' = TRUE /\ refreshed' = FALSE
    <3>1. CASE open
      BY <1>8, <3>1 DEF BorrowReturns, Kept
    <3>2. CASE ~open
      BY <1>8, <3>2 DEF BorrowReturns
    <3> QED
      BY <3>1, <3>2
  <2>2. /\ Asked(TRUE) \in [pc : {"tier", "debt", "answer"}, tier : Nat, owed : Nat,
                           cap : Nat, after : BOOLEAN]
        /\ Asked(TRUE).after
    BY DEF Asked
  <2> QED
    BY <2>1, <2>2
<1> QED
  BY <1>1, <1>2, <1>3, <1>4, <1>5, <1>6, <1>7, <1>8
  DEF PanelNext, OnBorrow, Mined, BorrowFails, storeVars, panelVars

(***************************************************************************)
(* Once the panel has refreshed after a loan it shows a debt read after    *)
(* it, however long answers take and whichever session they were asked in. *)
(***************************************************************************)
THEOREM LoansAreShown == PanelSpec => []LoanIsShown
<1>1. PanelInit => LoanInv
  BY DEF PanelInit, LoanInv, ReadsTyped
<1>2. LoanInv => LoanIsShown
  BY DEF LoanInv, LoanIsShown
<1> QED
  BY <1>1, <1>2, LoanInvPreserved, PanelUsesPool, TypeCorrect, PTL DEF PanelSpec

=============================================================================
