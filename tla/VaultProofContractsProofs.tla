----------------------- MODULE VaultProofContractsProofs -----------------------
(***************************************************************************)
(* Theorems about the registry of attestations, first under a whitelist    *)
(* that may answer anything, then with the whitelist it is deployed with:  *)
(* for every set of wallets, nullifiers, nonces, builds, tiers and         *)
(* validities and every bound.                                             *)
(***************************************************************************)
EXTENDS VaultProofContracts, SolvencyRegistryRefinement, TLAPS


(***************************************************************************)
(* Type correctness.  The checked addition is what keeps expiresAt a       *)
(* uint64.                                                                 *)
(***************************************************************************)
LEMMA InitTyped == Init => TypeOK
BY RegistryAssumption DEF Init, TypeOK, NoAttestation, Attestation, Uint64

LEMMA TypePreserved == TypeOK /\ [Next]_vars => TypeOK'
<1> USE RegistryAssumption DEF TypeOK, Attestation, Uint64
<1> SUFFICES ASSUME TypeOK, [Next]_vars PROVE TypeOK'
  OBVIOUS
<1>1. ASSUME NEW s \in Submission, SubmitAttestation(s) PROVE TypeOK'
  <2> USE DEF Submission
  <2>a. s.validFor \in Nat
    OBVIOUS
  <2>b. now \in Nat /\ now <= MaxTime
    OBVIOUS
  <2>c. now + s.validFor <= MaxUint64
    BY <1>1 DEF SubmitAttestation, Accepted
  <2>1. /\ now + s.validFor \in Uint64
        /\ now \in Uint64
    BY <2>a, <2>b, <2>c
  <2>2. attestations' \in [Address -> Attestation]
    BY <1>1, <2>1 DEF SubmitAttestation
  <2> QED
    BY <1>1, <2>2 DEF SubmitAttestation
<1>2. ASSUME NEW measurements \in SUBSET Measurement, Relist(measurements)
      PROVE  TypeOK'
  BY <1>2 DEF Relist
<1>3. CASE Tick
  BY <1>3 DEF Tick
<1>4. CASE UNCHANGED vars
  BY <1>4 DEF vars
<1> QED
  BY <1>1, <1>2, <1>3, <1>4 DEF Next

THEOREM TypeCorrect == Spec => []TypeOK
BY InitTyped, TypePreserved, PTL DEF Spec

-----------------------------------------------------------------------------

\* What the comparisons of the read and write paths need to know.
LEMMA FieldsAreNumbers ==
  ASSUME TypeOK, NEW w \in Address
  PROVE  /\ now \in Nat
         /\ attestations[w].tier \in Nat
         /\ attestations[w].expiresAt \in Nat
<1>1. attestations[w] \in Attestation
  BY DEF TypeOK
<1>2. attestations[w].tier \in Tier /\ attestations[w].expiresAt \in 0..MaxUint64
  BY <1>1 DEF Attestation, Uint64
<1>3. attestations[w].tier \in Nat
  BY <1>2, RegistryAssumption
<1>4. attestations[w].expiresAt \in Nat
  BY <1>2, RegistryAssumption
<1>5. now \in Nat
  BY RegistryAssumption DEF TypeOK
<1> QED
  BY <1>3, <1>4, <1>5

(***************************************************************************)
(* LiveWalletIsBound is inductive relative to the type invariant.  The     *)
(* interesting step is a submission that moves the binding of an account   *)
(* away from a wallet v: v was the bound wallet, so v is not live.         *)
(***************************************************************************)
LEMMA BindingPreserved ==
  TypeOK /\ LiveWalletIsBound /\ [Next]_vars => LiveWalletIsBound'
<1> SUFFICES ASSUME TypeOK, LiveWalletIsBound, [Next]_vars,
                    NEW v \in Wallet, Live(v)'
             PROVE  /\ attestations'[v].nullifier \in Nullifier
                    /\ nullifierOwner'[attestations'[v].nullifier] = v
  BY DEF LiveWalletIsBound
<1> USE RegistryAssumption DEF Live, Wallet
<1>1. ASSUME NEW s \in Submission, SubmitAttestation(s)
      PROVE  /\ attestations'[v].nullifier \in Nullifier
             /\ nullifierOwner'[attestations'[v].nullifier] = v
  <2> USE <1>1 DEF SubmitAttestation, Submission, TypeOK
  <2>1. CASE v = s.wallet
    BY <2>1
  <2>2. CASE v # s.wallet
    <3>1. attestations'[v] = attestations[v] /\ Live(v)
      BY <2>2
    <3>2. /\ attestations[v].nullifier \in Nullifier
          /\ nullifierOwner[attestations[v].nullifier] = v
      BY <3>1 DEF LiveWalletIsBound
    <3>3. attestations[v].nullifier # s.nullifier
      BY <2>2, <3>1, <3>2 DEF Accepted, BoundElsewhere
    <3> QED
      BY <3>1, <3>2, <3>3
  <2> QED
    BY <2>1, <2>2
<1>2. CASE (\E measurements \in SUBSET Measurement : Relist(measurements))
           \/ UNCHANGED vars
  BY <1>2 DEF Relist, vars, LiveWalletIsBound
<1>3. CASE Tick
  <2>1. Live(v)
    BY <1>3 DEF Tick, TypeOK, Attestation, Uint64
  <2> QED
    BY <1>3, <2>1 DEF Tick, LiveWalletIsBound
<1> QED
  BY <1>1, <1>2, <1>3 DEF Next

(***************************************************************************)
(* In every reachable state the binding of a live wallet's account names   *)
(* that wallet.                                                            *)
(***************************************************************************)
THEOREM BindingHolds == Spec => []LiveWalletIsBound
<1>1. Init => LiveWalletIsBound
  BY DEF Init, LiveWalletIsBound, Live, NoAttestation, Wallet
<1> QED
  BY <1>1, BindingPreserved, TypeCorrect, PTL DEF Spec

(***************************************************************************)
(* One exchange account backs one wallet, for any number of wallets.       *)
(***************************************************************************)
THEOREM AccountsAreExclusive == Spec => []OneWalletPerAccount
<1>1. LiveWalletIsBound => OneWalletPerAccount
  BY DEF LiveWalletIsBound, OneWalletPerAccount
<1> QED
  BY <1>1, BindingHolds, PTL

-----------------------------------------------------------------------------

(***************************************************************************)
(* No step raises a tier or extends a validity without a fresh nonce and   *)
(* an accepted build.                                                      *)
(***************************************************************************)
THEOREM CreditIsFreshAndAccepted == Spec => CreditNeedsFreshAcceptedRequest
<1> DEFINE Granted(w) ==
      \/ TierOf(w)' > TierOf(w)
      \/ attestations'[w].expiresAt > attestations[w].expiresAt
    Backed(w) == /\ usedNonce' # usedNonce
                 /\ attestations'[w].measurement \in whitelisted
<1>1. TypeOK /\ [Next]_vars => [\A w \in Address : Granted(w) => Backed(w)]_vars
  <2> SUFFICES ASSUME TypeOK, Next, NEW w \in Address, Granted(w)
               PROVE  Backed(w)
    BY DEF vars
  <2> USE RegistryAssumption DEF TypeOK
  <2>1. ASSUME NEW s \in Submission, SubmitAttestation(s) PROVE Backed(w)
    <3>1. usedNonce' # usedNonce
      BY <2>1 DEF SubmitAttestation, Accepted
    <3>2. w = s.wallet
      <4>1. s.wallet # w => attestations'[w] = attestations[w] /\ now' = now
        BY <2>1 DEF SubmitAttestation, Submission
      <4> QED
        BY <4>1, FieldsAreNumbers DEF TierOf, Live
    <3>3. attestations'[w].measurement = s.measurement
      BY <2>1, <3>2 DEF SubmitAttestation
    <3> QED
      BY <2>1, <3>1, <3>3 DEF SubmitAttestation, Accepted
  <2>2. ASSUME NEW measurements \in SUBSET Measurement, Relist(measurements)
        PROVE  FALSE
    BY <2>2, FieldsAreNumbers DEF Relist, TierOf, Live
  <2>3. ASSUME Tick PROVE FALSE
    BY <2>3, FieldsAreNumbers DEF Tick, TierOf, Live
  <2> QED
    BY <2>1, <2>2, <2>3 DEF Next
<1> QED
  BY <1>1, TypeCorrect, PTL DEF Spec, CreditNeedsFreshAcceptedRequest

(***************************************************************************)
(* An account moves away from a wallet only when the wallet has no credit  *)
(* left.                                                                   *)
(***************************************************************************)
THEOREM RebindsFollowExpiry == Spec => RebindOnlyAfterExpiry
<1> DEFINE Moved(n, w) == nullifierOwner[n] = w /\ nullifierOwner'[n] # w
<1>1. TypeOK /\ [Next]_vars
      => [\A n \in Nullifier, w \in Wallet :
             Moved(n, w) => TierOf(w) = 0 /\ TierOf(w)' = 0]_vars
  <2> SUFFICES ASSUME TypeOK, Next, NEW n \in Nullifier, NEW w \in Wallet,
                      Moved(n, w)
               PROVE  TierOf(w) = 0 /\ TierOf(w)' = 0
    BY DEF vars
  <2> USE DEF TypeOK
  <2>1. PICK s \in Submission : SubmitAttestation(s)
    BY DEF Next, Relist, Tick
  <2>2. n = s.nullifier /\ w # s.wallet
    BY <2>1 DEF SubmitAttestation, Submission
  <2>3. ~Live(w)
    BY <2>1, <2>2 DEF SubmitAttestation, Accepted, BoundElsewhere, Wallet
  <2>4. attestations'[w] = attestations[w] /\ now' = now
    BY <2>1, <2>2 DEF SubmitAttestation, Wallet
  <2> QED
    BY <2>3, <2>4 DEF TierOf, Live
<1> QED
  BY <1>1, TypeCorrect, PTL DEF Spec, RebindOnlyAfterExpiry

-----------------------------------------------------------------------------

(***************************************************************************)
(* The registry implements the ledger.  A submission for a wallet is a     *)
(* Grant: another wallet backed by the same account would be the bound one *)
(* and live, which the check excludes.  Time is a Lapse of the wallets     *)
(* whose attestation it ends, and the whitelist is invisible.              *)
(***************************************************************************)
LEMMA SubmissionGrants ==
  ASSUME TypeOK, LiveWalletIsBound,
         NEW s \in Submission, SubmitAttestation(s)
  PROVE  Ledger!Next
<1> USE DEF Submission, Wallet
<1> DEFINE w == s.wallet
           credit == [v \in Wallet |-> CreditOf(v)]
<1>1. s.nonce \notin usedNonce /\ usedNonce' = usedNonce \cup {s.nonce}
  BY DEF SubmitAttestation, Accepted
<1>2. \A v \in Wallet : v # w => CreditOf(v)' = CreditOf(v)
  BY DEF SubmitAttestation, CreditOf, Live, TypeOK
<1>3. CASE w \notin Wallet
  <2>1. credit' = credit
    BY <1>2, <1>3
  <2> QED
    BY <1>1, <2>1 DEF Ledger!Next, Ledger!Waste
<1>4. CASE w \in Wallet
  <2>1. ~Ledger!BacksAnother(s.nullifier, w)
    <3> SUFFICES ASSUME NEW v \in Wallet \ {w}, credit[v] # NoCredit,
                        credit[v].account = s.nullifier
                 PROVE  FALSE
      BY DEF Ledger!BacksAnother
    <3>1. Live(v) /\ attestations[v].nullifier = s.nullifier
      BY DEF CreditOf
    <3>2. nullifierOwner[s.nullifier] = v
      BY <3>1 DEF LiveWalletIsBound
    <3> QED
      BY <3>1, <3>2 DEF SubmitAttestation, Accepted, BoundElsewhere
  <2>2. CreditOf(w)' \in {[tier |-> s.tier, account |-> s.nullifier], NoCredit}
    BY DEF SubmitAttestation, CreditOf, TypeOK
  <2>3. credit' = [credit EXCEPT ![w] = CreditOf(w)']
    BY <1>2, <1>4
  <2>4. Ledger!Grant(w, s.nullifier, s.tier, s.nonce)
    BY <1>1, <2>1, <2>2, <2>3 DEF Ledger!Grant
  <2> QED
    BY <1>4, <2>4 DEF Ledger!Next
<1> QED
  BY <1>3, <1>4

LEMMA TimeLapses ==
  ASSUME TypeOK, Tick
  PROVE  Ledger!Next
<1> DEFINE credit == [v \in Wallet |-> CreditOf(v)]
           lapsed == {v \in Wallet : ~Live(v)'}
<1>1. ASSUME NEW v \in Wallet, v \notin lapsed PROVE CreditOf(v)' = CreditOf(v)
  <2>1. Live(v)
    BY <1>1, FieldsAreNumbers DEF Tick, Live, Wallet
  <2> QED
    BY <1>1, <2>1 DEF Tick, CreditOf
<1>2. ASSUME NEW v \in lapsed PROVE CreditOf(v)' = NoCredit
  BY DEF CreditOf
<1>3. credit' = [v \in Wallet |-> IF v \in lapsed THEN NoCredit ELSE credit[v]]
  BY <1>1, <1>2
<1>4. Ledger!Lapse(lapsed)
  BY <1>3 DEF Ledger!Lapse, Tick
<1> QED
  BY <1>4 DEF Ledger!Next

THEOREM RegistryImplementsLedger == Spec => ImplementsLedger
<1>1. Init => Ledger!Init
  BY DEF Init, Ledger!Init, CreditOf, Live, NoAttestation, Wallet
<1>2. TypeOK /\ LiveWalletIsBound /\ [Next]_vars => [Ledger!Next]_(Ledger!vars)
  <2> SUFFICES ASSUME TypeOK, LiveWalletIsBound, [Next]_vars
               PROVE  Ledger!Next \/ UNCHANGED Ledger!vars
    OBVIOUS
  <2>1. CASE \E s \in Submission : SubmitAttestation(s)
    BY <2>1, SubmissionGrants
  <2>2. CASE Tick
    BY <2>2, TimeLapses
  <2>3. CASE UNCHANGED vars \/ \E measurements \in SUBSET Measurement : Relist(measurements)
    BY <2>3 DEF vars, Relist, Ledger!vars, CreditOf, Live
  <2> QED
    BY <2>1, <2>2, <2>3 DEF Next
<1> QED
  BY <1>1, <1>2, TypeCorrect, BindingHolds, PTL DEF Spec, Ledger!Spec, ImplementsLedger

-----------------------------------------------------------------------------
(* The registry and the whitelist together.                                *)


(***************************************************************************)
(* To the registry the whitelist is the environment it was verified in:    *)
(* every behaviour of the two contracts is one of SolvencyRegistry, so     *)
(* what holds of the registry under any whitelist holds under this one.    *)
(***************************************************************************)
LEMMA WhitelistStepIsRelist ==
  ASSUME TypeOK, Whitelist!Next,
         UNCHANGED <<now, attestations, nullifierOwner, usedNonce>>
  PROVE  [Next]_vars
<1>1. ASSUME NEW caller \in Address \ {ZeroAddress}, NEW m \in Measurement,
             Whitelist!List(caller, m) \/ Whitelist!Delist(caller, m)
      PROVE  Next
  <2>1. whitelisted' \in SUBSET Measurement
    BY <1>1 DEF Whitelist!List, Whitelist!Delist, TypeOK
  <2>2. Relist(whitelisted')
    BY DEF Relist
  <2> QED
    BY <2>1, <2>2 DEF Next
<1>2. ASSUME NEW caller \in Address \ {ZeroAddress}, NEW newOwner \in Address,
             Whitelist!TransferOwnership(caller, newOwner)
      PROVE  UNCHANGED vars
  BY <1>2 DEF Whitelist!TransferOwnership, vars
<1> QED
  BY <1>1, <1>2 DEF Whitelist!Next

THEOREM ContractsImplementRegistry == ContractsSpec => Spec
<1>1. ContractsInit => Init
  BY DEF ContractsInit
<1>2. TypeOK /\ [ContractsNext]_contractVars => [Next]_vars
  <2> SUFFICES ASSUME TypeOK, [ContractsNext]_contractVars PROVE [Next]_vars
    OBVIOUS
  <2>1. CASE /\ Whitelist!Next
             /\ UNCHANGED <<now, attestations, nullifierOwner, usedNonce>>
    BY <2>1, WhitelistStepIsRelist
  <2>2. ASSUME NEW s \in Submission, SubmitAttestation(s) PROVE [Next]_vars
    BY <2>2 DEF Next
  <2>3. CASE Tick
    BY <2>3 DEF Next
  <2>4. CASE UNCHANGED contractVars
    BY <2>4 DEF contractVars
  <2> QED
    BY <2>1, <2>2, <2>3, <2>4 DEF ContractsNext
<1>3. TypeOK /\ [Next]_vars => TypeOK'
  BY TypePreserved
<1>4. Init => TypeOK
  BY InitTyped
<1> QED
  BY <1>1, <1>2, <1>3, <1>4, PTL DEF ContractsSpec, Spec

(***************************************************************************)
(* The pair as deployed keeps an exchange account to one live wallet.      *)
(***************************************************************************)
THEOREM ContractsKeepAccountsExclusive == ContractsSpec => []OneWalletPerAccount
BY ContractsImplementRegistry, AccountsAreExclusive, PTL

-----------------------------------------------------------------------------

(***************************************************************************)
(* What attestations and the whitelist's array have to do with each other. *)
(* AttestedBuildsAreKnown alone is not inductive: a submission needs the   *)
(* build it finds whitelisted to be in the array.                          *)
(***************************************************************************)
KnownInv ==
  /\ knownMeasurements \in Seq(Measurement)
  /\ WhitelistIsEnumerable
  /\ AttestedBuildsAreKnown

\* The array only grows, by the build that is listed.
LEMMA ListKeepsKnown ==
  ASSUME KnownInv, NEW caller \in Address \ {ZeroAddress}, NEW m \in Measurement,
         Whitelist!List(caller, m)
  PROVE  /\ knownMeasurements' \in Seq(Measurement)
         /\ Whitelist!Known' = Whitelist!Known \cup {m}
<1> USE DEF KnownInv
<1>1. CASE m \in whitelisted
  BY <1>1 DEF Whitelist!List, WhitelistIsEnumerable, Whitelist!WhitelistIsEnumerable,
              Whitelist!Known
<1>2. CASE m \notin whitelisted
  <2>1. knownMeasurements' = Append(knownMeasurements, m)
    BY <1>2 DEF Whitelist!List
  <2>2. /\ knownMeasurements' \in Seq(Measurement)
        /\ DOMAIN knownMeasurements = 1..Len(knownMeasurements)
        /\ Len(knownMeasurements) \in Nat
        /\ DOMAIN knownMeasurements' = 1..(Len(knownMeasurements) + 1)
        /\ \A i \in 1..Len(knownMeasurements) : knownMeasurements'[i] = knownMeasurements[i]
        /\ knownMeasurements'[Len(knownMeasurements) + 1] = m
    BY <2>1
  <2>3. ASSUME NEW k PROVE k \in Whitelist!Known' <=> k \in Whitelist!Known \cup {m}
    BY <2>2 DEF Whitelist!Known
  <2> QED
    BY <2>2, <2>3
<1> QED
  BY <1>1, <1>2

LEMMA KnownInvHolds == ContractsSpec => []KnownInv
<1> USE DEF WhitelistIsEnumerable, Whitelist!WhitelistIsEnumerable, AttestedBuildsAreKnown
<1>1. ContractsInit => KnownInv
  BY DEF ContractsInit, Init, NoAttestation, Whitelist!Init, KnownInv
<1>2. TypeOK /\ KnownInv /\ [ContractsNext]_contractVars => KnownInv'
  <2> SUFFICES ASSUME TypeOK, KnownInv, [ContractsNext]_contractVars PROVE KnownInv'
    OBVIOUS
  <2>1. ASSUME NEW caller \in Address \ {ZeroAddress}, NEW m \in Measurement,
               Whitelist!List(caller, m), attestations' = attestations
        PROVE  KnownInv'
    <3>1. /\ knownMeasurements' \in Seq(Measurement)
          /\ Whitelist!Known' = Whitelist!Known \cup {m}
      BY <2>1, ListKeepsKnown
    <3>2. whitelisted' = whitelisted \cup {m}
      BY <2>1 DEF Whitelist!List
    <3> QED
      BY <2>1, <3>1, <3>2 DEF KnownInv
  <2>2. ASSUME UNCHANGED knownMeasurements, whitelisted' \subseteq whitelisted,
               attestations' = attestations
        PROVE  KnownInv'
    BY <2>2 DEF KnownInv, Whitelist!Known
  <2>3. ASSUME NEW s \in Submission, SubmitAttestation(s), UNCHANGED whitelistVars
        PROVE  KnownInv'
    <3>1. s.measurement \in Whitelist!Known
      BY <2>3 DEF KnownInv, SubmitAttestation, Accepted
    <3>2. ASSUME NEW w \in Address
          PROVE  \/ attestations'[w].measurement = attestations[w].measurement
                 \/ attestations'[w].measurement = s.measurement
      BY <2>3 DEF SubmitAttestation, TypeOK
    <3>3. Whitelist!Known' = Whitelist!Known /\ whitelisted' = whitelisted
      BY <2>3 DEF whitelistVars, Whitelist!Known, SubmitAttestation
    <3> QED
      BY <2>3, <3>1, <3>2, <3>3 DEF KnownInv, whitelistVars
  <2>4. CASE /\ Whitelist!Next
             /\ UNCHANGED <<now, attestations, nullifierOwner, usedNonce>>
    BY <2>4, <2>1, <2>2 DEF Whitelist!Next, Whitelist!Delist, Whitelist!TransferOwnership
  <2>5. CASE Tick /\ UNCHANGED whitelistVars
    BY <2>5, <2>2 DEF Tick, whitelistVars
  <2>6. CASE UNCHANGED contractVars
    BY <2>6, <2>2 DEF contractVars, vars, whitelistVars
  <2> QED
    BY <2>3, <2>4, <2>5, <2>6 DEF ContractsNext
<1>3. ContractsSpec => []TypeOK
  BY ContractsImplementRegistry, TypeCorrect, PTL
<1> QED
  BY <1>1, <1>2, <1>3, PTL DEF ContractsSpec

(***************************************************************************)
(* Every build the chain accepts can be found through the whitelist's      *)
(* array, after any sequence of list, delist and relist.                   *)
(***************************************************************************)
THEOREM WhitelistStaysEnumerable == ContractsSpec => []WhitelistIsEnumerable
<1>1. KnownInv => WhitelistIsEnumerable
  BY DEF KnownInv
<1> QED
  BY <1>1, KnownInvHolds, PTL

(***************************************************************************)
(* The build behind every attestation can be found there too, whether or   *)
(* not it has been delisted since the submission.                          *)
(***************************************************************************)
THEOREM AttestedBuildsStayKnown == ContractsSpec => []AttestedBuildsAreKnown
<1>1. KnownInv => AttestedBuildsAreKnown
  BY DEF KnownInv
<1> QED
  BY <1>1, KnownInvHolds, PTL

(***************************************************************************)
(* No transaction of either contract drops or moves an entry of the array. *)
(***************************************************************************)
THEOREM IndicesStayValid == ContractsSpec => EntriesAreStable
<1> DEFINE Stable == /\ Len(knownMeasurements') >= Len(knownMeasurements)
                     /\ \A i \in DOMAIN knownMeasurements :
                           knownMeasurements'[i] = knownMeasurements[i]
<1>1. KnownInv /\ [ContractsNext]_contractVars => [Stable]_(Whitelist!vars)
  <2> SUFFICES ASSUME KnownInv, [ContractsNext]_contractVars
               PROVE  Stable \/ UNCHANGED Whitelist!vars
    OBVIOUS
  <2> USE DEF KnownInv
  <2>1. ASSUME NEW caller \in Address \ {ZeroAddress}, NEW m \in Measurement,
               Whitelist!List(caller, m)
        PROVE  Stable
    <3>1. \/ knownMeasurements' = knownMeasurements
          \/ knownMeasurements' = Append(knownMeasurements, m)
      BY <2>1 DEF Whitelist!List
    <3> QED
      BY <3>1
  <2>2. ASSUME UNCHANGED knownMeasurements PROVE Stable
    BY <2>2
  <2>3. CASE Whitelist!Next
    BY <2>1, <2>2, <2>3 DEF Whitelist!Next, Whitelist!Delist, Whitelist!TransferOwnership
  <2>4. CASE UNCHANGED whitelistVars \/ UNCHANGED contractVars
    BY <2>2, <2>4 DEF whitelistVars, contractVars
  <2> QED
    BY <2>3, <2>4 DEF ContractsNext
<1> QED
  BY <1>1, KnownInvHolds, PTL DEF ContractsSpec, EntriesAreStable, Whitelist!EntriesAreStable

=============================================================================
