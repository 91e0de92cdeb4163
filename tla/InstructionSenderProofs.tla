------------------------ MODULE InstructionSenderProofs ------------------------
(***************************************************************************)
(* Theorems about InstructionSender for every instance: any wallets, any   *)
(* number of deployments of Flare's registries and of extensions in them.  *)
(* The registry's own theorems apply through SenderKeepsRegistry.          *)
(***************************************************************************)
EXTENDS InstructionSender, TLAPS

CONSTANT NoCredit

\* The theorems of the registry alone: the parameters of the whitelist beside
\* it play no part in them.
RegistryTheorems == INSTANCE VaultProofContractsProofs
  WITH Deployer <- ZeroAddress, MaxKnown <- 0,
       owner <- ZeroAddress, knownMeasurements <- <<>>

\* Everything but the registry is unchanged.
Untouched == UNCHANGED <<wiringVars, registered, requestVars>>

\* A call that sets one of the wiring variables.
Wiring ==
  \E caller \in Sending :
    \/ SetRegistry(caller)
    \/ \E a \in Address : SetTeeExecutor(caller, a) \/ TransferOwnership(caller, a)
    \/ \E m \in Manager \cup {ZeroAddress} :
         SetTeeExtensionRegistry(caller, m) \/ SetTeeMachineRegistry(caller, m)

\* A transaction or a block that moves the registry alone.
RegistryStep ==
  /\ \/ \E s \in Registry!Submission : Registry!SubmitAttestation(s)
     \/ Registry!Tick
     \/ \E W \in SUBSET Measurement : Registry!Relist(W)
  /\ Untouched

\* The five kinds of step the proofs go through.
LEMMA StepCases ==
  ASSUME Next
  PROVE  \/ \E wallet \in Sending, requestHash \in Nonce : SubmitRequest(wallet, requestHash)
         \/ RegistryStep
         \/ Wiring
         \/ SetExtensionId
         \/ \E m \in Manager, namesUs \in BOOLEAN : RegisterExtension(m, namesUs)
BY DEF Next, RegistryStep, Untouched, Wiring, DeliverAttestation

(***************************************************************************)
(* The sender is one way to write the registry: each of its transactions   *)
(* is a submission to it or leaves it alone.                               *)
(***************************************************************************)
THEOREM SenderKeepsRegistry == Spec => Registry!Spec
<1>1. Init => Registry!Init
  BY DEF Init
<1>2. [Next]_vars => [Registry!Next]_(Registry!vars)
  <2> SUFFICES ASSUME [Next]_vars PROVE [Registry!Next]_(Registry!vars)
    OBVIOUS
  <2>1. CASE RegistryStep
    BY <2>1 DEF RegistryStep, Registry!Next
  <2>2. CASE UNCHANGED vars
    BY <2>2 DEF vars, registryVars, Registry!vars
  <2>3. ASSUME NEW wallet \in Sending, NEW requestHash \in Nonce,
               SubmitRequest(wallet, requestHash)
        PROVE  UNCHANGED Registry!vars
    BY <2>3 DEF SubmitRequest, registryVars, Registry!vars
  <2>4. CASE Wiring
    BY <2>4 DEF Wiring, SetRegistry, SetTeeExecutor, TransferOwnership,
                SetTeeExtensionRegistry, SetTeeMachineRegistry, registryVars, Registry!vars
  <2>5. CASE SetExtensionId
    BY <2>5 DEF SetExtensionId, registryVars, Registry!vars
  <2>6. ASSUME NEW m \in Manager, NEW namesUs \in BOOLEAN, RegisterExtension(m, namesUs)
        PROVE  UNCHANGED Registry!vars
    BY <2>6 DEF RegisterExtension, registryVars, Registry!vars
  <2> QED
    BY <2>1, <2>2, <2>3, <2>4, <2>5, <2>6, StepCases
<1> QED
  BY <1>1, <1>2, PTL DEF Spec, Registry!Spec

\* The registry under the two names it has here is one and the same.
LEMMA SameRegistry ==
  /\ Registry!Init <=> RegistryTheorems!Init
  /\ [Registry!Next]_(Registry!vars) <=> [RegistryTheorems!Next]_(RegistryTheorems!vars)
  /\ Registry!TypeOK <=> RegistryTheorems!TypeOK
BY DEF Registry!Init, Registry!NoAttestation, Registry!Next, Registry!vars,
       Registry!Submission, Registry!SubmitAttestation, Registry!Accepted,
       Registry!BoundElsewhere, Registry!Live, Registry!Relist, Registry!Tick,
       Registry!TypeOK, Registry!Attestation, Registry!Uint64,
       RegistryTheorems!Init, RegistryTheorems!NoAttestation,
       RegistryTheorems!Next, RegistryTheorems!vars,
       RegistryTheorems!Submission, RegistryTheorems!SubmitAttestation,
       RegistryTheorems!Accepted, RegistryTheorems!BoundElsewhere,
       RegistryTheorems!Live, RegistryTheorems!Relist, RegistryTheorems!Tick,
       RegistryTheorems!TypeOK, RegistryTheorems!Attestation,
       RegistryTheorems!Uint64

LEMMA RegistryTyped == Spec => []Registry!TypeOK
<1>1. RegistryTheorems!RegistryAssumption /\ RegistryTheorems!ContractsAssumption
  BY SenderAssumption DEF Registry!RegistryAssumption, RegistryTheorems!RegistryAssumption,
     RegistryTheorems!ContractsAssumption, RegistryTheorems!Whitelist!MeasurementAssumption
<1>2. RegistryTheorems!Spec => []RegistryTheorems!TypeOK
  BY <1>1, RegistryTheorems!TypeCorrect, PTL
<1> QED
  BY <1>2, SenderKeepsRegistry, SameRegistry, PTL DEF Registry!Spec, RegistryTheorems!Spec

-----------------------------------------------------------------------------

\* What a registry has recorded: bounded lists that only grow.
RegisteredOK ==
  /\ registered \in [Manager -> Seq(BOOLEAN)]
  /\ \A m \in Manager : Len(registered[m]) <= MaxExtensions

LEMMA RegisteredPreserved == RegisteredOK /\ [Next]_vars => RegisteredOK'
<1> SUFFICES ASSUME RegisteredOK, [Next]_vars PROVE RegisteredOK'
  OBVIOUS
<1>1. ASSUME NEW m \in Manager, NEW namesUs \in BOOLEAN, RegisterExtension(m, namesUs)
      PROVE  RegisteredOK'
  <2>1. Append(registered[m], namesUs) \in Seq(BOOLEAN)
    BY DEF RegisteredOK
  <2>2. Len(Append(registered[m], namesUs)) <= MaxExtensions
    BY <1>1, SenderAssumption DEF RegisteredOK, RegisterExtension
  <2> QED
    BY <1>1, <2>1, <2>2 DEF RegisteredOK, RegisterExtension
<1>2. CASE UNCHANGED registered
  BY <1>2 DEF RegisteredOK
<1> QED
  BY <1>1, <1>2, StepCases
     DEF vars, SubmitRequest, RegistryStep, Untouched, Wiring, SetRegistry, SetTeeExecutor,
         TransferOwnership, SetTeeExtensionRegistry, SetTeeMachineRegistry, SetExtensionId

\* Ids that name this contract are ids, and stay: nothing is unregistered.
LEMMA OwnIdsAreIds ==
  ASSUME RegisteredOK, NEW m \in Manager
  PROVE  OwnExtensions(m) \subseteq ExtensionIds
<1> SUFFICES ASSUME NEW i \in DOMAIN registered[m]
             PROVE  FIRST_PUBLIC_EXTENSION_ID + i - 1 \in ExtensionIds
  BY DEF OwnExtensions
<1>1. i \in 1..Len(registered[m]) /\ Len(registered[m]) \in Nat
  BY DEF RegisteredOK
<1> QED
  BY <1>1, SenderAssumption DEF RegisteredOK, ExtensionIds

LEMMA OwnIdsStay ==
  ASSUME RegisteredOK, [Next]_vars, NEW m \in Manager
  PROVE  OwnExtensions(m) \subseteq OwnExtensions(m)'
<1>1. ASSUME NEW k \in Manager, NEW namesUs \in BOOLEAN, RegisterExtension(k, namesUs)
      PROVE  OwnExtensions(m) \subseteq OwnExtensions(m)'
  <2>1. \A i \in DOMAIN registered[m] :
          i \in DOMAIN registered'[m] /\ registered'[m][i] = registered[m][i]
    BY <1>1 DEF RegisterExtension, RegisteredOK
  <2> QED
    BY <2>1 DEF OwnExtensions
<1>2. CASE UNCHANGED registered
  BY <1>2 DEF OwnExtensions
<1> QED
  BY <1>1, <1>2, StepCases
     DEF vars, SubmitRequest, RegistryStep, Untouched, Wiring, SetRegistry, SetTeeExecutor,
         TransferOwnership, SetTeeExtensionRegistry, SetTeeMachineRegistry, SetExtensionId

-----------------------------------------------------------------------------

\* The types of the sender's own variables.
WiringTypeOK ==
  /\ owner \in Address
  /\ teeExecutor \in Address
  /\ registry \in BOOLEAN
  /\ teeExtensionRegistry \in Manager \cup {ZeroAddress}
  /\ teeMachineRegistry \in Manager \cup {ZeroAddress}

LEMMA WiringPreserved == WiringTypeOK /\ [Next]_vars => WiringTypeOK'
<1> SUFFICES ASSUME WiringTypeOK, [Next]_vars PROVE WiringTypeOK'
  OBVIOUS
<1>1. CASE Wiring
  BY <1>1 DEF WiringTypeOK, Wiring, SetRegistry, SetTeeExecutor, TransferOwnership,
              SetTeeExtensionRegistry, SetTeeMachineRegistry
<1>2. CASE UNCHANGED <<owner, teeExecutor, registry, teeExtensionRegistry, teeMachineRegistry>>
  BY <1>2 DEF WiringTypeOK
<1> QED
  BY <1>1, <1>2, StepCases
     DEF vars, wiringVars, SubmitRequest, RegistryStep, Untouched, SetExtensionId,
         RegisterExtension

(***************************************************************************)
(* The inductive invariant behind InstructionsAreAnchored: an id, once     *)
(* latched, is one some registry recorded for this contract, and stays so  *)
(* whatever is rewired, because registrations only grow.                   *)
(***************************************************************************)
OwnId(id) == \E m \in Manager : id \in OwnExtensions(m)

SenderInv ==
  /\ RegisteredOK
  /\ WiringTypeOK
  /\ extensionId \in ExtensionIds \cup {0}
  /\ extensionId # 0 => OwnId(extensionId)
  /\ anchored \subseteq Anchor
  /\ dispatched \subseteq Instruction
  /\ InstructionsAreAnchored

LEMMA SenderInvInit == Init => SenderInv
<1> SUFFICES ASSUME Init PROVE SenderInv
  OBVIOUS
<1>1. RegisteredOK
  BY SenderAssumption DEF Init, RegisteredOK
<1>2. WiringTypeOK
  BY SenderAssumption DEF Init, WiringTypeOK
<1> QED
  BY <1>1, <1>2 DEF Init, SenderInv, InstructionsAreAnchored

LEMMA SenderInvStep == SenderInv /\ [Next]_vars => SenderInv'
<1> SUFFICES ASSUME SenderInv, [Next]_vars PROVE SenderInv'
  OBVIOUS
<1>1. RegisteredOK' /\ WiringTypeOK'
  BY RegisteredPreserved, WiringPreserved DEF SenderInv
<1>2. \A id : OwnId(id) => OwnId(id)'
  BY OwnIdsStay DEF SenderInv, OwnId
<1>3. ASSUME NEW wallet \in Sending, NEW requestHash \in Nonce,
             SubmitRequest(wallet, requestHash)
      PROVE  SenderInv'
  <2>1. anchored' \subseteq Anchor
    BY <1>3 DEF SubmitRequest, SenderInv, Anchor, Sending
  <2>2. extensionId' = extensionId
    BY <1>3 DEF SubmitRequest, wiringVars
  <2>3. \A i \in dispatched' \ dispatched :
          /\ i = [wallet |-> wallet, nonce |-> requestHash, extension |-> extensionId]
          /\ extensionId # 0
    BY <1>3 DEF SubmitRequest, AnchorAccepted
  <2>4. dispatched' \subseteq Instruction
    BY <2>3 DEF SenderInv, Instruction, Sending
  <2>5. \A i \in dispatched' :
          /\ [wallet |-> i.wallet, requestHash |-> i.nonce] \in anchored'
          /\ OwnId(i.extension)'
    <3> SUFFICES ASSUME NEW i \in dispatched'
                 PROVE  /\ [wallet |-> i.wallet, requestHash |-> i.nonce] \in anchored'
                        /\ OwnId(i.extension)'
      OBVIOUS
    <3>1. CASE i \in dispatched
      BY <1>2, <1>3, <3>1 DEF SenderInv, InstructionsAreAnchored, OwnId, SubmitRequest
    <3>2. CASE i \notin dispatched
      BY <1>2, <1>3, <2>3, <3>2 DEF SenderInv, SubmitRequest
    <3> QED
      BY <3>1, <3>2
  <2> QED
    BY <1>1, <1>2, <2>1, <2>2, <2>4, <2>5 DEF SenderInv, InstructionsAreAnchored, OwnId
<1>4. CASE SetExtensionId
  <2>1. PICK id \in OwnExtensions(teeExtensionRegistry) : extensionId' = id
    BY <1>4 DEF SetExtensionId
  <2>2. teeExtensionRegistry \in Manager
    BY <1>4 DEF SetExtensionId, SenderInv, WiringTypeOK
  <2>3. extensionId' \in ExtensionIds /\ OwnId(extensionId')
    BY <2>1, <2>2, OwnIdsAreIds DEF SenderInv, OwnId
  <2>4. UNCHANGED <<anchored, dispatched, registered>>
    BY <1>4 DEF SetExtensionId, requestVars
  <2> QED
    BY <1>1, <2>3, <2>4 DEF SenderInv, InstructionsAreAnchored, OwnId, OwnExtensions
<1>5. CASE UNCHANGED <<extensionId, anchored, dispatched>>
  BY <1>1, <1>2, <1>5 DEF SenderInv, InstructionsAreAnchored, OwnId
<1> QED
  BY <1>3, <1>4, <1>5, StepCases
     DEF vars, wiringVars, requestVars, RegistryStep, Untouched, Wiring, SetRegistry,
         SetTeeExecutor, TransferOwnership, SetTeeExtensionRegistry, SetTeeMachineRegistry,
         RegisterExtension

LEMMA SenderInvHolds == Spec => []SenderInv
BY SenderInvInit, SenderInvStep, PTL DEF Spec

(***************************************************************************)
(* Type correctness of the sender, its registry included.                  *)
(***************************************************************************)
THEOREM TypeCorrect == Spec => []TypeOK
<1>1. SenderInv /\ Registry!TypeOK => TypeOK
  BY DEF SenderInv, RegisteredOK, WiringTypeOK, TypeOK
<1> QED
  BY <1>1, SenderInvHolds, RegistryTyped, PTL

(***************************************************************************)
(* Every instruction is for a request its wallet anchored, under an        *)
(* extension that a registry, not necessarily the one wired now, recorded  *)
(* for this contract (submitRequest, setExtensionId).                      *)
(***************************************************************************)
THEOREM DispatchIsAnchored == Spec => []InstructionsAreAnchored
<1>1. SenderInv => InstructionsAreAnchored
  BY DEF SenderInv
<1> QED
  BY <1>1, SenderInvHolds, PTL

(***************************************************************************)
(* With both of Flare's registries wired, submitRequest dispatches what it *)
(* anchors, and nothing else anchors.                                      *)
(***************************************************************************)
THEOREM AnchorIsDispatched == Spec => RoutedAnchorsAreDispatched
<1> DEFINE Dispatches ==
      Routed => \A a \in anchored' \ anchored :
                  \E i \in dispatched' : i.wallet = a.wallet /\ i.nonce = a.requestHash
<1>1. ASSUME NEW wallet \in Sending, NEW requestHash \in Nonce,
             SubmitRequest(wallet, requestHash), Routed
      PROVE  \A a \in anchored' \ anchored :
               \E i \in dispatched' : i.wallet = a.wallet /\ i.nonce = a.requestHash
  <2> DEFINE i == [wallet |-> wallet, nonce |-> requestHash, extension |-> extensionId]
  <2>1. i \in dispatched' /\ i.wallet = wallet /\ i.nonce = requestHash
    BY <1>1 DEF SubmitRequest
  <2>2. \A a \in anchored' \ anchored : a.wallet = wallet /\ a.requestHash = requestHash
    BY <1>1 DEF SubmitRequest
  <2> QED
    BY <2>1, <2>2
<1>3. [Next]_vars => Dispatches
  BY <1>1, StepCases
     DEF vars, requestVars, RegistryStep, Untouched, Wiring, SetRegistry, SetTeeExecutor,
         TransferOwnership, SetTeeExtensionRegistry, SetTeeMachineRegistry, SetExtensionId,
         RegisterExtension
<1> QED
  BY <1>3, PTL DEF Spec, RoutedAnchorsAreDispatched

=============================================================================
