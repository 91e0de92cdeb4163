--------------------------- MODULE InstructionSender ---------------------------
(***************************************************************************)
(* VaultProof's on-chain entry point                                       *)
(* (contracts/src/vaultproof/VaultProofInstructionSender.sol): it anchors  *)
(* the hash of a sealed request, dispatches the instruction that asks a    *)
(* TEE to act on it, and is the only writer of the SolvencyRegistry.       *)
(*                                                                         *)
(* Flare's two registries are external contracts.  A Manager is one        *)
(* deployment of them (the FlareTeeManager diamond); the model keeps, per  *)
(* manager and in order of extension id, whether each extension was        *)
(* registered with this contract as its instruction sender.  Public ids    *)
(* start at FIRST_PUBLIC_EXTENSION_ID, so the ith of that list has id      *)
(* FIRST_PUBLIC_EXTENSION_ID + i - 1.                                      *)
(*                                                                         *)
(* A transaction that reverts is a disabled action.                        *)
(***************************************************************************)
EXTENDS Integers, Sequences

CONSTANTS Address, ZeroAddress, Nullifier, ZeroHash, Nonce, Measurement,
          Tier, Validity, MaxUint64, MaxTime,
          Deployer,                   \* msg.sender of the constructor
          Manager,                    \* deployments of Flare's registries
          FIRST_PUBLIC_EXTENSION_ID,  \* ids below are reserved
          MaxExtensions               \* bound on registered extensions

VARIABLES now, whitelisted, attestations, nullifierOwner, usedNonce,
          owner,                 \* may wire and rotate
          teeExecutor,           \* the only caller of deliverAttestation
          registry,              \* whether the SolvencyRegistry is set
          teeExtensionRegistry,  \* a manager, or ZeroAddress
          teeMachineRegistry,    \* a manager, or ZeroAddress
          extensionId,           \* the latched id, 0 before
          registered,            \* external: manager -> whether each extension names us
          anchored,              \* RequestSubmitted events: wallet and hash
          dispatched             \* external: instructions sent, with the id used

registryVars == <<now, whitelisted, attestations, nullifierOwner, usedNonce>>
wiringVars == <<owner, teeExecutor, registry, teeExtensionRegistry,
                teeMachineRegistry, extensionId>>
requestVars == <<anchored, dispatched>>
vars == <<registryVars, wiringVars, registered, requestVars>>

Registry == INSTANCE SolvencyRegistry

ASSUME SenderAssumption ==
  /\ Registry!RegistryAssumption
  /\ Deployer \in Address
  /\ ZeroAddress \notin Manager
  /\ FIRST_PUBLIC_EXTENSION_ID \in Nat \ {0}
  /\ MaxExtensions \in Nat

ExtensionIds == FIRST_PUBLIC_EXTENSION_ID..(FIRST_PUBLIC_EXTENSION_ID + MaxExtensions - 1)

Anchor == [wallet : Address, requestHash : Nonce]
Instruction == [wallet : Address, nonce : Nonce, extension : ExtensionIds]

TypeOK ==
  /\ Registry!TypeOK
  /\ owner \in Address
  /\ teeExecutor \in Address
  /\ registry \in BOOLEAN
  /\ teeExtensionRegistry \in Manager \cup {ZeroAddress}
  /\ teeMachineRegistry \in Manager \cup {ZeroAddress}
  /\ extensionId \in ExtensionIds \cup {0}
  /\ registered \in [Manager -> Seq(BOOLEAN)]
  /\ \A m \in Manager : Len(registered[m]) <= MaxExtensions
  /\ anchored \subseteq Anchor
  /\ dispatched \subseteq Instruction

Init ==
  /\ Registry!Init
  /\ owner = Deployer
  /\ teeExecutor = Deployer
  /\ registry = FALSE
  /\ teeExtensionRegistry = ZeroAddress
  /\ teeMachineRegistry = ZeroAddress
  /\ extensionId = 0
  /\ registered = [m \in Manager |-> <<>>]
  /\ anchored = {}
  /\ dispatched = {}

-----------------------------------------------------------------------------

Routed == teeExtensionRegistry # ZeroAddress /\ teeMachineRegistry # ZeroAddress

\* Variant: the id is used without the check that it was latched.
AnchorAccepted_AnyId == TRUE

\* Whether submitRequest gets past its own checks: without routing it stops
\* after the event, with routing _requireExtensionId must not revert.
AnchorAccepted == Routed => extensionId # 0

\* Variant: the event is emitted and the dispatch left out (the first version
\* of the contract, lines 100-104).
SubmitRequest_EmitOnly(wallet, requestHash) ==
  /\ AnchorAccepted
  /\ anchored' = anchored \cup {[wallet |-> wallet, requestHash |-> requestHash]}
  /\ UNCHANGED <<registryVars, wiringVars, registered, dispatched>>

\* submitRequest.  The nonce of the instruction is the request hash.
SubmitRequest(wallet, requestHash) ==
  /\ AnchorAccepted
  /\ anchored' = anchored \cup {[wallet |-> wallet, requestHash |-> requestHash]}
  /\ dispatched' =
       IF Routed
       THEN dispatched \cup {[wallet |-> wallet, nonce |-> requestHash,
                              extension |-> extensionId]}
       ELSE dispatched
  /\ UNCHANGED <<registryVars, wiringVars, registered>>

\* deliverAttestation.
DeliverAttestation(caller, s) ==
  /\ caller = teeExecutor
  /\ registry
  /\ Registry!SubmitAttestation(s)
  /\ UNCHANGED <<wiringVars, registered, requestVars>>

SetRegistry(caller) ==
  /\ caller = owner
  /\ ~registry
  /\ registry' = TRUE
  /\ UNCHANGED <<registryVars, registered, requestVars, owner, teeExecutor,
                 teeExtensionRegistry, teeMachineRegistry, extensionId>>

SetTeeExecutor(caller, executor) ==
  /\ caller = owner
  /\ teeExecutor' = executor
  /\ UNCHANGED <<registryVars, registered, requestVars, owner, registry,
                 teeExtensionRegistry, teeMachineRegistry, extensionId>>

SetTeeExtensionRegistry(caller, manager) ==
  /\ caller = owner
  /\ teeExtensionRegistry' = manager
  /\ UNCHANGED <<registryVars, registered, requestVars, owner, teeExecutor,
                 registry, teeMachineRegistry, extensionId>>

SetTeeMachineRegistry(caller, manager) ==
  /\ caller = owner
  /\ teeMachineRegistry' = manager
  /\ UNCHANGED <<registryVars, registered, requestVars, owner, teeExecutor,
                 registry, teeExtensionRegistry, extensionId>>

TransferOwnership(caller, newOwner) ==
  /\ caller = owner
  /\ owner' = newOwner
  /\ UNCHANGED <<registryVars, registered, requestVars, teeExecutor, registry,
                 teeExtensionRegistry, teeMachineRegistry, extensionId>>

\* Ids of the wired registry that name this contract.
OwnExtensions(manager) ==
  {FIRST_PUBLIC_EXTENSION_ID + i - 1 :
     i \in {j \in DOMAIN registered[manager] : registered[manager][j]}}

\* Variant: the scan takes the newest public extension, whoever registered it.
SetExtensionId_Newest ==
  /\ extensionId = 0
  /\ teeExtensionRegistry # ZeroAddress
  /\ registered[teeExtensionRegistry] # <<>>
  /\ extensionId' = FIRST_PUBLIC_EXTENSION_ID + Len(registered[teeExtensionRegistry]) - 1
  /\ UNCHANGED <<registryVars, registered, requestVars, owner, teeExecutor,
                 registry, teeExtensionRegistry, teeMachineRegistry>>

\* setExtensionId, which anyone may call: the scan latches the lowest id that
\* names this contract, and reverts when there is none.
SetExtensionId ==
  /\ extensionId = 0
  /\ teeExtensionRegistry # ZeroAddress
  /\ \E id \in OwnExtensions(teeExtensionRegistry) :
       /\ \A other \in OwnExtensions(teeExtensionRegistry) : id <= other
       /\ extensionId' = id
  /\ UNCHANGED <<registryVars, registered, requestVars, owner, teeExecutor,
                 registry, teeExtensionRegistry, teeMachineRegistry>>

\* External: someone registers an extension with a manager, naming this
\* contract as its instruction sender or another.
RegisterExtension(manager, namesUs) ==
  /\ Len(registered[manager]) < MaxExtensions
  /\ registered' = [registered EXCEPT ![manager] = Append(@, namesUs)]
  /\ UNCHANGED <<registryVars, wiringVars, requestVars>>

-----------------------------------------------------------------------------

Sending == Address \ {ZeroAddress}

Next ==
  \/ \E wallet \in Sending, requestHash \in Nonce : SubmitRequest(wallet, requestHash)
  \/ \E caller \in Sending :
       \/ \E s \in Registry!Submission : DeliverAttestation(caller, s)
       \/ SetRegistry(caller)
       \/ \E a \in Address : SetTeeExecutor(caller, a) \/ TransferOwnership(caller, a)
       \/ \E m \in Manager \cup {ZeroAddress} :
            SetTeeExtensionRegistry(caller, m) \/ SetTeeMachineRegistry(caller, m)
  \/ SetExtensionId
  \/ \E m \in Manager, namesUs \in BOOLEAN : RegisterExtension(m, namesUs)
  \/ /\ Registry!Tick \/ \E W \in SUBSET Measurement : Registry!Relist(W)
     /\ UNCHANGED <<wiringVars, registered, requestVars>>

Spec == Init /\ [][Next]_vars

-----------------------------------------------------------------------------

(***************************************************************************)
(* Every instruction asks for a request its wallet has anchored, under an  *)
(* extension that some registry recorded for this contract: the id is      *)
(* latched once and never guessed (setExtensionId).  It need not be the    *)
(* registry wired now: one wired later may know that id as another's.      *)
(***************************************************************************)
InstructionsAreAnchored ==
  \A i \in dispatched :
    /\ [wallet |-> i.wallet, requestHash |-> i.nonce] \in anchored
    /\ \E m \in Manager : i.extension \in OwnExtensions(m)

(***************************************************************************)
(* The failure the dispatch was added for (lines 100-104): once both       *)
(* registries are wired, no transaction anchors a new request without an   *)
(* instruction for the same wallet and hash.                               *)
(***************************************************************************)
RoutedAnchorsAreDispatched ==
  [][ Routed =>
        \A a \in anchored' \ anchored :
          \E i \in dispatched' : i.wallet = a.wallet /\ i.nonce = a.requestHash ]_vars

=============================================================================
