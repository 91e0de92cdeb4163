-------------------------- MODULE VaultProofContracts --------------------------
(***************************************************************************)
(* The registry of attestations and the whitelist of builds it consults,   *)
(* as deployed together: submitAttestation reads isWhitelisted of a        *)
(* contract whose owner may list, delist and give ownership away between   *)
(* any two submissions (SolvencyRegistry.sol line 55).                     *)
(*                                                                         *)
(* The registry's variable whitelisted is the whitelist's own: only the    *)
(* transactions of TeeMeasurementRegistry move it.                         *)
(***************************************************************************)
EXTENDS SolvencyRegistry, Sequences

CONSTANTS Deployer,   \* msg.sender of both constructors
          MaxKnown    \* bound on the length of knownMeasurements

VARIABLES owner,              \* of the whitelist
          knownMeasurements   \* its array

whitelistVars == <<owner, knownMeasurements>>
contractVars == <<vars, whitelistVars>>

Whitelist == INSTANCE TeeMeasurementRegistry

ASSUME ContractsAssumption == Whitelist!MeasurementAssumption

ContractsInit == Init /\ Whitelist!Init

ContractsNext ==
  \/ /\ Whitelist!Next
     /\ UNCHANGED <<now, attestations, nullifierOwner, usedNonce>>
  \/ /\ \/ \E s \in Submission : SubmitAttestation(s)
        \/ Tick
     /\ UNCHANGED whitelistVars

ContractsSpec == ContractsInit /\ [][ContractsNext]_contractVars

-----------------------------------------------------------------------------

\* The two properties of the whitelist alone.
WhitelistIsEnumerable == Whitelist!WhitelistIsEnumerable
EntriesAreStable == Whitelist!EntriesAreStable

(***************************************************************************)
(* Across the two contracts: the build behind every attestation ever       *)
(* written can still be found through the array, whether or not it has     *)
(* been delisted since.  The check on submission (line 55) and delist      *)
(* keeping the entry (TeeMeasurementRegistry.sol lines 38-42) are both     *)
(* needed.                                                                 *)
(***************************************************************************)
AttestedBuildsAreKnown ==
  \A w \in Address :
    attestations[w].measurement \in Whitelist!Known \cup {ZeroHash}

=============================================================================
