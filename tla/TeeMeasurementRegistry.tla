------------------------ MODULE TeeMeasurementRegistry ------------------------
(***************************************************************************)
(* The on-chain whitelist of enclave builds                                *)
(* (contracts/src/vaultproof/TeeMeasurementRegistry.sol).                  *)
(*                                                                         *)
(* Every action is one transaction: the EVM runs a transaction to its end  *)
(* or reverts it whole, so a revert is a disabled action.  The registry    *)
(* answers isWhitelisted from a flag per measurement and lets the browser  *)
(* enumerate the measurements through an array that only grows.            *)
(***************************************************************************)
EXTENDS Naturals, Sequences

CONSTANTS Address,       \* accounts
          ZeroAddress,   \* address(0): can own, cannot send
          Deployer,      \* msg.sender of the constructor
          Measurement,   \* code hashes (bytes32)
          MaxKnown       \* bound on the length of knownMeasurements

\* Assumed by the modules that instantiate this one.
MeasurementAssumption ==
  /\ Deployer \in Address
  /\ MaxKnown \in Nat

VARIABLES owner,              \* the only account that may list and delist
          whitelisted,        \* measurements whose flag is set
          knownMeasurements   \* every entry ever pushed, in order

vars == <<owner, whitelisted, knownMeasurements>>

TypeOK ==
  /\ owner \in Address
  /\ whitelisted \in SUBSET Measurement
  /\ knownMeasurements \in Seq(Measurement)

Init ==
  /\ owner = Deployer
  /\ whitelisted = {}
  /\ knownMeasurements = <<>>

-----------------------------------------------------------------------------

\* Variant: delist removes the entry as well.
Delist_DropsEntry(caller, m) ==
  /\ caller = owner
  /\ whitelisted' = whitelisted \ {m}
  /\ knownMeasurements' = SelectSeq(knownMeasurements, LAMBDA k : k # m)
  /\ UNCHANGED owner

\* Variant: the condition on the flag is the wrong way round.
List_Inverted(caller, m) ==
  /\ caller = owner
  /\ whitelisted' = whitelisted \cup {m}
  /\ \/ /\ m \notin whitelisted
        /\ UNCHANGED knownMeasurements
     \/ /\ m \in whitelisted
        /\ Len(knownMeasurements) < MaxKnown
        /\ knownMeasurements' = Append(knownMeasurements, m)
  /\ UNCHANGED owner

\* list: the entry is pushed only when the flag was clear, so a measurement
\* that was delisted and is listed again gets a second entry.
List(caller, m) ==
  /\ caller = owner
  /\ whitelisted' = whitelisted \cup {m}
  /\ \/ /\ m \in whitelisted
        /\ UNCHANGED knownMeasurements
     \/ /\ m \notin whitelisted
        /\ Len(knownMeasurements) < MaxKnown
        /\ knownMeasurements' = Append(knownMeasurements, m)
  /\ UNCHANGED owner

\* delist: the kill switch clears the flag and keeps the entry.
Delist(caller, m) ==
  /\ caller = owner
  /\ whitelisted' = whitelisted \ {m}
  /\ UNCHANGED <<owner, knownMeasurements>>

TransferOwnership(caller, newOwner) ==
  /\ caller = owner
  /\ owner' = newOwner
  /\ UNCHANGED <<whitelisted, knownMeasurements>>

Next ==
  \E caller \in Address \ {ZeroAddress} :
    \/ \E m \in Measurement : List(caller, m) \/ Delist(caller, m)
    \/ \E newOwner \in Address : TransferOwnership(caller, newOwner)

Spec == Init /\ [][Next]_vars

-----------------------------------------------------------------------------

Known == {knownMeasurements[i] : i \in DOMAIN knownMeasurements}

(***************************************************************************)
(* What the browser enumerates is everything the chain accepts: a          *)
(* measurement isWhitelisted answers true for has an entry, after any      *)
(* sequence of list, delist and relist by any owners.  A missing entry     *)
(* would make the browser refuse an enclave the registry accepts.          *)
(***************************************************************************)
WhitelistIsEnumerable == whitelisted \subseteq Known

(***************************************************************************)
(* The code's comment on the array: delisting keeps the entry and flips    *)
(* the flag (lines 17-18).  No transaction drops or moves an entry, so an  *)
(* index the browser has read stays valid while it reads the next one.     *)
(***************************************************************************)
EntriesAreStable ==
  [][ /\ Len(knownMeasurements') >= Len(knownMeasurements)
      /\ \A i \in DOMAIN knownMeasurements :
            knownMeasurements'[i] = knownMeasurements[i] ]_vars

=============================================================================
