-------------------------- MODULE AttestationService --------------------------
(***************************************************************************)
(* What the enclave promises, without handlers, locks, the launcher, the   *)
(* exchange or the chain: one key at a time, the identities it has         *)
(* promised to open under, and ciphertexts that move.  A ciphertext is     *)
(* sealed to a promise, waits in a slot, is taken from there by one        *)
(* instruction, and either yields that instruction one attestation, under  *)
(* the key, the identity and the account it was sealed for, or nothing.    *)
(* Only the key that it was sealed to can attest it.  Enclave is shown to  *)
(* implement this.                                                         *)
(***************************************************************************)
EXTENDS Naturals

CONSTANTS Slot,          \* where ciphertexts wait
          Instruction,   \* what may take one, once
          Identity,      \* identities a promise can name
          Account,       \* exchange accounts
          None           \* no ciphertext, no attestation

VARIABLES era,           \* the key in use, numbered
          promised,      \* key and identity of every promise made
          pending,       \* slot -> the ciphertext that waits there, or None
          held,          \* instruction -> the ciphertext it has taken, or None
          made,          \* instruction -> its attestation, or None
          given,         \* instructions whose attestation has been handed over
          tally          \* attestations made with the key in use

vars == <<era, promised, pending, held, made, given, tally>>

Nothing(S) == [s \in S |-> None]

Init ==
  /\ era = 1
  /\ promised = {}
  /\ pending = Nothing(Slot)
  /\ held = Nothing(Instruction)
  /\ made = Nothing(Instruction)
  /\ given = {}
  /\ tally = 0

Promise(i) ==
  /\ promised' = promised \cup {[key |-> era, info |-> i]}
  /\ UNCHANGED <<era, pending, held, made, given, tally>>

\* A ciphertext for account a, sealed to promise p, arrives in slot s.
Deliver(s, p, a) ==
  /\ pending' = [pending EXCEPT ![s] = [key |-> p.key, info |-> p.info, account |-> a]]
  /\ UNCHANGED <<era, promised, held, made, given, tally>>

Take(x, s) ==
  /\ pending[s] # None /\ held[x] = None /\ made[x] = None
  /\ held' = [held EXCEPT ![x] = pending[s]]
  /\ pending' = [pending EXCEPT ![s] = None]
  /\ UNCHANGED <<era, promised, made, given, tally>>

\* It does not open, or something goes wrong on the way: it is gone.
Drop(x) ==
  /\ held' = [held EXCEPT ![x] = None]
  /\ UNCHANGED <<era, promised, pending, made, given, tally>>

Attest(x) ==
  /\ held[x] # None /\ held[x].key = era
  /\ made' = [made EXCEPT ![x] = held[x]]
  /\ held' = [held EXCEPT ![x] = None]
  /\ tally' = tally + 1
  /\ UNCHANGED <<era, promised, pending, given>>

Give(x) ==
  /\ made[x] # None
  /\ given' = given \cup {x}
  /\ UNCHANGED <<era, promised, pending, held, made, tally>>

\* The key is lost, with all that has not been handed over.
Renew ==
  /\ era' = era + 1
  /\ pending' = Nothing(Slot)
  /\ held' = Nothing(Instruction)
  /\ made' = [x \in Instruction |-> IF x \in given THEN made[x] ELSE None]
  /\ tally' = 0
  /\ UNCHANGED <<promised, given>>

Next ==
  \/ \E i \in Identity : Promise(i)
  \/ \E s \in Slot, p \in promised, a \in Account : Deliver(s, p, a)
  \/ \E x \in Instruction :
       (\E s \in Slot : Take(x, s)) \/ Drop(x) \/ Attest(x) \/ Give(x)
  \/ Renew

Spec == Init /\ [][Next]_vars

=============================================================================
