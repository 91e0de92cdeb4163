--------------------------- MODULE EnclaveRefinement ---------------------------
(***************************************************************************)
(* The refinement mapping from Enclave to AttestationService.  A handler   *)
(* holds the ciphertext it took until it counts, and what it publishes is  *)
(* made of its own locals: the process it runs in, the identity it read    *)
(* and the account in the ciphertext.  The attestation is made when it is  *)
(* counted (extension.go:339-342) and handed over in the response; a quote *)
(* is a promise of its key and measurement.                                *)
(***************************************************************************)
EXTENDS Enclave

Holding == {"taken", "measured", "queried", "reduced"}

HeldBy(a) == IF actions[a].pc \in Holding THEN actions[a].blob ELSE NoBlob

MadeBy(a) ==
  IF actions[a].pc \in {"counted", "attested"}
  THEN [key |-> actions[a].process, info |-> actions[a].measurement,
        account |-> actions[a].blob.account]
  ELSE NoBlob

Service == INSTANCE AttestationService
  WITH Slot <- Hash, Instruction <- Action, None <- NoBlob,
       era <- boot,
       promised <- {[key |-> q.key, info |-> q.measurement] : q \in quotes},
       pending <- sealedBlobs,
       held <- [a \in Action |-> HeldBy(a)],
       made <- [a \in Action |-> MadeBy(a)],
       given <- Attested, tally <- attestationCount

(***************************************************************************)
(* Every behaviour of the handlers is one of the service, however they     *)
(* race: a ciphertext moves from its slot to one handler and on to one     *)
(* attestation, whose key, identity and account are the ones it was sealed *)
(* for, which the running process counts once, and which nothing changes   *)
(* once it is handed over (processAttestSolvency, extension.go:311-355).   *)
(***************************************************************************)
ImplementsService == Service!Spec

=============================================================================
