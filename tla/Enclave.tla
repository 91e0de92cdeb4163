-------------------------------- MODULE Enclave --------------------------------
(***************************************************************************)
(* The extension that runs inside the enclave                              *)
(* (extension/go/internal/extension and internal/vaultproof): one process, *)
(* its HTTP handlers running concurrently on goroutines.  A handler is cut *)
(* where it takes the lock, waits for the launcher, for the exchange or    *)
(* for the chain; between two cuts only its own locals move.               *)
(*                                                                         *)
(* boot numbers the processes.  The HPKE key pair and the nullifier secret *)
(* are drawn once per process, so the number of the process stands for     *)
(* both.  A browser seals to a quote: a Blob says whose key and which      *)
(* measurement (the HPKE info) it was sealed with, and for which exchange  *)
(* account.  The launcher, the exchange and the chain are external, and    *)
(* any call to them may fail.                                              *)
(***************************************************************************)
EXTENDS Integers, FiniteSets

CONSTANTS Hash,           \* request hashes
          Wallet, NoWallet,
          Account,        \* exchange accounts (exchange and API key)
          Tier,           \* values of TierForUSD the exchange's answers lead to
          Fallback,       \* resolveMeasurement: environment or build tag
          ImageDigest,    \* what the launcher signs, normalised
          OnHardware,     \* whether the launcher's socket exists
          Action,         \* POST /action requests, each handled once
          QuoteHandler,   \* concurrent GET /quote handlers
          NoBlob,
          MaxBoots,       \* bound on processes
          MaxDeliveries   \* bound on POST /sealed per request hash

ASSUME EnclaveAssumption ==
  /\ Hash # {}
  /\ NoWallet \notin Wallet
  /\ Tier \subseteq 0..4
  /\ 0 \in Tier
  /\ OnHardware \in BOOLEAN
  /\ MaxBoots \in Nat \ {0}
  /\ MaxDeliveries \in Nat
  /\ IsFiniteSet(Action)

VARIABLES
  boot,              \* the running process: its key pair and its secret
  measurement,       \* the identity it seals under, guarded by mu
  prices,            \* lazyPrices: "undialled", "ready", "failed"
  attestationCount, lastTier,
  sealedBlobs,       \* request hash -> pending ciphertext, or NoBlob
  deliveries,        \* history: ciphertexts stored per request hash
  quotes,            \* quotes served so far
  quoting,           \* locals of the /quote handlers
  actions,           \* locals and results of the /action handlers
  anchored           \* external: requests anchored on chain

counters == <<attestationCount, lastTier>>
blobVars == <<sealedBlobs, deliveries>>
quoteVars == <<quotes, quoting>>
vars == <<boot, measurement, prices, counters, blobVars, quoteVars, actions, anchored>>

Identity == {Fallback, ImageDigest}
Quote == [key : 1..MaxBoots, measurement : Identity, mode : {0, 1}]
Blob == [key : 1..MaxBoots, info : Identity, account : Account]
Request == [wallet : Wallet \cup {NoWallet}, requestHash : Hash]
ASSUME NoBlobAssumption == NoBlob \notin Blob

InFlight == {"taken", "measured", "queried", "reduced", "counted"}
Ended == {"refused", "failed", "lost", "attested"}

\* What a handler has learned so far; only what its pc says is set counts.
Handling == [pc : {"idle"} \cup InFlight \cup Ended, request : Request,
             blob : Blob \cup {NoBlob}, process : 1..MaxBoots,
             measurement : Identity, tier : Tier]

TypeOK ==
  /\ boot \in 1..MaxBoots
  /\ measurement \in Identity
  /\ prices \in {"undialled", "ready", "failed"}
  /\ attestationCount \in Nat
  /\ lastTier \in Tier
  /\ sealedBlobs \in [Hash -> Blob \cup {NoBlob}]
  /\ deliveries \in [Hash -> 0..MaxDeliveries]
  /\ quotes \subseteq Quote
  /\ quoting \in [QuoteHandler -> [pc : {"idle", "read", "adopted"}, measurement : Identity]]
  /\ actions \in [Action -> Handling]
  /\ anchored \subseteq Request

NoHandling == [pc |-> "idle", request |-> CHOOSE r \in Request : TRUE, blob |-> NoBlob,
               process |-> 1, measurement |-> Fallback, tier |-> 0]
IdleQuote == [pc |-> "idle", measurement |-> Fallback]

\* New: the fallback, unless the launcher already answers.
BootIdentity == IF OnHardware THEN Identity ELSE {Fallback}

Init ==
  /\ boot = 1
  /\ measurement \in BootIdentity
  /\ prices = "undialled"
  /\ attestationCount = 0
  /\ lastTier = 0
  /\ sealedBlobs = [h \in Hash |-> NoBlob]
  /\ deliveries = [h \in Hash |-> 0]
  /\ quotes = {}
  /\ quoting = [q \in QuoteHandler |-> IdleQuote]
  /\ actions = [a \in Action |-> NoHandling]
  /\ anchored = {}

-----------------------------------------------------------------------------
\* GET /quote.

Served(m, mode) == quotes \cup {[key |-> boot, measurement |-> m, mode |-> mode]}

QuoteRead(q) ==
  /\ quoting[q].pc = "idle"
  /\ quoting' = [quoting EXCEPT ![q] = [pc |-> "read", measurement |-> measurement]]
  /\ UNCHANGED <<boot, measurement, prices, counters, blobVars, quotes, actions, anchored>>

\* Variant: the quote names the digest and the enclave keeps its own identity.
QuoteAdopt_ServeOnly(q) ==
  /\ OnHardware
  /\ quoting[q].pc = "read"
  /\ quoting' = [quoting EXCEPT ![q] = [pc |-> "adopted", measurement |-> ImageDigest]]
  /\ UNCHANGED <<boot, measurement, prices, counters, blobVars, quotes, actions, anchored>>

\* The launcher's token could be read: serve and unseal under its digest.
QuoteAdopt(q) ==
  /\ OnHardware
  /\ quoting[q].pc = "read"
  /\ measurement' = ImageDigest
  /\ quoting' = [quoting EXCEPT ![q] = [pc |-> "adopted", measurement |-> ImageDigest]]
  /\ UNCHANGED <<boot, prices, counters, blobVars, quotes, actions, anchored>>

\* No token, or one that cannot be read: mode 1, under the identity read first.
QuoteRespond(q) ==
  /\ quoting[q].pc # "idle"
  /\ quotes' = Served(quoting[q].measurement, IF quoting[q].pc = "adopted" THEN 0 ELSE 1)
  /\ quoting' = [quoting EXCEPT ![q] = IdleQuote]
  /\ UNCHANGED <<boot, measurement, prices, counters, blobVars, actions, anchored>>

-----------------------------------------------------------------------------
\* POST /sealed: a browser's ciphertext, sealed to a quote it was served.
\* The bytes are opaque here and are kept under whatever hash comes with them.

SealTo(q, account) == [key |-> q.key, info |-> q.measurement, account |-> account]

StoreSealedBlob(h, blob) ==
  /\ deliveries[h] < MaxDeliveries
  /\ sealedBlobs' = [sealedBlobs EXCEPT ![h] = blob]
  /\ deliveries' = [deliveries EXCEPT ![h] = @ + 1]
  /\ UNCHANGED <<boot, measurement, prices, counters, quoteVars, actions, anchored>>

-----------------------------------------------------------------------------
\* POST /action: processAttestSolvency.

Advance(a, pc) == actions' = [actions EXCEPT ![a].pc = pc]

\* A request without a wallet leaves its blob pending.
Answerable(r) == r.wallet # NoWallet /\ sealedBlobs[r.requestHash] # NoBlob

Refuse(a, r) ==
  /\ actions[a].pc = "idle"
  /\ ~Answerable(r)
  /\ actions' = [actions EXCEPT ![a] = [@ EXCEPT !.pc = "refused", !.request = r, !.process = boot]]
  /\ UNCHANGED <<boot, measurement, prices, counters, blobVars, quoteVars, anchored>>

Taken(a, r) ==
  [actions EXCEPT ![a] = [@ EXCEPT !.pc = "taken", !.request = r, !.process = boot,
                                   !.blob = sealedBlobs[r.requestHash]]]

\* Variant: the blob is loaded and not deleted.
Take_Load(a, r) ==
  /\ actions[a].pc = "idle"
  /\ Answerable(r)
  /\ actions' = Taken(a, r)
  /\ UNCHANGED <<boot, measurement, prices, counters, blobVars, quoteVars, anchored>>

\* LoadAndDelete.
Take(a, r) ==
  /\ actions[a].pc = "idle"
  /\ Answerable(r)
  /\ actions' = Taken(a, r)
  /\ sealedBlobs' = [sealedBlobs EXCEPT ![r.requestHash] = NoBlob]
  /\ UNCHANGED <<boot, measurement, prices, counters, deliveries, quoteVars, anchored>>

ReadMeasurement(a) ==
  /\ actions[a].pc = "taken"
  /\ actions' = [actions EXCEPT ![a] = [@ EXCEPT !.pc = "measured", !.measurement = measurement]]
  /\ UNCHANGED <<boot, measurement, prices, counters, blobVars, quoteVars, anchored>>

\* Open: the key of this process and the info it was sealed with, or nothing.
Opens(a) ==
  /\ actions[a].blob.key = actions[a].process
  /\ actions[a].blob.info = actions[a].measurement

\* Unseal, then query the exchange.
Query(a) ==
  /\ actions[a].pc = "measured"
  /\ \/ Opens(a) /\ Advance(a, "queried")
     \/ Advance(a, "failed")
  /\ UNCHANGED <<boot, measurement, prices, counters, blobVars, quoteVars, anchored>>

\* Price and reduce.  The chain is dialled once per process, by whoever comes
\* first, and the outcome is kept; a feed that cannot be read is skipped, so
\* pricing over a dialled chain gives some tier.  The context's deadline may
\* pass in the dial.
Price(a) ==
  /\ actions[a].pc = "queried"
  /\ prices' \in IF prices = "undialled" THEN {"ready", "failed"} ELSE {prices}
  /\ IF prices' = "ready"
     THEN \E tier \in Tier :
            actions' = [actions EXCEPT ![a] = [@ EXCEPT !.pc = "reduced", !.tier = tier]]
     ELSE Advance(a, "failed")
  /\ UNCHANGED <<boot, measurement, counters, blobVars, quoteVars, anchored>>

\* Variant: the counter is written back from a value read before the lock.
Count_Stale(a) ==
  /\ actions[a].pc = "reduced"
  /\ \E seen \in {attestationCount, attestationCount - 1} :
       seen >= 0 /\ attestationCount' = seen + 1
  /\ lastTier' = actions[a].tier
  /\ Advance(a, "counted")
  /\ UNCHANGED <<boot, measurement, prices, blobVars, quoteVars, anchored>>

Count(a) ==
  /\ actions[a].pc = "reduced"
  /\ attestationCount' = attestationCount + 1
  /\ lastTier' = actions[a].tier
  /\ Advance(a, "counted")
  /\ UNCHANGED <<boot, measurement, prices, blobVars, quoteVars, anchored>>

\* Variant: the response reads the identity again.
Respond_Rereads(a) ==
  /\ actions[a].pc = "counted"
  /\ actions' = [actions EXCEPT ![a] = [@ EXCEPT !.pc = "attested", !.measurement = measurement]]
  /\ UNCHANGED <<boot, measurement, prices, counters, blobVars, quoteVars, anchored>>

\* The response carries the identity the blob was opened under.
Respond(a) ==
  /\ actions[a].pc = "counted"
  /\ Advance(a, "attested")
  /\ UNCHANGED <<boot, measurement, prices, counters, blobVars, quoteVars, anchored>>

\* HMAC of the account under the secret of the process that attested it.
Nullifier(a) == [secret |-> actions[a].process, account |-> actions[a].blob.account]

-----------------------------------------------------------------------------

\* The process stops and another starts: everything it held was in memory.
Restart ==
  /\ boot < MaxBoots
  /\ boot' = boot + 1
  /\ measurement' \in BootIdentity
  /\ prices' = "undialled"
  /\ attestationCount' = 0
  /\ lastTier' = 0
  /\ sealedBlobs' = [h \in Hash |-> NoBlob]
  /\ quoting' = [q \in QuoteHandler |-> IdleQuote]
  /\ actions' = [a \in Action |->
                   IF actions[a].pc \in InFlight
                   THEN [actions[a] EXCEPT !.pc = "lost"] ELSE actions[a]]
  /\ UNCHANGED <<deliveries, quotes, anchored>>

\* External: a wallet anchors a request hash on chain.
Anchor(r) ==
  /\ r.wallet # NoWallet
  /\ anchored' = anchored \cup {r}
  /\ UNCHANGED <<boot, measurement, prices, counters, blobVars, quoteVars, actions>>

Handle(a) ==
  \/ ReadMeasurement(a)
  \/ Query(a)
  \/ Price(a)
  \/ Count(a)
  \/ Respond(a)

Next ==
  \/ \E q \in QuoteHandler : QuoteRead(q) \/ QuoteAdopt(q) \/ QuoteRespond(q)
  \/ \E h \in Hash, q \in quotes, account \in Account :
       StoreSealedBlob(h, SealTo(q, account))
  \/ \E a \in Action :
       \/ \E r \in Request : Refuse(a, r) \/ Take(a, r)
       \/ Handle(a)
  \/ Restart
  \/ \E r \in Request : Anchor(r)

Spec == Init /\ [][Next]_vars

-----------------------------------------------------------------------------

Attested == {a \in Action : actions[a].pc = "attested"}

(***************************************************************************)
(* enclave.go:94-96, "The blob is deleted as soon as it is read": however  *)
(* instructions for one request hash race, one delivered ciphertext serves *)
(* at most one of them, and a ciphertext still pending has served none.    *)
(***************************************************************************)
CiphertextIsSingleUse ==
  \A h \in Hash :
    Cardinality({a \in Action : /\ actions[a].pc \notin {"idle", "refused"}
                                /\ actions[a].request.requestHash = h})
      + (IF sealedBlobs[h] = NoBlob THEN 0 ELSE 1) <= deliveries[h]

(***************************************************************************)
(* An attestation is published under the identity its ciphertext was       *)
(* sealed to, by the process whose key it was sealed to, and that process  *)
(* had served a quote saying so; whatever the launcher made of the         *)
(* enclave's identity while the exchange was being queried                 *)
(* (extension.go:329-332 and 344-351).                                     *)
(***************************************************************************)
AttestedAsSealed ==
  \A a \in Attested :
    /\ actions[a].measurement = actions[a].blob.info
    /\ actions[a].process = actions[a].blob.key
    /\ \E q \in quotes : /\ q.key = actions[a].process
                         /\ q.measurement = actions[a].measurement

(***************************************************************************)
(* A quote signed by the launcher stays good: a process that has served a  *)
(* mode 0 quote unseals under that quote's measurement until it stops,     *)
(* with other quote handlers in flight and the launcher failing on and off *)
(* (extension.go:172-176, "Serve and unseal under the same identity").     *)
(***************************************************************************)
SignedQuotesOpen ==
  \A q \in quotes : q.key = boot /\ q.mode = 0 => q.measurement = measurement

(***************************************************************************)
(* The counter the browser watches on GET /state counts the attestations   *)
(* this process has produced, none twice and no failure among them, with   *)
(* several handlers finishing at once (extension.go:339-342).              *)
(***************************************************************************)
CountIsExact ==
  attestationCount =
    Cardinality({a \in Action : /\ actions[a].process = boot
                                /\ actions[a].pc \in {"counted", "attested"}})

(***************************************************************************)
(* extension/go/pkg/types/types.go:13-15: "the enclave refuses any blob    *)
(* whose hash does not match a request it has seen anchored."              *)
(***************************************************************************)
AttestedRequestsAreAnchored == \A a \in Attested : actions[a].request \in anchored

(***************************************************************************)
(* extension/go/internal/vaultproof/nullifier.go:34-35: "Stable: the same  *)
(* exchange account always yields the same nullifier, so SolvencyRegistry  *)
(* can refuse to let one account back ten wallets."                        *)
(***************************************************************************)
NullifierIsStable ==
  \A a, b \in Attested :
    actions[a].blob.account = actions[b].blob.account => Nullifier(a) = Nullifier(b)

=============================================================================
