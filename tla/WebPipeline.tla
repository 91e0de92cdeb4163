------------------------------ MODULE WebPipeline ------------------------------
(***************************************************************************)
(* The browser's pipeline in live mode: the store (web/lib/store), the     *)
(* stages that drive it (web/components/app) and the adapters they await   *)
(* (web/lib/adapters/live).                                                *)
(*                                                                         *)
(* A stage starts an asynchronous run from an effect or a form and the run *)
(* is cut at its awaits.  Nothing cancels a run: it goes on writing to the *)
(* store after its stage was unmounted or the demo was reset.  What does   *)
(* belong to the mounted component is its ref that says a run is under way *)
(* (Busy), and the timer of the sealing animation.                         *)
(*                                                                         *)
(* A sealed request is a number: its ciphertext and that ciphertext's hash *)
(* are the same thing here.  The wallet extension, the enclave and the     *)
(* chain are external, and any await may throw.                            *)
(***************************************************************************)
EXTENDS Integers, FiniteSets

CONSTANTS Address, NoAddress,  \* accounts of the wallet extension
          Quote, NoQuote,      \* quotes an enclave may serve
          Slot,                \* bound: runs of one stage under way at once
          MaxSeals,            \* bound on sealed requests
          MaxCount,            \* bound on the enclave's counter
          MaxResets            \* bound on uses of the Reset demo button

ASSUME PipelineAssumption ==
  /\ NoAddress \notin Address
  /\ NoQuote \notin Quote
  /\ MaxSeals \in Nat
  /\ MaxCount \in Nat
  /\ MaxResets \in Nat

VARIABLES
  store,       \* usePipeline
  blob,        \* sealed.ts: the ciphertext held, or 0
  runs,        \* stage -> slot -> a run under way
  account,     \* what bindWalletClient was last given
  resets,
  passed,      \* history: quotes some run took through all three checks
  sealedTo,    \* history: sealed request -> the quote it was sealed to
  anchors,     \* chain: transactions [seal, run] that anchored a hash
  delivered,   \* enclave: ciphertexts received
  count,       \* enclave: attestationCount
  answered,    \* enclave: requests attested
  recorded     \* chain: whether the registry has an attestation for the wallet

worldVars == <<account, resets, passed, sealedTo, anchors, delivered, count,
               answered, recorded>>
vars == <<store, blob, runs, worldVars>>

SealId == 1..MaxSeals
Status == {"idle", "verifying", "verified", "sealing", "anchoring", "processing",
           "attested", "failed"}
Stage == {"verify", "seal", "anchor", "processing"}

Store == [status : Status, failedStage : Stage \cup {"none"},
          wallet : Address \cup {NoAddress}, quote : Quote \cup {NoQuote},
          seal : {0} \cup SealId, anchorTx : {0} \cup SealId,
          requestId : {0} \cup SealId, steps : {"idle", "running", "done"},
          attestation : BOOLEAN]

\* A run's pc names the await it is in.  mounted: its component still is.
Run == [pc : {"none", "quote", "signature", "whitelist", "encrypt", "scramble",
              "sign", "deliver", "baseline", "poll", "record"},
        mounted : BOOLEAN, quote : Quote \cup {NoQuote}, seal : {0} \cup SealId,
        account : Address \cup {NoAddress}, before : -1..MaxCount, began : 0..MaxCount]

TypeOK ==
  /\ store \in Store
  /\ blob \in {0} \cup SealId
  /\ runs \in [Stage -> [Slot -> Run]]
  /\ account \in Address \cup {NoAddress}
  /\ resets \in 0..MaxResets
  /\ passed \subseteq Quote
  /\ sealedTo \in [SealId -> Quote \cup {NoQuote}]
  /\ \A tx \in anchors : tx.seal \in SealId
  /\ delivered \subseteq SealId
  /\ count \in 0..MaxCount
  /\ answered \subseteq SealId
  /\ recorded \in BOOLEAN

initialState ==
  [status |-> "idle", failedStage |-> "none", wallet |-> NoAddress, quote |-> NoQuote,
   seal |-> 0, anchorTx |-> 0, requestId |-> 0, steps |-> "idle", attestation |-> FALSE]

NoRun == [pc |-> "none", mounted |-> FALSE, quote |-> NoQuote, seal |-> 0,
          account |-> NoAddress, before |-> -1, began |-> 0]

Init ==
  /\ store = initialState
  /\ blob = 0
  /\ runs = [st \in Stage |-> [s \in Slot |-> NoRun]]
  /\ account = NoAddress
  /\ resets = 0
  /\ passed = {}
  /\ sealedTo = [k \in SealId |-> NoQuote]
  /\ anchors = {}
  /\ delivered = {}
  /\ count = 0
  /\ answered = {}
  /\ recorded \in BOOLEAN

-----------------------------------------------------------------------------
\* What the page renders from the store.

activeStage(st) ==
  IF st.status = "failed" THEN st.failedStage
  ELSE IF st.wallet = NoAddress THEN "connect"
  ELSE CASE st.status \in {"idle", "verifying"} -> "verify"
         [] st.status \in {"verified", "sealing"} -> "seal"
         [] st.status = "anchoring" -> "anchor"
         [] st.status = "processing" -> "processing"
         [] st.status = "attested" -> "attested"

canSeal(st) == st.status \in {"verified", "sealing", "failed"}

MountedIn(st) ==
  {stage \in Stage :
     \/ /\ stage = "verify" /\ st.wallet # NoAddress
        /\ activeStage(st) = "verify" \/ st.status \in {"failed", "verified"}
     \/ stage = "seal" /\ activeStage(st) = "seal"
     \/ /\ stage = "anchor" /\ activeStage(st) = "anchor"
        /\ st.status = "anchoring" \/ st.anchorTx # 0
     \/ /\ stage = "processing" /\ activeStage(st) = "processing"
        /\ st.status = "processing" \/ st.attestation}

Mounted(stage) == stage \in MountedIn(store)

\* Rendering after the store changed: an unmounted component's runs go on, its
\* timer does not.
Rendered(st, next) ==
  [stage \in Stage |-> [s \in Slot |->
     IF stage \in MountedIn(st) \/ ~next[stage][s].mounted THEN next[stage][s]
     ELSE IF next[stage][s].pc = "scramble" THEN NoRun
     ELSE [next[stage][s] EXCEPT !.mounted = FALSE]]]

Writes(st, next) == store' = st /\ runs' = Rendered(st, next)

With(stage, s, run) == [runs EXCEPT ![stage][s] = run]
At(stage, s, pc) == runs[stage][s].pc = pc
Ended(stage, s) == With(stage, s, NoRun)

Busy(stage) == \E s \in Slot : runs[stage][s].mounted

failed(stage) == [store EXCEPT !.status = "failed", !.failedStage = stage]

-----------------------------------------------------------------------------
\* Stage 1.  StageConnect follows the extension's account only until it has
\* one: then it is unmounted, and the write path alone follows the extension.

Connect(a) ==
  /\ store.wallet = NoAddress
  /\ account' = a
  /\ Writes([initialState EXCEPT !.wallet = a], runs)
  /\ UNCHANGED <<blob, resets, passed, sealedTo, anchors, delivered, count, answered, recorded>>

SwitchAccount(a) ==
  /\ store.wallet # NoAddress
  /\ account' = a
  /\ UNCHANGED <<store, blob, runs, resets, passed, sealedTo, anchors, delivered, count,
                 answered, recorded>>

-----------------------------------------------------------------------------
\* Stage 2: fetch the quote, check its shape, check its signature, ask the
\* chain for the whitelist.

StartVerify(s) ==
  /\ Mounted("verify") /\ store.status = "idle" /\ ~Busy("verify")
  /\ At("verify", s, "none")
  /\ Writes([store EXCEPT !.status = "verifying", !.failedStage = "none"],
            With("verify", s, [NoRun EXCEPT !.pc = "quote", !.mounted = TRUE]))
  /\ UNCHANGED <<blob, worldVars>>

\* The store takes the quote before any check has looked at it.
QuoteFetched(s, q) ==
  /\ At("verify", s, "quote")
  /\ Writes([store EXCEPT !.quote = q],
            With("verify", s, [runs["verify"][s] EXCEPT !.pc = "signature", !.quote = q]))
  /\ UNCHANGED <<blob, worldVars>>

QuoteMalformed(s, q) ==
  /\ At("verify", s, "quote")
  /\ Writes([store EXCEPT !.quote = q, !.status = "failed", !.failedStage = "verify"],
            Ended("verify", s))
  /\ UNCHANGED <<blob, worldVars>>

SignatureChecked(s) ==
  /\ At("verify", s, "signature")
  /\ runs' = With("verify", s, [runs["verify"][s] EXCEPT !.pc = "whitelist"])
  /\ UNCHANGED <<store, blob, worldVars>>

VerifyFails(s) ==
  /\ runs["verify"][s].pc # "none"
  /\ Writes(failed("verify"), Ended("verify", s))
  /\ UNCHANGED <<blob, worldVars>>

\* Variant: the third check is not waited for.
finishVerify_Early(s) ==
  /\ runs["verify"][s].pc \in {"signature", "whitelist"}
  /\ passed' = IF At("verify", s, "whitelist") THEN passed \cup {runs["verify"][s].quote} ELSE passed
  /\ Writes([store EXCEPT !.status = "verified"], Ended("verify", s))
  /\ UNCHANGED <<blob, account, resets, sealedTo, anchors, delivered, count, answered, recorded>>

finishVerify(s) ==
  /\ At("verify", s, "whitelist")
  /\ passed' = passed \cup {runs["verify"][s].quote}
  /\ Writes([store EXCEPT !.status = "verified"], Ended("verify", s))
  /\ UNCHANGED <<blob, account, resets, sealedTo, anchors, delivered, count, answered, recorded>>

\* The hard stop's button, "Fetch a fresh quote".
RetryVerify ==
  /\ Mounted("verify") /\ store.status = "failed" /\ store.failedStage = "verify"
  /\ Writes([store EXCEPT !.status = "idle", !.failedStage = "none", !.quote = NoQuote], runs)
  /\ UNCHANGED <<blob, worldVars>>

-----------------------------------------------------------------------------
\* Stage 3: the form.  startSeal's own gate is canSeal.

Submit(s) ==
  /\ Mounted("seal") /\ store.seal = 0 /\ store.quote # NoQuote /\ ~Busy("seal")
  /\ canSeal(store)
  /\ At("seal", s, "none")
  /\ Writes([store EXCEPT !.status = "sealing", !.failedStage = "none"],
            With("seal", s, [NoRun EXCEPT !.pc = "encrypt", !.mounted = TRUE, !.quote = store.quote]))
  /\ UNCHANGED <<blob, worldVars>>

\* holdSealed, and the animation's timer is set.
Encrypted(s) ==
  LET k == Cardinality({j \in SealId : sealedTo[j] # NoQuote}) + 1
  IN  /\ At("seal", s, "encrypt")
      /\ k <= MaxSeals
      /\ sealedTo' = [sealedTo EXCEPT ![k] = runs["seal"][s].quote]
      /\ blob' = k
      /\ runs' = With("seal", s, [runs["seal"][s] EXCEPT !.pc = "scramble", !.seal = k])
      /\ UNCHANGED <<store, account, resets, passed, anchors, delivered, count, answered, recorded>>

SealFails(s) ==
  /\ At("seal", s, "encrypt")
  /\ Writes(failed("seal"), Ended("seal", s))
  /\ UNCHANGED <<blob, worldVars>>

\* finishSeal and startAnchor.
Scrambled(s) ==
  /\ At("seal", s, "scramble")
  /\ Writes([store EXCEPT !.seal = runs["seal"][s].seal, !.status = "anchoring"],
            Ended("seal", s))
  /\ UNCHANGED <<blob, worldVars>>

-----------------------------------------------------------------------------
\* Stage 4: the anchor transaction, then the ciphertext.

Anchoring == Mounted("anchor") /\ store.status = "anchoring" /\ store.anchorTx = 0 /\ store.seal # 0
AnchorRun == [NoRun EXCEPT !.pc = "sign", !.mounted = TRUE, !.seal = store.seal, !.account = account]

\* Variants: the ref that says a run is under way is not consulted; the
\* ciphertext goes out first.
StartAnchor_Unguarded(s) ==
  /\ Anchoring
  /\ At("anchor", s, "none")
  /\ runs' = With("anchor", s, AnchorRun)
  /\ UNCHANGED <<store, blob, worldVars>>
StartAnchor_DeliversFirst(s) ==
  /\ Anchoring /\ ~Busy("anchor")
  /\ delivered' = delivered \cup {store.seal}
  /\ At("anchor", s, "none")
  /\ runs' = With("anchor", s, AnchorRun)
  /\ UNCHANGED <<store, blob, account, resets, passed, sealedTo, anchors, count, answered, recorded>>

\* The run keeps the hash and the account it was started with.
StartAnchor(s) ==
  /\ Anchoring /\ ~Busy("anchor")
  /\ At("anchor", s, "none")
  /\ runs' = With("anchor", s, AnchorRun)
  /\ UNCHANGED <<store, blob, worldVars>>

Mined(s) == anchors \cup {[seal |-> runs["anchor"][s].seal, run |-> s]}

\* The transaction is mined: setAnchorTx, and the ciphertext held now goes to
\* the enclave.
Anchored(s) ==
  /\ At("anchor", s, "sign")
  /\ runs["anchor"][s].account # NoAddress
  /\ anchors' = Mined(s)
  /\ IF blob = 0
     THEN /\ Writes([store EXCEPT !.anchorTx = runs["anchor"][s].seal, !.status = "failed",
                                    !.failedStage = "anchor"],
                    Ended("anchor", s))
     ELSE /\ Writes([store EXCEPT !.anchorTx = runs["anchor"][s].seal],
                    With("anchor", s, [runs["anchor"][s] EXCEPT !.pc = "deliver", !.seal = blob]))
  /\ UNCHANGED <<blob, account, resets, passed, sealedTo, delivered, count, answered, recorded>>

\* The wallet refuses, the transaction reverts or its receipt does not come;
\* the enclave refuses or its answer does not come.
AnchorFails(s) ==
  /\ \/ At("anchor", s, "sign") /\ UNCHANGED <<anchors, delivered>>
     \/ /\ At("anchor", s, "sign")
        /\ runs["anchor"][s].account # NoAddress
        /\ anchors' = Mined(s)
        /\ UNCHANGED delivered
     \/ /\ At("anchor", s, "deliver")
        /\ delivered' \in {delivered, delivered \cup {runs["anchor"][s].seal}}
        /\ UNCHANGED anchors
  /\ Writes(failed("anchor"), Ended("anchor", s))
  /\ UNCHANGED <<blob, account, resets, passed, sealedTo, count, answered, recorded>>

\* setRequestId and startProcessing.
Delivered(s) ==
  /\ At("anchor", s, "deliver")
  /\ delivered' = delivered \cup {runs["anchor"][s].seal}
  /\ Writes([store EXCEPT !.requestId = runs["anchor"][s].seal, !.status = "processing",
                            !.steps = "idle"],
            Ended("anchor", s))
  /\ UNCHANGED <<blob, account, resets, passed, sealedTo, anchors, count, answered, recorded>>

-----------------------------------------------------------------------------
\* Stage 5: watch the enclave's counter, then the registry.

StartProcessing(s) ==
  /\ Mounted("processing") /\ store.status = "processing" /\ store.requestId # 0
  /\ ~Busy("processing")
  /\ At("processing", s, "none")
  /\ runs' = With("processing", s, [NoRun EXCEPT !.pc = "baseline", !.mounted = TRUE, !.began = count])
  /\ UNCHANGED <<store, blob, worldVars>>

Watches(s, before) ==
  Writes([store EXCEPT !.steps = "running"],
         With("processing", s, [runs["processing"][s] EXCEPT !.pc = "poll", !.before = before]))

\* The counter now, or -1 when /state does not answer.
Baseline(s) ==
  /\ At("processing", s, "baseline")
  /\ \E before \in {count, -1} : Watches(s, before)
  /\ UNCHANGED <<blob, worldVars>>

Moved(s) ==
  /\ At("processing", s, "poll")
  /\ count > runs["processing"][s].before
  /\ Writes([store EXCEPT !.steps = "done"],
            With("processing", s, [runs["processing"][s] EXCEPT !.pc = "record"]))

\* Variant: the ciphertext is kept.
Landed_Keeps(s) ==
  /\ Moved(s)
  /\ UNCHANGED <<blob, worldVars>>

Landed(s) ==
  /\ Moved(s)
  /\ blob' = 0
  /\ UNCHANGED worldVars

\* The backfill finds a live attestation, or the event arrives.
setAttestation(s) ==
  /\ At("processing", s, "record")
  /\ recorded
  /\ Writes([store EXCEPT !.attestation = TRUE, !.status = "attested"],
            Ended("processing", s))
  /\ UNCHANGED <<blob, worldVars>>

\* Three minutes without the counter moving, five without the event, or a read
\* that throws.
ProcessingFails(s) ==
  /\ runs["processing"][s].pc \in {"poll", "record"}
  /\ Writes(failed("processing"), Ended("processing", s))
  /\ UNCHANGED <<blob, worldVars>>

-----------------------------------------------------------------------------
\* "Start over from sealing", offered by the stage that failed while mounted.
StartOver ==
  /\ store.status = "failed"
  /\ store.failedStage \in {"anchor", "processing"} /\ Mounted(store.failedStage)
  /\ Writes([store EXCEPT !.status = "verified", !.failedStage = "none", !.seal = 0,
                            !.anchorTx = 0, !.requestId = 0], runs)
  /\ UNCHANGED <<blob, worldVars>>

\* The Reset demo button: dropSealed, then reset.  The await between them
\* resolves at once in live mode.
Reset ==
  /\ resets < MaxResets
  /\ resets' = resets + 1
  /\ blob' = 0
  /\ Writes([initialState EXCEPT !.wallet = store.wallet], runs)
  /\ UNCHANGED <<account, passed, sealedTo, anchors, delivered, count, answered, recorded>>

-----------------------------------------------------------------------------
\* External: the instruction of an anchored request reaches the enclave, which
\* has its ciphertext; somebody else's request does; the attestation is written.

EnclaveAttests(k) ==
  /\ count < MaxCount
  /\ k \in delivered \ answered
  /\ \E tx \in anchors : tx.seal = k
  /\ answered' = answered \cup {k}
  /\ count' = count + 1
  /\ UNCHANGED <<store, blob, runs, account, resets, passed, sealedTo, anchors, delivered, recorded>>

EnclaveServesAnother ==
  /\ count < MaxCount
  /\ count' = count + 1
  /\ UNCHANGED <<store, blob, runs, account, resets, passed, sealedTo, anchors, delivered,
                 answered, recorded>>

AttestationWritten ==
  /\ answered # {}
  /\ recorded' = TRUE
  /\ UNCHANGED <<store, blob, runs, account, resets, passed, sealedTo, anchors, delivered,
                 count, answered>>

VerifyNext(s) ==
  \/ StartVerify(s)
  \/ \E q \in Quote : QuoteFetched(s, q) \/ QuoteMalformed(s, q)
  \/ SignatureChecked(s)
  \/ VerifyFails(s)
  \/ finishVerify(s)

SealNext(s) == Submit(s) \/ Encrypted(s) \/ SealFails(s) \/ Scrambled(s)

AnchorNext(s) == StartAnchor(s) \/ Anchored(s) \/ AnchorFails(s) \/ Delivered(s)

ProcessingNext(s) ==
  \/ StartProcessing(s)
  \/ Baseline(s)
  \/ Landed(s)
  \/ setAttestation(s)
  \/ ProcessingFails(s)

Next ==
  \/ \E a \in Address : Connect(a)
  \/ \E a \in Address \cup {NoAddress} : SwitchAccount(a)
  \/ \E s \in Slot : VerifyNext(s) \/ SealNext(s) \/ AnchorNext(s) \/ ProcessingNext(s)
  \/ RetryVerify
  \/ StartOver
  \/ Reset
  \/ \E k \in SealId : EnclaveAttests(k)
  \/ EnclaveServesAnother
  \/ AttestationWritten

Spec == Init /\ [][Next]_vars

-----------------------------------------------------------------------------

(***************************************************************************)
(* attestation/verify.ts:8-9: "If any of them fails the app refuses to     *)
(* seal.  There is deliberately no override".  Whatever order runs finish  *)
(* in, a credential is only ever sealed to a quote that one run took       *)
(* through the three checks.                                               *)
(***************************************************************************)
SealsOnlyToCheckedQuote ==
  \A k \in SealId : sealedTo[k] \in passed \cup {NoQuote}

\* The same for a session that no reset cut short: what a run started before
\* the reset still writes is what SealsOnlyToCheckedQuote is about.
SessionSealsToCheckedQuote == resets = 0 => SealsOnlyToCheckedQuote

(***************************************************************************)
(* adapters/live/enclave.ts:94, "Delivers the ciphertext after its hash is *)
(* anchored": no ciphertext reaches the enclave before a transaction with  *)
(* its hash was mined, although the hash comes from the store and the      *)
(* ciphertext from the module that holds it.  (Until the first reset: an   *)
(* anchor run that outlives one delivers the next session's ciphertext.)   *)
(***************************************************************************)
CiphertextFollowsAnchor ==
  resets = 0 => \A k \in delivered : \E tx \in anchors : tx.seal = k

(***************************************************************************)
(* A hash is anchored, and its fee paid, once: not again when an effect    *)
(* fires twice, a stage is mounted again, the demo is reset or an old run  *)
(* ends (StageAnchor.tsx:40 and 61).                                       *)
(***************************************************************************)
HashAnchoredOnce ==
  \A k \in SealId :
    Cardinality({s \in Slot : At("anchor", s, "sign") /\ runs["anchor"][s].seal = k})
      + Cardinality({tx \in anchors : tx.seal = k}) <= 1

(***************************************************************************)
(* StageProcessing.tsx:59-60: once attested, the page no longer holds the  *)
(* ciphertext, "so nothing about this request survives the request".       *)
(* (Until the first reset, after which another request may be under way.)  *)
(***************************************************************************)
CiphertextDropped == resets = 0 /\ store.status = "attested" => blob = 0

(***************************************************************************)
(* adapters/live/enclave.ts:123-124: "The counter is the only evidence the *)
(* browser has, and it now has to actually move."  A wait that ended well  *)
(* saw the counter above what it was when the wait began.                  *)
(***************************************************************************)
DoneMeansCounterMoved ==
  \A s \in Slot : At("processing", s, "record") => count > runs["processing"][s].began

=============================================================================
