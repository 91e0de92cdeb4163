----------------------------- MODULE BrowserProofs -----------------------------
(***************************************************************************)
(* Theorems about the browser, for every instance.                         *)
(*                                                                         *)
(* WebPipeline: any accounts, quotes, runs of a stage and sealed requests, *)
(* any bounds.  A hash is anchored once because a sealed request is in one *)
(* place at a time (OnceInv): animated, waiting for the anchor stage, in   *)
(* the hands of one run, or on the chain.  What holds of a session until   *)
(* its first reset holds because at most one run is under way and the page *)
(* still shows its stage (SessionInv).                                     *)
(*                                                                         *)
(* QuoteVerification: any number of checks that share the key set, any     *)
(* quotes, any rotation and any failed fetch.                              *)
(***************************************************************************)
EXTENDS WebPipeline, QuoteVerification, FiniteSetTheorems, TLAPS

-----------------------------------------------------------------------------
(* What rendering does to the runs.                                        *)

\* r is what became of the run n when a page with the store st was rendered:
\* n itself while its stage is mounted, else n unmounted or gone.
Remains(r, n, stage, st) ==
  /\ r.pc \in {"none", n.pc}
  /\ r.pc # "none" => r.quote = n.quote /\ r.seal = n.seal
  /\ r.mounted => n.mounted
  /\ stage \in MountedIn(st) => r = n

LEMMA NoRunIsRun == NoRun \in Run
BY PipelineAssumption DEF NoRun, Run

LEMMA RenderedRuns ==
  ASSUME NEW st, NEW next \in [Stage -> [Slot -> Run]]
  PROVE  /\ Rendered(st, next) \in [Stage -> [Slot -> Run]]
         /\ \A stage \in Stage, s \in Slot :
              Remains(Rendered(st, next)[stage][s], next[stage][s], stage, st)
<1>1. ASSUME NEW stage \in Stage, NEW s \in Slot
      PROVE  /\ Rendered(st, next)[stage][s] \in Run
             /\ Remains(Rendered(st, next)[stage][s], next[stage][s], stage, st)
  <2> DEFINE n == next[stage][s]
             r == IF stage \in MountedIn(st) \/ ~n.mounted THEN n
                  ELSE IF n.pc = "scramble" THEN NoRun
                  ELSE [n EXCEPT !.mounted = FALSE]
  <2>1. Rendered(st, next)[stage][s] = r
    BY DEF Rendered
  <2>2. n \in Run
    OBVIOUS
  <2>3. [n EXCEPT !.mounted = FALSE] \in Run
    BY <2>2 DEF Run
  <2>4. r \in Run
    BY <2>2, <2>3, NoRunIsRun
  <2>5. CASE stage \in MountedIn(st) \/ ~n.mounted
    BY <2>1, <2>2, <2>5 DEF Remains, Run
  <2>6. CASE stage \notin MountedIn(st) /\ n.mounted
    <3> DEFINE rr == Rendered(st, next)[stage][s]
    <3> HIDE DEF rr
    <3>1. CASE n.pc = "scramble"
      <4>1. rr = NoRun
        BY <2>1, <2>6, <3>1 DEF rr
      <4>2. Remains(rr, n, stage, st)
        BY <4>1, <2>6 DEF Remains, NoRun
      <4> QED
        BY <2>1, <2>4, <4>2 DEF rr
    <3>2. CASE n.pc # "scramble"
      <4>1. rr = [n EXCEPT !.mounted = FALSE]
        BY <2>1, <2>6, <3>2 DEF rr
      <4>2. rr.pc = n.pc /\ rr.quote = n.quote /\ rr.seal = n.seal /\ rr.mounted = FALSE
        BY <4>1, <2>2 DEF Run
      <4>3. Remains(rr, n, stage, st)
        BY <4>2, <2>6 DEF Remains
      <4> QED
        BY <2>1, <2>4, <4>3 DEF rr
    <3> QED
      BY <3>1, <3>2
  <2> QED
    BY <2>1, <2>4, <2>5, <2>6
<1>2. Rendered(st, next)
        = [stage \in Stage |-> [s \in Slot |-> Rendered(st, next)[stage][s]]]
  BY DEF Rendered
<1> QED
  BY <1>1, <1>2

-----------------------------------------------------------------------------
(* Type correctness.                                                       *)

\* What a run at these awaits holds: the quote being checked or sealed to, the
\* request being animated or anchored.
Sound(stage, r) ==
  /\ stage = "verify" /\ r.pc \in {"signature", "whitelist"} => r.quote \in Quote
  /\ stage = "seal" /\ r.pc = "encrypt" => r.quote \in Quote
  /\ stage = "seal" /\ r.pc = "scramble" => r.seal \in SealId
  /\ stage = "anchor" /\ r.pc \in {"sign", "deliver"} => r.seal \in SealId

RunsTyped ==
  /\ runs \in [Stage -> [Slot -> Run]]
  /\ \A stage \in Stage, s \in Slot : Sound(stage, runs[stage][s])

\* The step replaced one run and rendered, or only rendered.
LEMMA ReplacedRun ==
  ASSUME RunsTyped, NEW st, NEW stage \in Stage, NEW s \in Slot, NEW run \in Run,
         Sound(stage, run), runs' = Rendered(st, With(stage, s, run))
  PROVE  /\ RunsTyped'
         /\ Remains(runs'[stage][s], run, stage, st)
         /\ \A t \in Stage, u \in Slot :
              t # stage \/ u # s => Remains(runs'[t][u], runs[t][u], t, st)
<1> DEFINE next == With(stage, s, run)
<1>1. /\ next \in [Stage -> [Slot -> Run]]
      /\ next[stage][s] = run
      /\ \A t \in Stage, u \in Slot : t # stage \/ u # s => next[t][u] = runs[t][u]
  BY DEF With, RunsTyped
<1> HIDE DEF next
<1>2. /\ runs' \in [Stage -> [Slot -> Run]]
      /\ \A t \in Stage, u \in Slot : Remains(runs'[t][u], next[t][u], t, st)
  BY <1>1, RenderedRuns DEF next
<1>3. ASSUME NEW t \in Stage, NEW u \in Slot PROVE Sound(t, runs'[t][u])
  <2>1. Sound(t, next[t][u])
    BY <1>1 DEF RunsTyped
  <2> QED
    BY <1>2, <2>1 DEF Remains, Sound
<1> QED
  BY <1>1, <1>2, <1>3 DEF RunsTyped

LEMMA RenderedOnly ==
  ASSUME RunsTyped, NEW st, runs' = Rendered(st, runs)
  PROVE  /\ RunsTyped'
         /\ \A t \in Stage, u \in Slot : Remains(runs'[t][u], runs[t][u], t, st)
<1>1. /\ runs' \in [Stage -> [Slot -> Run]]
      /\ \A t \in Stage, u \in Slot : Remains(runs'[t][u], runs[t][u], t, st)
  BY RenderedRuns DEF RunsTyped
<1>2. ASSUME NEW t \in Stage, NEW u \in Slot PROVE Sound(t, runs'[t][u])
  <2>1. Sound(t, runs[t][u])
    BY DEF RunsTyped
  <2> QED
    BY <1>1, <2>1 DEF Remains, Sound
<1> QED
  BY <1>1, <1>2 DEF RunsTyped

\* The step replaced one run and did not render.
LEMMA UnrenderedRun ==
  ASSUME RunsTyped, NEW stage \in Stage, NEW s \in Slot, NEW run \in Run,
         Sound(stage, run), runs' = With(stage, s, run)
  PROVE  /\ RunsTyped'
         /\ runs'[stage][s] = run
         /\ \A t \in Stage, u \in Slot :
              t # stage \/ u # s => runs'[t][u] = runs[t][u]
<1>1. /\ runs' \in [Stage -> [Slot -> Run]]
      /\ runs'[stage][s] = run
      /\ \A t \in Stage, u \in Slot : t # stage \/ u # s => runs'[t][u] = runs[t][u]
  BY DEF With, RunsTyped
<1>2. ASSUME NEW t \in Stage, NEW u \in Slot PROVE Sound(t, runs'[t][u])
  BY <1>1 DEF RunsTyped
<1> QED
  BY <1>1, <1>2 DEF RunsTyped

(***************************************************************************)
(* The types, with what a run holds at each await and with the chain's     *)
(* transactions as records.                                                *)
(***************************************************************************)
TypeInv ==
  /\ TypeOK
  /\ RunsTyped
  /\ anchors \subseteq [seal : SealId, run : Slot]

\* Everything but the store and the runs.
RestTyped ==
  /\ blob \in {0} \cup SealId
  /\ account \in Address \cup {NoAddress}
  /\ resets \in 0..MaxResets
  /\ passed \subseteq Quote
  /\ sealedTo \in [SealId -> Quote \cup {NoQuote}]
  /\ anchors \subseteq [seal : SealId, run : Slot]
  /\ delivered \subseteq SealId
  /\ count \in 0..MaxCount
  /\ answered \subseteq SealId
  /\ recorded \in BOOLEAN

LEMMA TypeParts ==
  /\ TypeInv <=> store \in Store /\ RunsTyped /\ RestTyped
  /\ TypeInv' <=> store' \in Store /\ RunsTyped' /\ RestTyped'
BY DEF TypeInv, TypeOK, RunsTyped, RestTyped

LEMMA UntouchedRest == RestTyped /\ UNCHANGED <<blob, worldVars>> => RestTyped'
BY DEF RestTyped, worldVars

LEMMA TypeInit == Init => TypeInv
<1> SUFFICES ASSUME Init PROVE store \in Store /\ RunsTyped /\ RestTyped
  BY TypeParts
<1>1. store \in Store
  BY DEF Init, initialState, Store, Status
<1>2. RunsTyped
  BY NoRunIsRun DEF Init, RunsTyped, Sound, NoRun
<1>3. RestTyped
  BY PipelineAssumption DEF Init, RestTyped
<1> QED
  BY <1>1, <1>2, <1>3

\* The stages' own steps.
LEMMA VerifyTyped ==
  ASSUME TypeInv, NEW s \in Slot, VerifyNext(s) PROVE TypeInv'
<1>0. store \in Store /\ RunsTyped /\ RestTyped /\ "verify" \in Stage
  BY TypeParts DEF Stage
<1> SUFFICES store' \in Store /\ RunsTyped' /\ RestTyped'
  BY TypeParts
<1> DEFINE r == runs["verify"][s]
<1>1. r \in Run /\ Sound("verify", r)
  BY <1>0 DEF RunsTyped
<1> USE DEF Writes, Ended
<1>2. CASE StartVerify(s)
  <2> DEFINE n == [NoRun EXCEPT !.pc = "quote", !.mounted = TRUE]
  <2>1. n \in Run /\ Sound("verify", n)
    BY NoRunIsRun DEF Run, Sound
  <2>2. store' \in Store
    BY <1>0, <1>2 DEF StartVerify, Store, Status
  <2> QED
    BY <1>0, <1>2, <2>1, <2>2, ReplacedRun, UntouchedRest DEF StartVerify
<1>3. ASSUME NEW q \in Quote, QuoteFetched(s, q)
      PROVE  store' \in Store /\ RunsTyped' /\ RestTyped'
  <2> DEFINE n == [r EXCEPT !.pc = "signature", !.quote = q]
  <2>1. n \in Run /\ Sound("verify", n)
    BY <1>1 DEF Run, Sound
  <2>2. store' \in Store
    BY <1>0, <1>3 DEF QuoteFetched, Store
  <2> QED
    BY <1>0, <1>3, <2>1, <2>2, ReplacedRun, UntouchedRest DEF QuoteFetched
<1>4. NoRun \in Run /\ Sound("verify", NoRun)
  BY NoRunIsRun DEF Sound, NoRun
<1>5. ASSUME NEW q \in Quote, QuoteMalformed(s, q)
      PROVE  store' \in Store /\ RunsTyped' /\ RestTyped'
  <2>1. store' \in Store
    BY <1>0, <1>5 DEF QuoteMalformed, Store, Status
  <2> QED
    BY <1>0, <1>4, <1>5, <2>1, ReplacedRun, UntouchedRest DEF QuoteMalformed
<1>6. CASE SignatureChecked(s)
  <2> DEFINE n == [r EXCEPT !.pc = "whitelist"]
  <2>1. n \in Run /\ Sound("verify", n)
    BY <1>1, <1>6 DEF Run, Sound, SignatureChecked, At
  <2> QED
    BY <1>0, <1>6, <2>1, UnrenderedRun, UntouchedRest DEF SignatureChecked
<1>7. CASE VerifyFails(s)
  <2>1. store' \in Store
    BY <1>0, <1>7 DEF VerifyFails, failed, Store, Status
  <2> QED
    BY <1>0, <1>4, <1>7, <2>1, ReplacedRun, UntouchedRest DEF VerifyFails
<1>8. CASE finishVerify(s)
  <2>1. store' \in Store
    BY <1>0, <1>8 DEF finishVerify, Store, Status
  <2>2. r.quote \in Quote
    BY <1>1, <1>8 DEF finishVerify, At, Sound
  <2>3. RestTyped'
    BY <1>0, <1>8, <2>2 DEF finishVerify, RestTyped
  <2> QED
    BY <1>0, <1>4, <1>8, <2>1, <2>3, ReplacedRun DEF finishVerify
<1> QED
  BY <1>2, <1>3, <1>5, <1>6, <1>7, <1>8 DEF VerifyNext

LEMMA SealTyped ==
  ASSUME TypeInv, NEW s \in Slot, SealNext(s) PROVE TypeInv'
<1>0. store \in Store /\ RunsTyped /\ RestTyped /\ "seal" \in Stage
  BY TypeParts DEF Stage
<1> SUFFICES store' \in Store /\ RunsTyped' /\ RestTyped'
  BY TypeParts
<1> DEFINE r == runs["seal"][s]
<1>1. r \in Run /\ Sound("seal", r)
  BY <1>0 DEF RunsTyped
<1>2. NoRun \in Run /\ Sound("seal", NoRun)
  BY NoRunIsRun DEF Sound, NoRun
<1> USE DEF Writes, Ended
<1>3. CASE Submit(s)
  <2> DEFINE n == [NoRun EXCEPT !.pc = "encrypt", !.mounted = TRUE, !.quote = store.quote]
  <2>1. store.quote \in Quote
    BY <1>0, <1>3 DEF Submit, Store
  <2>2. n \in Run /\ Sound("seal", n)
    BY <2>1, NoRunIsRun DEF Run, Sound
  <2>3. store' \in Store
    BY <1>0, <1>3 DEF Submit, Store, Status
  <2> QED
    BY <1>0, <1>3, <2>2, <2>3, ReplacedRun, UntouchedRest DEF Submit
<1>4. CASE Encrypted(s)
  <2> DEFINE c == Cardinality({j \in SealId : sealedTo[j] # NoQuote})
             k == c + 1
             n == [r EXCEPT !.pc = "scramble", !.seal = k]
  <2>1. k \in SealId
    <3>1. IsFiniteSet(SealId)
      BY FS_Interval, PipelineAssumption DEF SealId
    <3>2. c \in Nat
      BY <3>1, FS_Subset, FS_CardinalityType
    <3>3. k <= MaxSeals
      BY <1>4 DEF Encrypted
    <3> HIDE DEF c
    <3> QED
      BY <3>2, <3>3, PipelineAssumption DEF SealId
  <2>2. /\ sealedTo' = [sealedTo EXCEPT ![k] = r.quote] /\ blob' = k
        /\ runs' = With("seal", s, n)
        /\ UNCHANGED <<store, account, resets, passed, anchors, delivered, count, answered, recorded>>
        /\ r.pc = "encrypt"
    BY <1>4 DEF Encrypted, At
  <2> HIDE DEF k
  <2>3. n \in Run /\ Sound("seal", n)
    BY <1>1, <2>1 DEF Run, Sound
  <2>4. RestTyped'
    BY <1>0, <1>1, <2>1, <2>2 DEF RestTyped, Sound
  <2> QED
    BY <1>0, <2>2, <2>3, <2>4, UnrenderedRun
<1>5. CASE SealFails(s)
  <2>1. store' \in Store
    BY <1>0, <1>5 DEF SealFails, failed, Store, Status, Stage
  <2> QED
    BY <1>0, <1>2, <1>5, <2>1, ReplacedRun, UntouchedRest DEF SealFails
<1>6. CASE Scrambled(s)
  <2>1. store' \in Store
    BY <1>0, <1>1, <1>6 DEF Scrambled, At, Sound, Store, Status
  <2> QED
    BY <1>0, <1>2, <1>6, <2>1, ReplacedRun, UntouchedRest DEF Scrambled
<1> QED
  BY <1>3, <1>4, <1>5, <1>6 DEF SealNext

LEMMA AnchorTyped ==
  ASSUME TypeInv, NEW s \in Slot, AnchorNext(s) PROVE TypeInv'
<1>0. store \in Store /\ RunsTyped /\ RestTyped /\ "anchor" \in Stage
  BY TypeParts DEF Stage
<1> SUFFICES store' \in Store /\ RunsTyped' /\ RestTyped'
  BY TypeParts
<1> DEFINE r == runs["anchor"][s]
<1>1. r \in Run /\ Sound("anchor", r)
  BY <1>0 DEF RunsTyped
<1>2. NoRun \in Run /\ Sound("anchor", NoRun)
  BY NoRunIsRun DEF Sound, NoRun
<1>3. blob \in {0} \cup SealId
  BY <1>0 DEF RestTyped
<1> USE DEF Writes, Ended
<1>4. CASE StartAnchor(s)
  <2>1. store.seal \in SealId /\ account \in Address \cup {NoAddress}
    BY <1>0, <1>4 DEF StartAnchor, Anchoring, Store, RestTyped
  <2>2. AnchorRun \in Run /\ Sound("anchor", AnchorRun)
    BY <2>1, NoRunIsRun DEF AnchorRun, Run, Sound
  <2> QED
    BY <1>0, <1>4, <2>2, UnrenderedRun, UntouchedRest DEF StartAnchor
<1>5. At("anchor", s, "sign") => Mined(s) \subseteq [seal : SealId, run : Slot] /\ r.seal \in SealId
  BY <1>0, <1>1 DEF At, Sound, Mined, RestTyped
<1>6. CASE Anchored(s) /\ blob = 0
  <2> DEFINE st == [store EXCEPT !.anchorTx = r.seal, !.status = "failed", !.failedStage = "anchor"]
  <2>1. st \in Store
    BY <1>0, <1>5, <1>6 DEF Anchored, Store, Status
  <2>2. /\ store' = st /\ runs' = Rendered(st, With("anchor", s, NoRun))
        /\ anchors' = Mined(s) /\ At("anchor", s, "sign")
        /\ UNCHANGED <<blob, account, resets, passed, sealedTo, delivered, count, answered, recorded>>
    BY <1>6 DEF Anchored
  <2>3. RestTyped'
    BY <1>0, <1>5, <2>2 DEF RestTyped
  <2> HIDE DEF st
  <2> QED
    BY <1>0, <1>2, <2>1, <2>2, <2>3, ReplacedRun
<1>7. CASE Anchored(s) /\ blob # 0
  <2> DEFINE st == [store EXCEPT !.anchorTx = r.seal]
             n == [r EXCEPT !.pc = "deliver", !.seal = blob]
  <2>1. st \in Store
    BY <1>0, <1>5, <1>7 DEF Anchored, Store
  <2>2. n \in Run /\ Sound("anchor", n)
    BY <1>1, <1>3, <1>7 DEF Run, Sound
  <2>3. /\ store' = st /\ runs' = Rendered(st, With("anchor", s, n))
        /\ anchors' = Mined(s) /\ At("anchor", s, "sign")
        /\ UNCHANGED <<blob, account, resets, passed, sealedTo, delivered, count, answered, recorded>>
    BY <1>7 DEF Anchored
  <2>4. RestTyped'
    BY <1>0, <1>5, <2>3 DEF RestTyped
  <2> HIDE DEF st, n
  <2> QED
    BY <1>0, <2>1, <2>2, <2>3, <2>4, ReplacedRun
<1>8. CASE AnchorFails(s)
  <2>1. store' \in Store
    BY <1>0, <1>8 DEF AnchorFails, failed, Store, Status
  <2>2. anchors' \subseteq [seal : SealId, run : Slot] /\ delivered' \subseteq SealId
    BY <1>0, <1>1, <1>5, <1>8 DEF AnchorFails, At, Sound, RestTyped
  <2>3. RestTyped'
    BY <1>0, <1>8, <2>2 DEF AnchorFails, RestTyped
  <2> QED
    BY <1>0, <1>2, <1>8, <2>1, <2>3, ReplacedRun DEF AnchorFails
<1>9. CASE Delivered(s)
  <2>1. r.seal \in SealId
    BY <1>1, <1>9 DEF Delivered, At, Sound
  <2>2. store' \in Store
    BY <1>0, <2>1, <1>9 DEF Delivered, Store, Status
  <2>3. RestTyped'
    BY <1>0, <1>9, <2>1 DEF Delivered, RestTyped
  <2> QED
    BY <1>0, <1>2, <1>9, <2>2, <2>3, ReplacedRun DEF Delivered
<1> QED
  BY <1>4, <1>6, <1>7, <1>8, <1>9 DEF AnchorNext

LEMMA ProcessingTyped ==
  ASSUME TypeInv, NEW s \in Slot, ProcessingNext(s) PROVE TypeInv'
<1>0. store \in Store /\ RunsTyped /\ RestTyped /\ "processing" \in Stage
  BY TypeParts DEF Stage
<1> SUFFICES store' \in Store /\ RunsTyped' /\ RestTyped'
  BY TypeParts
<1> DEFINE r == runs["processing"][s]
<1>1. r \in Run
  BY <1>0 DEF RunsTyped
<1>2. \A n : Sound("processing", n)
  BY DEF Sound
<1>3. count \in 0..MaxCount
  BY <1>0 DEF RestTyped
<1> USE DEF Writes, Ended
<1>4. CASE StartProcessing(s)
  <2> DEFINE n == [NoRun EXCEPT !.pc = "baseline", !.mounted = TRUE, !.began = count]
  <2>1. n \in Run
    BY <1>3, NoRunIsRun DEF Run
  <2> QED
    BY <1>0, <1>2, <1>4, <2>1, UnrenderedRun, UntouchedRest DEF StartProcessing
<1>5. CASE Baseline(s)
  <2>1. PICK before \in {count, -1} : Watches(s, before)
    BY <1>5 DEF Baseline
  <2> DEFINE n == [r EXCEPT !.pc = "poll", !.before = before]
  <2>2. before \in -1..MaxCount
    BY <1>3, PipelineAssumption
  <2>3. n \in Run
    BY <1>1, <2>2 DEF Run
  <2>4. store' \in Store
    BY <1>0, <2>1 DEF Watches, Store
  <2> QED
    BY <1>0, <1>2, <1>5, <2>1, <2>3, <2>4, ReplacedRun, UntouchedRest DEF Watches, Baseline
<1>6. CASE Landed(s)
  <2> DEFINE n == [r EXCEPT !.pc = "record"]
  <2>1. n \in Run
    BY <1>1 DEF Run
  <2>2. store' \in Store
    BY <1>0, <1>6 DEF Landed, Moved, Store
  <2>3. RestTyped'
    BY <1>0, <1>6 DEF Landed, RestTyped, worldVars
  <2> QED
    BY <1>0, <1>2, <1>6, <2>1, <2>2, <2>3, ReplacedRun DEF Landed, Moved
<1>7. CASE setAttestation(s)
  <2>1. store' \in Store
    BY <1>0, <1>7 DEF setAttestation, Store, Status
  <2> QED
    BY <1>0, <1>2, <1>7, <2>1, NoRunIsRun, ReplacedRun, UntouchedRest DEF setAttestation
<1>8. CASE ProcessingFails(s)
  <2>1. store' \in Store
    BY <1>0, <1>8 DEF ProcessingFails, failed, Store, Status
  <2> QED
    BY <1>0, <1>2, <1>8, <2>1, NoRunIsRun, ReplacedRun, UntouchedRest DEF ProcessingFails
<1> QED
  BY <1>4, <1>5, <1>6, <1>7, <1>8 DEF ProcessingNext

\* The page's own buttons, the wallet extension and the world outside.
LEMMA PageTyped ==
  ASSUME TypeInv,
         \/ \E a \in Address : Connect(a)
         \/ RetryVerify \/ StartOver \/ Reset
  PROVE  TypeInv'
<1>0. store \in Store /\ RunsTyped /\ RestTyped
  BY TypeParts
<1>1. ASSUME store' \in Store, RestTyped', runs' = Rendered(store', runs) PROVE TypeInv'
  BY <1>0, <1>1, RenderedOnly, TypeParts
<1> USE DEF Writes
<1>2. initialState \in Store
  BY DEF initialState, Store, Status
<1>3. ASSUME NEW a \in Address, Connect(a) PROVE TypeInv'
  <2>1. store' \in Store
    BY <1>2, <1>3 DEF Connect, Store
  <2>2. RestTyped'
    BY <1>0, <1>3 DEF Connect, RestTyped
  <2> QED
    BY <1>1, <1>3, <2>1, <2>2 DEF Connect
<1>4. CASE RetryVerify
  <2>1. store' \in Store
    BY <1>0, <1>4 DEF RetryVerify, Store, Status
  <2> QED
    BY <1>0, <1>1, <1>4, <2>1, UntouchedRest DEF RetryVerify
<1>5. CASE StartOver
  <2>1. store' \in Store
    BY <1>0, <1>5 DEF StartOver, Store, Status
  <2> QED
    BY <1>0, <1>1, <1>5, <2>1, UntouchedRest DEF StartOver
<1>6. CASE Reset
  <2>1. store' \in Store
    BY <1>0, <1>2, <1>6 DEF Reset, Store
  <2>2. RestTyped'
    BY <1>0, <1>6, PipelineAssumption DEF Reset, RestTyped
  <2> QED
    BY <1>1, <1>6, <2>1, <2>2 DEF Reset
<1> QED
  BY <1>3, <1>4, <1>5, <1>6

LEMMA WorldTyped ==
  ASSUME TypeInv,
         \/ \E a \in Address \cup {NoAddress} : SwitchAccount(a)
         \/ \E k \in SealId : EnclaveAttests(k)
         \/ EnclaveServesAnother \/ AttestationWritten \/ UNCHANGED vars
  PROVE  TypeInv'
<1>0. store \in Store /\ RunsTyped /\ RestTyped
  BY TypeParts
<1>1. store' = store /\ runs' = runs
  BY DEF SwitchAccount, EnclaveAttests, EnclaveServesAnother, AttestationWritten, vars
<1>2. ASSUME RestTyped' PROVE TypeInv'
  BY <1>0, <1>1, <1>2, TypeParts DEF RunsTyped
<1>3. ASSUME NEW a \in Address \cup {NoAddress}, SwitchAccount(a) PROVE RestTyped'
  BY <1>0, <1>3 DEF SwitchAccount, RestTyped
<1>4. ASSUME NEW k \in SealId, EnclaveAttests(k) PROVE RestTyped'
  BY <1>0, <1>4, PipelineAssumption DEF EnclaveAttests, RestTyped
<1>5. CASE EnclaveServesAnother
  BY <1>0, <1>2, <1>5, PipelineAssumption DEF EnclaveServesAnother, RestTyped
<1>6. CASE AttestationWritten
  BY <1>0, <1>2, <1>6 DEF AttestationWritten, RestTyped
<1>7. CASE UNCHANGED vars
  BY <1>0, <1>2, <1>7, UntouchedRest DEF vars
<1> QED
  BY <1>2, <1>3, <1>4, <1>5, <1>6, <1>7

LEMMA TypePreserved == TypeInv /\ [Next]_vars => TypeInv'
BY VerifyTyped, SealTyped, AnchorTyped, ProcessingTyped, PageTyped, WorldTyped DEF Next

\* The pipeline store, every run of every stage and the record of what reached
\* the chain and the enclave stay typed, whatever the runs do after a reset.
THEOREM PipelineStaysTyped == Spec => []TypeOK
<1>1. TypeInv => TypeOK
  BY DEF TypeInv
<1> QED
  BY <1>1, TypeInit, TypePreserved, PTL DEF Spec

-----------------------------------------------------------------------------
(* A hash is anchored once.                                                *)

Sealed == {j \in SealId : sealedTo[j] # NoQuote}
Animating(s, k) == At("seal", s, "scramble") /\ runs["seal"][s].seal = k
Signing(s, k) == At("anchor", s, "sign") /\ runs["anchor"][s].seal = k

\* Nothing happens before an account is connected.
WalletFirst ==
  store.wallet = NoAddress =>
    /\ store.status = "idle"
    /\ \A stage \in Stage, s \in Slot : At(stage, s, "none")

\* Requests are numbered as they are sealed, and what the page goes on with was
\* sealed.
InOrder ==
  /\ Sealed = 1..Cardinality(Sealed)
  /\ store.seal \in Sealed \cup {0}
  /\ \A tx \in anchors : tx.seal \in Sealed
  /\ \A s \in Slot : \A k \in SealId : Animating(s, k) \/ Signing(s, k) => k \in Sealed

\* A request still being animated is nowhere else.
Unused ==
  \A s \in Slot : \A k \in SealId : Animating(s, k) =>
    /\ store.seal # k
    /\ \A t \in Slot : ~Signing(t, k) /\ (Animating(t, k) => t = s)
    /\ \A tx \in anchors : tx.seal # k

\* While the anchor stage may start a run, the request it would anchor is not
\* in the hands of a run that the stage has forgotten, and not on the chain.
Spent ==
  store.status = "anchoring" =>
    /\ \A s \in Slot : Signing(s, store.seal) => runs["anchor"][s].mounted
    /\ store.anchorTx = 0 => \A tx \in anchors : tx.seal # store.seal

\* A request is in the hands of one run, or on the chain in one transaction.
Once ==
  /\ \A s, t \in Slot : \A k \in SealId : Signing(s, k) /\ Signing(t, k) => s = t
  /\ \A tx \in anchors : \A s \in Slot : ~Signing(s, tx.seal)
  /\ \A tx, ty \in anchors : tx.seal = ty.seal => tx = ty

OnceInv == WalletFirst /\ InOrder /\ Unused /\ Spent /\ Once

\* The step started no animation and no signature, and the anchor stage keeps
\* the runs it knows while it stays mounted.
QuietRuns ==
  \A s \in Slot : \A k \in SealId :
    /\ Animating(s, k)' => Animating(s, k)
    /\ Signing(s, k)' =>
         /\ Signing(s, k)
         /\ "anchor" \in MountedIn(store') /\ runs["anchor"][s].mounted
              => runs'["anchor"][s].mounted

LEMMA ReplacedIsQuiet ==
  ASSUME RunsTyped, NEW stage \in Stage, NEW s \in Slot, NEW run \in Run,
         run.pc \notin {"scramble", "sign"},
         runs' = Rendered(store', With(stage, s, run)) \/ runs' = With(stage, s, run)
  PROVE  QuietRuns
<1> DEFINE next == With(stage, s, run)
<1>1. /\ next \in [Stage -> [Slot -> Run]]
      /\ next[stage][s] = run
      /\ \A t \in Stage, u \in Slot : t # stage \/ u # s => next[t][u] = runs[t][u]
  BY DEF With, RunsTyped
<1> HIDE DEF next
<1>2. CASE runs' = Rendered(store', next)
  <2>1. \A t \in Stage, u \in Slot : Remains(runs'[t][u], next[t][u], t, store')
    BY <1>1, <1>2, RenderedRuns
  <2> QED
    BY <1>1, <2>1 DEF QuietRuns, Animating, Signing, At, Remains, Stage
<1>3. CASE runs' = next
  BY <1>1, <1>3 DEF QuietRuns, Animating, Signing, At, Stage
<1> QED
  BY <1>2, <1>3 DEF next

LEMMA RenderedIsQuiet ==
  ASSUME RunsTyped, runs' = Rendered(store', runs) \/ runs' = runs
  PROVE  QuietRuns
<1>1. CASE runs' = Rendered(store', runs)
  <2>1. \A t \in Stage, u \in Slot : Remains(runs'[t][u], runs[t][u], t, store')
    BY <1>1, RenderedOnly
  <2> QED
    BY <2>1 DEF QuietRuns, Animating, Signing, At, Remains, Stage
<1>2. CASE runs' = runs
  BY <1>2 DEF QuietRuns, Animating, Signing, At
<1> QED
  BY <1>1, <1>2

\* The step sealed nothing, anchored nothing, and left the anchor stage where
\* it was or stopped it.
Quiet ==
  /\ QuietRuns
  /\ UNCHANGED <<sealedTo, anchors>>
  /\ store'.seal \in {store.seal, 0}
  /\ store'.status = "anchoring" =>
       /\ store.status = "anchoring" /\ store'.seal = store.seal
       /\ store'.anchorTx = 0 => store.anchorTx = 0

LEMMA AnchorMounted ==
  ASSUME WalletFirst', store'.status = "anchoring"
  PROVE  "anchor" \in MountedIn(store')
BY DEF WalletFirst, MountedIn, activeStage, Stage

LEMMA SealedPrimed == Sealed' = {j \in SealId : sealedTo'[j] # NoQuote}
BY DEF Sealed

LEMMA QuietKeeps ==
  ASSUME TypeInv, TypeInv', OnceInv, WalletFirst', Quiet PROVE OnceInv'
<1>1. anchors \subseteq [seal : SealId, run : Slot] /\ store \in Store
  BY TypeParts DEF RestTyped
<1>2. Sealed' = Sealed /\ anchors' = anchors
  BY DEF Sealed, Quiet
<1>3. InOrder'
  <2>1. (Sealed = 1..Cardinality(Sealed))'
    BY <1>2 DEF OnceInv, InOrder
  <2> QED
    BY <1>2, <2>1 DEF OnceInv, InOrder, Quiet, QuietRuns
<1>4. Unused'
  <2>1. \A s \in Slot : \A k \in SealId : Animating(s, k)' => Animating(s, k) /\ k # 0
    BY DEF Quiet, QuietRuns, SealId
  <2>2. \A s \in Slot : \A k \in SealId : Signing(s, k)' => Signing(s, k)
    BY DEF Quiet, QuietRuns
  <2> QED
    BY <1>2, <2>1, <2>2 DEF OnceInv, Unused, Quiet
<1>5. Spent'
  <2> SUFFICES ASSUME store'.status = "anchoring" PROVE Spent'
    BY DEF Spent
  <2>1. "anchor" \in MountedIn(store')
    BY AnchorMounted
  <2>2. /\ store.status = "anchoring" /\ store'.seal = store.seal
        /\ store'.anchorTx = 0 => store.anchorTx = 0
    BY DEF Quiet
  <2>3. ASSUME NEW s \in Slot, Signing(s, store.seal)' PROVE runs'["anchor"][s].mounted
    <3>1. store.seal \in SealId
      BY <2>2, <2>3, TypeParts DEF Signing, At, RunsTyped, Sound, Stage
    <3>2. Signing(s, store.seal)'
      BY <2>3
    <3>3. /\ Signing(s, store.seal)
          /\ runs["anchor"][s].mounted => runs'["anchor"][s].mounted
      BY <2>1, <2>2, <3>1, <3>2 DEF Quiet, QuietRuns, Signing
    <3> QED
      BY <2>2, <3>3 DEF OnceInv, Spent
  <2> QED
    BY <1>2, <2>2, <2>3 DEF OnceInv, Spent
<1>6. Once'
  <2>1. \A s \in Slot : \A k \in SealId : Signing(s, k)' => Signing(s, k)
    BY DEF Quiet, QuietRuns
  <2> QED
    BY <1>1, <1>2, <2>1 DEF OnceInv, Once
<1> QED
  BY <1>3, <1>4, <1>5, <1>6 DEF OnceInv

\* The step took the signing run s out of the wallet's hands: its hash is mined.
Mines(s) ==
  /\ At("anchor", s, "sign")
  /\ anchors' = Mined(s)
  /\ UNCHANGED sealedTo
  /\ store'.seal = store.seal
  /\ store'.status = "anchoring" => store.status = "anchoring" /\ store'.anchorTx # 0
  /\ QuietRuns
  /\ runs'["anchor"][s].pc # "sign"

LEMMA MiningKeeps ==
  ASSUME TypeInv, TypeInv', OnceInv, WalletFirst', NEW s \in Slot, Mines(s) PROVE OnceInv'
<1>1. PICK k \in SealId : k = runs["anchor"][s].seal /\ Signing(s, k)
  BY TypeParts DEF Mines, Signing, At, RunsTyped, Sound, Stage
<1>2. Sealed' = Sealed /\ anchors' = anchors \cup {[seal |-> k, run |-> s]}
  BY <1>1 DEF Sealed, Mines, Mined
<1>3. \A j \in SealId : ~Signing(s, j)'
  BY DEF Mines, Signing, At
<1>a. \A t \in Slot : \A j \in SealId : Signing(t, j)' => Signing(t, j) /\ j # k
  BY <1>1, <1>3 DEF Mines, QuietRuns, OnceInv, Once
<1>b. \A t \in Slot : \A j \in SealId : Animating(t, j)' => Animating(t, j) /\ j # k
  BY <1>1 DEF Mines, QuietRuns, OnceInv, Unused
<1>c. anchors \subseteq [seal : SealId, run : Slot] /\ \A tx \in anchors : tx.seal # k
  BY <1>1, TypeParts DEF RestTyped, OnceInv, Once
<1>d. \A tx \in anchors' : tx \in anchors \/ (tx.seal = k /\ tx = [seal |-> k, run |-> s])
  BY <1>2
<1>4. InOrder'
  <2>1. (Sealed = 1..Cardinality(Sealed))'
    BY <1>2 DEF OnceInv, InOrder
  <2>2. k \in Sealed
    BY <1>1 DEF OnceInv, InOrder
  <2>3. store'.seal \in Sealed \cup {0}
    BY DEF Mines, OnceInv, InOrder
  <2>4. \A tx \in anchors' : tx.seal \in Sealed
    BY <1>d, <2>2 DEF OnceInv, InOrder
  <2> QED
    BY <1>2, <1>a, <1>b, <2>1, <2>3, <2>4 DEF OnceInv, InOrder
<1>5. Unused'
  BY <1>a, <1>b, <1>d DEF OnceInv, Unused, Mines
<1>6. Spent'
  <2> SUFFICES ASSUME store'.status = "anchoring" PROVE Spent'
    BY DEF Spent
  <2>1. "anchor" \in MountedIn(store')
    BY AnchorMounted
  <2>2. store.status = "anchoring" /\ store'.seal = store.seal /\ store'.anchorTx # 0
    BY DEF Mines
  <2>3. ASSUME NEW t \in Slot, Signing(t, store.seal)' PROVE runs'["anchor"][t].mounted
    <3>1. store.seal \in SealId
      BY <2>2, <2>3, TypeParts DEF Signing, At, RunsTyped, Sound, Stage
    <3>2. Signing(t, store.seal)'
      BY <2>3
    <3>3. /\ Signing(t, store.seal)
          /\ runs["anchor"][t].mounted => runs'["anchor"][t].mounted
      BY <2>1, <2>2, <3>1, <3>2 DEF Mines, QuietRuns, Signing
    <3> QED
      BY <2>2, <3>3 DEF OnceInv, Spent
  <2> QED
    BY <2>2, <2>3 DEF Spent
<1>7. Once'
  <2>1. \A t, u \in Slot : \A j \in SealId : Signing(t, j)' /\ Signing(u, j)' => t = u
    BY <1>a DEF OnceInv, Once
  <2>2. \A tx \in anchors' : \A t \in Slot : ~Signing(t, tx.seal)'
    <3> SUFFICES ASSUME NEW tx \in anchors', NEW t \in Slot, Signing(t, tx.seal)' PROVE FALSE
      OBVIOUS
    <3>1. tx.seal \in SealId
      BY <1>1, <1>c, <1>d
    <3> QED
      BY <1>a, <1>d, <3>1 DEF OnceInv, Once
  <2>3. \A tx, ty \in anchors' : tx.seal = ty.seal => tx = ty
    BY <1>c, <1>d DEF OnceInv, Once
  <2> QED
    BY <2>1, <2>2, <2>3 DEF Once
<1> QED
  BY <1>4, <1>5, <1>6, <1>7 DEF OnceInv

LEMMA WalletKept ==
  ASSUME TypeInv, WalletFirst, Next PROVE WalletFirst'
<1> SUFFICES ASSUME store'.wallet = NoAddress PROVE WalletFirst'
  BY DEF WalletFirst
<1> USE DEF Writes
<1>0. store \in Store /\ RunsTyped
  BY TypeParts
<1>1. \A a \in Address : ~Connect(a)
  BY PipelineAssumption, <1>0 DEF Connect, initialState
<1>2. ASSUME NEW s \in Slot, VerifyNext(s) \/ SealNext(s) \/ AnchorNext(s) \/ ProcessingNext(s)
      PROVE  FALSE
  <2>1. store'.wallet = store.wallet
    BY <1>0, <1>2 DEF VerifyNext, SealNext, AnchorNext, ProcessingNext, StartVerify, QuoteFetched,
       QuoteMalformed, SignatureChecked, VerifyFails, finishVerify, Submit, Encrypted, SealFails,
       Scrambled, StartAnchor, Anchored, AnchorFails, Delivered, StartProcessing, Baseline, Watches,
       Landed, Moved, setAttestation, ProcessingFails, failed, Store
  <2>2. /\ store.wallet = NoAddress /\ store.status = "idle"
        /\ \A stage \in Stage, t \in Slot : At(stage, t, "none")
    BY <2>1 DEF WalletFirst
  <2>3. /\ runs["verify"][s].pc = "none" /\ runs["seal"][s].pc = "none"
        /\ runs["anchor"][s].pc = "none" /\ runs["processing"][s].pc = "none"
    BY <2>2 DEF At, Stage
  <2>4. ~Mounted("verify") /\ ~Mounted("seal") /\ ~Mounted("anchor") /\ ~Mounted("processing")
    BY <2>2 DEF Mounted, MountedIn, activeStage
  <2> QED
    BY <1>2, <2>3, <2>4 DEF VerifyNext, SealNext, AnchorNext, ProcessingNext, StartVerify,
       QuoteFetched, QuoteMalformed, SignatureChecked, VerifyFails, finishVerify, Submit, Encrypted,
       SealFails, Scrambled, StartAnchor, Anchoring, Anchored, AnchorFails, Delivered,
       StartProcessing, Baseline, Landed, Moved, setAttestation, ProcessingFails, At
<1>3. store.wallet = NoAddress => ~RetryVerify /\ ~StartOver
  BY DEF WalletFirst, RetryVerify, StartOver
<1>4. CASE RetryVerify \/ StartOver
  BY <1>0, <1>3, <1>4 DEF RetryVerify, StartOver, Store
<1>5. CASE Reset
  <2>1. store.wallet = NoAddress /\ store'.status = "idle"
    BY <1>5 DEF Reset, initialState
  <2>2. \A t \in Stage, u \in Slot : Remains(runs'[t][u], runs[t][u], t, store')
    BY <1>0, <1>5, RenderedOnly DEF Reset
  <2> QED
    BY <2>1, <2>2 DEF WalletFirst, Remains, At
<1>6. CASE UNCHANGED <<store, runs>>
  BY <1>6 DEF WalletFirst, At
<1> QED
  BY <1>1, <1>2, <1>4, <1>5, <1>6 DEF Next, SwitchAccount, EnclaveAttests, EnclaveServesAnother,
     AttestationWritten

\* Steps that leave the sealed requests alone.
LEMMA VerifyIsQuiet ==
  ASSUME TypeInv, NEW s \in Slot, VerifyNext(s) PROVE Quiet
<1>0. store \in Store /\ RunsTyped /\ "verify" \in Stage
  BY TypeParts DEF Stage
<1> DEFINE r == runs["verify"][s]
<1>1. r \in Run
  BY <1>0 DEF RunsTyped
<1> USE <1>0 DEF Writes, Ended, Quiet, worldVars
<1>2. CASE StartVerify(s)
  <2> DEFINE n == [NoRun EXCEPT !.pc = "quote", !.mounted = TRUE]
  <2>1. n \in Run /\ n.pc = "quote"
    BY NoRunIsRun DEF Run
  <2> QED
    BY <1>2, <2>1, ReplacedIsQuiet DEF StartVerify, Store
<1>3. ASSUME NEW q \in Quote, QuoteFetched(s, q) PROVE Quiet
  <2> DEFINE n == [r EXCEPT !.pc = "signature", !.quote = q]
  <2>1. n \in Run /\ n.pc = "signature"
    BY <1>1 DEF Run
  <2> QED
    BY <1>3, <2>1, ReplacedIsQuiet DEF QuoteFetched, Store
<1>4. NoRun \in Run /\ NoRun.pc = "none"
  BY NoRunIsRun DEF NoRun
<1>5. ASSUME NEW q \in Quote, QuoteMalformed(s, q) PROVE Quiet
  BY <1>4, <1>5, ReplacedIsQuiet DEF QuoteMalformed, Store
<1>6. CASE SignatureChecked(s)
  <2> DEFINE n == [r EXCEPT !.pc = "whitelist"]
  <2>1. n \in Run /\ n.pc = "whitelist"
    BY <1>1 DEF Run
  <2> QED
    BY <1>6, <2>1, ReplacedIsQuiet DEF SignatureChecked
<1>7. CASE VerifyFails(s)
  BY <1>4, <1>7, ReplacedIsQuiet DEF VerifyFails, failed, Store
<1>8. CASE finishVerify(s)
  BY <1>4, <1>8, ReplacedIsQuiet DEF finishVerify, Store
<1> QED
  BY <1>2, <1>3, <1>5, <1>6, <1>7, <1>8 DEF VerifyNext

LEMMA SealIsQuiet ==
  ASSUME TypeInv, NEW s \in Slot, Submit(s) \/ SealFails(s) PROVE Quiet
<1>0. store \in Store /\ RunsTyped /\ "seal" \in Stage
  BY TypeParts DEF Stage
<1> USE <1>0 DEF Writes, Ended, Quiet, worldVars
<1>1. CASE Submit(s)
  <2> DEFINE n == [NoRun EXCEPT !.pc = "encrypt", !.mounted = TRUE, !.quote = store.quote]
  <2>1. n \in Run /\ n.pc = "encrypt"
    BY NoRunIsRun DEF Run, Store
  <2> QED
    BY <1>1, <2>1, ReplacedIsQuiet DEF Submit, Store
<1>2. CASE SealFails(s)
  BY <1>2, NoRunIsRun, ReplacedIsQuiet DEF SealFails, failed, Store, NoRun
<1> QED
  BY <1>1, <1>2

LEMMA ProcessingIsQuiet ==
  ASSUME TypeInv, NEW s \in Slot, ProcessingNext(s) PROVE Quiet
<1>0. store \in Store /\ RunsTyped /\ RestTyped /\ "processing" \in Stage
  BY TypeParts DEF Stage
<1> DEFINE r == runs["processing"][s]
<1>1. r \in Run /\ count \in 0..MaxCount
  BY <1>0 DEF RunsTyped, RestTyped
<1> USE <1>0 DEF Writes, Ended, Quiet, worldVars
<1>2. CASE StartProcessing(s)
  <2> DEFINE n == [NoRun EXCEPT !.pc = "baseline", !.mounted = TRUE, !.began = count]
  <2>1. n \in Run /\ n.pc = "baseline"
    BY <1>1, NoRunIsRun DEF Run
  <2> QED
    BY <1>2, <2>1, ReplacedIsQuiet DEF StartProcessing
<1>3. CASE Baseline(s)
  <2>1. PICK before \in {count, -1} : Watches(s, before)
    BY <1>3 DEF Baseline
  <2> DEFINE n == [r EXCEPT !.pc = "poll", !.before = before]
  <2>2. before \in -1..MaxCount
    BY <1>1, PipelineAssumption
  <2>3. n \in Run /\ n.pc = "poll"
    BY <1>1, <2>2 DEF Run
  <2> QED
    BY <1>3, <2>1, <2>3, ReplacedIsQuiet DEF Watches, Baseline, Store
<1>4. CASE Landed(s)
  <2> DEFINE n == [r EXCEPT !.pc = "record"]
  <2>1. n \in Run /\ n.pc = "record"
    BY <1>1 DEF Run
  <2> QED
    BY <1>4, <2>1, ReplacedIsQuiet DEF Landed, Moved, Store
<1>5. NoRun \in Run /\ NoRun.pc = "none"
  BY NoRunIsRun DEF NoRun
<1>6. CASE setAttestation(s)
  BY <1>5, <1>6, ReplacedIsQuiet DEF setAttestation, Store
<1>7. CASE ProcessingFails(s)
  BY <1>5, <1>7, ReplacedIsQuiet DEF ProcessingFails, failed, Store
<1> QED
  BY <1>2, <1>3, <1>4, <1>6, <1>7 DEF ProcessingNext

LEMMA PageIsQuiet ==
  ASSUME TypeInv, RetryVerify \/ StartOver \/ Reset \/ \E a \in Address : Connect(a)
  PROVE  Quiet
<1>0. store \in Store /\ RunsTyped
  BY TypeParts
<1> USE <1>0 DEF Writes, Quiet, worldVars
<1>1. CASE RetryVerify \/ StartOver
  BY <1>1, RenderedIsQuiet DEF RetryVerify, StartOver, Store
<1>2. CASE Reset
  BY <1>2, RenderedIsQuiet DEF Reset, initialState
<1>3. ASSUME NEW a \in Address, Connect(a) PROVE Quiet
  BY <1>3, RenderedIsQuiet DEF Connect, initialState
<1> QED
  BY <1>1, <1>2, <1>3

LEMMA WorldIsQuiet ==
  ASSUME TypeInv, UNCHANGED <<store, runs, sealedTo, anchors>> PROVE Quiet
BY TypeParts, RenderedIsQuiet DEF Quiet

\* The anchor stage: a run that ends without a transaction is quiet, the others
\* mine the hash they hold.
LEMMA AnchorEnds ==
  ASSUME TypeInv, NEW s \in Slot, Anchored(s) \/ AnchorFails(s) \/ Delivered(s)
  PROVE  Quiet \/ Mines(s)
<1>0. store \in Store /\ RunsTyped /\ RestTyped /\ "anchor" \in Stage
  BY TypeParts DEF Stage
<1> DEFINE r == runs["anchor"][s]
<1>1. r \in Run /\ (r.pc = "sign" => r.seal \in SealId)
  BY <1>0 DEF RunsTyped, Sound
<1>2. NoRun \in Run /\ NoRun.pc = "none"
  BY NoRunIsRun DEF NoRun
<1> USE <1>0 DEF Writes, Ended
<1>3. ASSUME NEW run \in Run, run.pc \in {"none", "deliver"},
             runs' = Rendered(store', With("anchor", s, run))
      PROVE  QuietRuns /\ runs'["anchor"][s].pc # "sign"
  <2> DEFINE next == With("anchor", s, run)
  <2>1. next \in [Stage -> [Slot -> Run]] /\ next["anchor"][s] = run
    BY DEF With, RunsTyped
  <2> HIDE DEF next
  <2>2. Remains(runs'["anchor"][s], next["anchor"][s], "anchor", store')
    BY <1>3, <2>1, RenderedRuns DEF next
  <2> QED
    BY <1>3, <2>1, <2>2, ReplacedIsQuiet DEF Remains
<1>4. CASE Anchored(s) /\ blob = 0
  BY <1>2, <1>3, <1>4 DEF Anchored, Mines, Store
<1>5. CASE Anchored(s) /\ blob # 0
  <2> DEFINE n == [r EXCEPT !.pc = "deliver", !.seal = blob]
  <2>1. n \in Run /\ n.pc = "deliver"
    BY <1>1 DEF Run, RestTyped
  <2>2. r.seal # 0
    BY <1>1, <1>5 DEF Anchored, At, SealId
  <2>3. QuietRuns /\ runs'["anchor"][s].pc # "sign"
    BY <1>3, <1>5, <2>1 DEF Anchored
  <2> QED
    BY <1>5, <2>2, <2>3 DEF Anchored, Mines, Store
<1>6. CASE AnchorFails(s)
  <2>1. /\ QuietRuns /\ runs'["anchor"][s].pc # "sign"
        /\ store'.seal = store.seal /\ store'.status = "failed"
        /\ UNCHANGED sealedTo
    BY <1>2, <1>3, <1>6 DEF AnchorFails, failed, Store
  <2> QED
    BY <1>6, <2>1 DEF AnchorFails, Quiet, Mines
<1>7. CASE Delivered(s)
  BY <1>2, <1>3, <1>7 DEF Delivered, Quiet, Store
<1> QED
  BY <1>4, <1>5, <1>6, <1>7

\* A run starts with a hash that no other run holds and nothing has anchored.
LEMMA StartKeeps ==
  ASSUME TypeInv, TypeInv', OnceInv, WalletFirst', NEW s \in Slot, StartAnchor(s)
  PROVE  OnceInv'
<1>0. store \in Store /\ RunsTyped /\ RestTyped /\ "anchor" \in Stage
  BY TypeParts DEF Stage
<1>1. /\ store.status = "anchoring" /\ store.anchorTx = 0 /\ store.seal \in SealId
      /\ At("anchor", s, "none") /\ \A t \in Slot : ~runs["anchor"][t].mounted
      /\ runs' = With("anchor", s, AnchorRun)
      /\ UNCHANGED <<store, sealedTo, anchors>>
  BY <1>0 DEF StartAnchor, Anchoring, Busy, Store, worldVars
<1>2. AnchorRun \in Run /\ AnchorRun.pc = "sign" /\ AnchorRun.seal = store.seal /\ AnchorRun.mounted
  BY <1>0, <1>1, NoRunIsRun DEF AnchorRun, Run, RestTyped
<1>3. /\ runs'["anchor"][s] = AnchorRun
      /\ \A t \in Slot : t # s => runs'["anchor"][t] = runs["anchor"][t]
      /\ \A t \in Slot : runs'["seal"][t] = runs["seal"][t]
  BY <1>0, <1>1 DEF With, RunsTyped, Stage
<1>4. \A t \in Slot : ~Signing(t, store.seal)
  BY <1>1 DEF OnceInv, Spent
<1>5. \A tx \in anchors : tx.seal # store.seal
  BY <1>1 DEF OnceInv, Spent
<1>6. \A t \in Slot : \A k \in SealId :
        Signing(t, k)' <=> (IF t = s THEN k = store.seal ELSE Signing(t, k))
  BY <1>2, <1>3 DEF Signing, At
<1>7. \A t \in Slot : \A k \in SealId : Animating(t, k)' <=> Animating(t, k)
  BY <1>3 DEF Animating, At
<1>8. Sealed' = Sealed /\ store.seal \in Sealed
  BY <1>0, <1>1 DEF Sealed, OnceInv, InOrder, SealId
<1>9. InOrder'
  <2>1. (Sealed = 1..Cardinality(Sealed))'
    BY <1>8 DEF OnceInv, InOrder
  <2> QED
    BY <1>1, <1>6, <1>7, <1>8, <2>1 DEF OnceInv, InOrder
<1>10. Unused'
  BY <1>1, <1>6, <1>7 DEF OnceInv, Unused
<1>11. Spent'
  <2>1. \A t \in Slot : Signing(t, store.seal)' => runs'["anchor"][t].mounted
    BY <1>1, <1>2, <1>3, <1>4, <1>6 DEF Signing, At
  <2> QED
    BY <1>1, <1>5, <2>1 DEF Spent
<1>12. Once'
  <2>1. \A tx \in anchors : tx.seal \in SealId
    BY <1>0 DEF RestTyped
  <2>2. \A t, u \in Slot : \A k \in SealId : Signing(t, k)' /\ Signing(u, k)' => t = u
    BY <1>4, <1>6 DEF OnceInv, Once
  <2>3. \A tx \in anchors' : \A t \in Slot : ~Signing(t, tx.seal)'
    BY <1>1, <1>5, <1>6, <2>1 DEF OnceInv, Once
  <2> QED
    BY <1>1, <2>2, <2>3 DEF OnceInv, Once
<1> QED
  BY <1>9, <1>10, <1>11, <1>12 DEF OnceInv

\* A new request is in nobody's hands.
LEMMA SealedNext ==
  ASSUME TypeInv, OnceInv, NEW s \in Slot, Encrypted(s)
  PROVE  \E k \in SealId :
           /\ Cardinality(Sealed) \in Nat /\ k = Cardinality(Sealed) + 1 /\ k \notin Sealed
           /\ Sealed' = Sealed \cup {k} /\ Cardinality(Sealed') = k
           /\ runs' = With("seal", s, [runs["seal"][s] EXCEPT !.pc = "scramble", !.seal = k])
           /\ runs["seal"][s].pc = "encrypt"
           /\ UNCHANGED <<store, anchors>>
           /\ blob' = k /\ sealedTo' = [sealedTo EXCEPT ![k] = runs["seal"][s].quote]
<1> DEFINE c == Cardinality(Sealed)
           k == c + 1
<1>0. RunsTyped /\ RestTyped /\ "seal" \in Stage
  BY TypeParts DEF Stage
<1>1. c \in Nat
  <2>1. IsFiniteSet(SealId)
    BY FS_Interval, PipelineAssumption DEF SealId
  <2> QED
    BY <2>1, FS_Subset, FS_CardinalityType DEF Sealed
<1>2. /\ k <= MaxSeals /\ blob' = k
      /\ sealedTo' = [sealedTo EXCEPT ![k] = runs["seal"][s].quote]
      /\ runs' = With("seal", s, [runs["seal"][s] EXCEPT !.pc = "scramble", !.seal = k])
      /\ runs["seal"][s].pc = "encrypt"
      /\ UNCHANGED <<store, anchors>>
  BY DEF Encrypted, At, Sealed
<1>3. Sealed = 1..c
  BY DEF OnceInv, InOrder
<1> HIDE DEF c
<1>4. k \in SealId /\ k \notin Sealed
  BY <1>1, <1>2, <1>3, PipelineAssumption DEF SealId
<1>5. runs["seal"][s].quote # NoQuote
  BY <1>0, <1>2, PipelineAssumption DEF RunsTyped, Sound
<1>6. Sealed' = Sealed \cup {k}
  BY <1>0, <1>2, <1>4, <1>5 DEF Sealed, RestTyped
<1>7. Sealed' = 1..k
  BY <1>1, <1>3, <1>6
<1>8. Cardinality(Sealed') = k
  BY <1>1, <1>7, FS_Interval
<1> QED
  BY <1>1, <1>2, <1>4, <1>6, <1>8 DEF c

LEMMA EncryptKeeps ==
  ASSUME TypeInv, OnceInv, WalletFirst', NEW s \in Slot, Encrypted(s) PROVE OnceInv'
<1>0. RunsTyped /\ RestTyped /\ "seal" \in Stage
  BY TypeParts DEF Stage
<1>1. PICK k \in SealId :
           /\ Cardinality(Sealed) \in Nat /\ k = Cardinality(Sealed) + 1 /\ k \notin Sealed
           /\ Sealed' = Sealed \cup {k} /\ Cardinality(Sealed') = k
           /\ runs' = With("seal", s, [runs["seal"][s] EXCEPT !.pc = "scramble", !.seal = k])
           /\ runs["seal"][s].pc = "encrypt"
           /\ UNCHANGED <<store, anchors>>
  BY SealedNext
<1>2. /\ runs'["seal"][s] = [runs["seal"][s] EXCEPT !.pc = "scramble", !.seal = k]
      /\ \A t \in Slot : t # s => runs'["seal"][t] = runs["seal"][t]
      /\ \A t \in Slot : runs'["anchor"][t] = runs["anchor"][t]
  BY <1>0, <1>1 DEF With, RunsTyped, Stage
<1>3. runs["seal"][s] \in Run
  BY <1>0 DEF RunsTyped
<1>4. runs'["seal"][s].pc = "scramble" /\ runs'["seal"][s].seal = k
  BY <1>2, <1>3 DEF Run
<1>5. \A t \in Slot : \A j \in SealId :
        Animating(t, j)' <=> (IF t = s THEN j = k ELSE Animating(t, j))
  BY <1>2, <1>4 DEF Animating, At
<1>6. \A t \in Slot : \A j \in SealId : Signing(t, j)' <=> Signing(t, j)
  BY <1>2 DEF Signing, At
<1>7. \A t \in Slot : \A j \in SealId : Signing(t, j) \/ Animating(t, j) => j # k
  BY <1>1 DEF OnceInv, InOrder
<1>8. store.seal # k /\ \A tx \in anchors : tx.seal # k
  BY <1>1 DEF OnceInv, InOrder, SealId
<1>9. InOrder'
  <2>2. Sealed' = 1..k
    BY <1>1 DEF OnceInv, InOrder
  <2>3. (Sealed = 1..Cardinality(Sealed))'
    BY <1>1, <2>2
  <2> QED
    BY <1>1, <1>5, <1>6, <2>3 DEF OnceInv, InOrder
<1>10. Unused'
  BY <1>1, <1>5, <1>6, <1>7, <1>8 DEF OnceInv, Unused
<1>11. Spent'
  <2>1. \A t \in Slot : Signing(t, store.seal)' => Signing(t, store.seal)
    BY <1>1, <1>2 DEF Signing, At
  <2> QED
    BY <1>1, <1>2, <2>1 DEF OnceInv, Spent
<1>12. Once'
  <2>1. \A tx \in anchors : tx.seal \in SealId
    BY <1>0 DEF RestTyped
  <2> QED
    BY <1>1, <1>6, <2>1 DEF OnceInv, Once
<1> QED
  BY <1>9, <1>10, <1>11, <1>12 DEF OnceInv

\* The request leaves its animation for the anchor stage.
LEMMA ScrambleKeeps ==
  ASSUME TypeInv, TypeInv', OnceInv, WalletFirst', NEW s \in Slot, Scrambled(s) PROVE OnceInv'
<1>0. store \in Store /\ RunsTyped /\ RestTyped /\ "seal" \in Stage
  BY TypeParts DEF Stage
<1>1. PICK k \in SealId : k = runs["seal"][s].seal /\ Animating(s, k)
  BY <1>0 DEF Scrambled, Animating, At, RunsTyped, Sound
<1>2. store'.seal = k /\ store'.status = "anchoring" /\ Sealed' = Sealed /\ anchors' = anchors
  BY <1>0, <1>1 DEF Scrambled, Writes, worldVars, Sealed, Store
<1>3. QuietRuns
  BY <1>0, NoRunIsRun, ReplacedIsQuiet DEF Scrambled, Writes, Ended, NoRun
<1>4. ~At("seal", s, "scramble")'
  <2> DEFINE next == With("seal", s, NoRun)
  <2>1. next \in [Stage -> [Slot -> Run]] /\ next["seal"][s] = NoRun
    BY <1>0, NoRunIsRun DEF With, RunsTyped
  <2>2. runs' = Rendered(store', next)
    BY DEF Scrambled, Writes, Ended
  <2> HIDE DEF next
  <2>3. Remains(runs'["seal"][s], next["seal"][s], "seal", store')
    BY <1>0, <2>1, <2>2, RenderedRuns
  <2> QED
    BY <2>1, <2>3 DEF Remains, NoRun, At
<1>5. \A t \in Slot : \A j \in SealId : Animating(t, j)' => Animating(t, j) /\ j # k
  BY <1>1, <1>3, <1>4 DEF QuietRuns, OnceInv, Unused, Animating
<1>6. \A t \in Slot : \A j \in SealId : Signing(t, j)' => Signing(t, j)
  BY <1>3 DEF QuietRuns
<1>7. /\ \A t \in Slot : ~Signing(t, k)
      /\ \A tx \in anchors : tx.seal # k
  BY <1>1 DEF OnceInv, Unused
<1>8. InOrder'
  <2>1. (Sealed = 1..Cardinality(Sealed))'
    BY <1>2 DEF OnceInv, InOrder
  <2>2. k \in Sealed
    BY <1>1 DEF OnceInv, InOrder
  <2> QED
    BY <1>2, <1>5, <1>6, <2>1, <2>2 DEF OnceInv, InOrder
<1>9. Unused'
  BY <1>2, <1>5, <1>6 DEF OnceInv, Unused
<1>10. Spent'
  <2>1. \A t \in Slot : ~Signing(t, k)'
    BY <1>1, <1>6, <1>7
  <2>2. \A t \in Slot : ~Signing(t, store.seal)'
    BY <1>2, <2>1 DEF Signing
  <2> QED
    BY <1>2, <1>7, <2>2 DEF Spent
<1>11. Once'
  <2>1. \A tx \in anchors : tx.seal \in SealId
    BY <1>0 DEF RestTyped
  <2> QED
    BY <1>2, <1>6, <2>1 DEF OnceInv, Once
<1> QED
  BY <1>8, <1>9, <1>10, <1>11 DEF OnceInv

LEMMA OnceInit == Init => OnceInv
<1> SUFFICES ASSUME Init PROVE OnceInv
  OBVIOUS
<1> USE DEF Init
<1>1. \A stage \in Stage, s \in Slot : At(stage, s, "none")
  BY DEF At, NoRun
<1>2. \A s \in Slot : \A k \in SealId : ~Animating(s, k) /\ ~Signing(s, k)
  BY <1>1 DEF Animating, Signing, At, Stage
<1>3. WalletFirst /\ Unused /\ Spent /\ Once
  BY <1>1, <1>2 DEF WalletFirst, Unused, Spent, Once, initialState
<1>4. Sealed = {}
  BY DEF Sealed
<1>5. InOrder
  BY <1>2, <1>4, FS_EmptySet DEF InOrder, initialState
<1> QED
  BY <1>3, <1>5 DEF OnceInv

LEMMA OncePreserved == TypeInv /\ OnceInv /\ [Next]_vars => OnceInv'
<1> SUFFICES ASSUME TypeInv, OnceInv, [Next]_vars PROVE OnceInv'
  OBVIOUS
<1>1. TypeInv'
  BY TypePreserved
<1>2. CASE UNCHANGED vars
  <2>1. WalletFirst'
    BY <1>2 DEF vars, OnceInv, WalletFirst, At
  <2> QED
    BY <1>1, <1>2, <2>1, QuietKeeps, WorldIsQuiet DEF vars, worldVars
<1>3. CASE Next
  <2>1. WalletFirst'
    BY <1>3, WalletKept DEF OnceInv
  <2>2. Quiet => OnceInv'
    BY <1>1, <2>1, QuietKeeps
  <2>3. ASSUME NEW s \in Slot, VerifyNext(s) \/ SealNext(s) \/ AnchorNext(s) \/ ProcessingNext(s)
        PROVE  OnceInv'
    <3>1. CASE VerifyNext(s) \/ ProcessingNext(s)
      BY <2>2, <3>1, VerifyIsQuiet, ProcessingIsQuiet
    <3>2. CASE SealNext(s)
      BY <1>1, <2>1, <2>2, <3>2, SealIsQuiet, EncryptKeeps, ScrambleKeeps DEF SealNext
    <3>3. CASE AnchorNext(s)
      BY <1>1, <2>1, <2>2, <3>3, AnchorEnds, MiningKeeps, StartKeeps DEF AnchorNext
    <3> QED
      BY <2>3, <3>1, <3>2, <3>3
  <2>4. CASE RetryVerify \/ StartOver \/ Reset \/ \E a \in Address : Connect(a)
    BY <2>2, <2>4, PageIsQuiet
  <2>5. CASE UNCHANGED <<store, runs, sealedTo, anchors>>
    BY <2>2, <2>5, WorldIsQuiet
  <2> QED
    BY <1>3, <2>3, <2>4, <2>5 DEF Next, SwitchAccount, EnclaveAttests, EnclaveServesAnother,
       AttestationWritten
<1> QED
  BY <1>2, <1>3

\* A set in which any two members are equal has at most one.
LEMMA AtMostOne ==
  ASSUME NEW S, \A x, y \in S : x = y
  PROVE  Cardinality(S) \in {0, 1} /\ (Cardinality(S) = 1 => S # {})
<1>1. CASE S = {}
  BY <1>1, FS_EmptySet
<1>2. CASE S # {}
  <2>1. PICK x \in S : S = {x}
    BY <1>2
  <2> QED
    BY <2>1, FS_Singleton
<1> QED
  BY <1>1, <1>2

LEMMA OnceIsEnough == TypeInv /\ OnceInv => HashAnchoredOnce
<1> SUFFICES ASSUME TypeInv, OnceInv, NEW k \in SealId
    PROVE  Cardinality({s \in Slot : At("anchor", s, "sign") /\ runs["anchor"][s].seal = k})
             + Cardinality({tx \in anchors : tx.seal = k}) <= 1
  BY DEF HashAnchoredOnce
<1> DEFINE Hands == {s \in Slot : At("anchor", s, "sign") /\ runs["anchor"][s].seal = k}
           Txs == {tx \in anchors : tx.seal = k}
<1>1. \A s, t \in Hands : s = t
  BY DEF OnceInv, Once, Signing
<1>2. \A tx, ty \in Txs : tx = ty
  BY DEF OnceInv, Once
<1>3. Hands = {} \/ Txs = {}
  BY DEF OnceInv, Once, Signing
<1> HIDE DEF Hands, Txs
<1>4. /\ Cardinality(Hands) \in {0, 1} /\ (Cardinality(Hands) = 1 => Hands # {})
      /\ Cardinality(Txs) \in {0, 1} /\ (Cardinality(Txs) = 1 => Txs # {})
  BY <1>1, <1>2, AtMostOne
<1>5. Cardinality(Hands) + Cardinality(Txs) <= 1
  BY <1>3, <1>4
<1> QED
  BY <1>5 DEF Hands, Txs

\* Whatever effects fire again, stages come back, resets and late runs do, a
\* hash is signed for by one run or mined in one transaction (StageAnchor.tsx).
THEOREM HashesAnchoredOnce == Spec => []HashAnchoredOnce
<1>1. TypeInv /\ OnceInv /\ [Next]_vars => (TypeInv /\ OnceInv)'
  BY TypePreserved, OncePreserved
<1>2. Init => TypeInv /\ OnceInv
  BY TypeInit, OnceInit
<1> QED
  BY <1>1, <1>2, OnceIsEnough, PTL DEF Spec

-----------------------------------------------------------------------------
(* A session that no reset cut short.                                      *)

RunAt == [verify |-> "verifying", seal |-> "sealing", anchor |-> "anchoring",
          processing |-> "processing"]

\* The run is the stage's own, and what it holds is what the page holds.
InSession(stage, r) ==
  /\ store.status = RunAt[stage] /\ r.mounted
  /\ stage = "verify" /\ r.pc \in {"signature", "whitelist"} => r.quote = store.quote
  /\ stage = "seal" /\ r.pc = "encrypt" => r.quote \in passed
  /\ stage = "seal" /\ r.pc = "scramble" => r.seal = blob
  /\ stage = "anchor" /\ r.pc = "sign" => r.seal = store.seal
  /\ stage = "anchor" /\ r.pc = "deliver" => \E tx \in anchors : tx.seal = r.seal
  /\ stage = "processing" /\ r.pc = "record" => blob = 0

PastVerify ==
  \/ store.status \in {"verified", "sealing", "anchoring", "processing", "attested"}
  \/ store.status = "failed" /\ store.failedStage # "verify"

\* What the page holds between runs, and the three properties themselves.
Held ==
  /\ PastVerify => store.quote \in passed \cup {NoQuote}
  /\ store.status = "anchoring" => blob = store.seal
  /\ store.status = "attested" => blob = 0
  /\ SealsOnlyToCheckedQuote
  /\ \A k \in delivered : \E tx \in anchors : tx.seal = k

RunsInSession ==
  /\ \A stage \in Stage, s \in Slot :
       ~At(stage, s, "none") => InSession(stage, runs[stage][s])
  /\ \A stage \in Stage, s, t \in Slot :
       ~At(stage, s, "none") /\ ~At(stage, t, "none") => s = t

SessionInv == resets = 0 => RunsInSession /\ Held

LEMMA SessionIsEnough ==
  SessionInv => SessionSealsToCheckedQuote /\ CiphertextFollowsAnchor /\ CiphertextDropped
BY DEF SessionInv, Held, SessionSealsToCheckedQuote, CiphertextFollowsAnchor, CiphertextDropped

\* No run but this one is under way.
Alone(stage, s) ==
  \A t \in Stage, u \in Slot : t # stage \/ u # s => At(t, u, "none")

LEMMA RunIsAlone ==
  ASSUME RunsInSession, NEW stage \in Stage, NEW s \in Slot, ~At(stage, s, "none")
  PROVE  Alone(stage, s) /\ InSession(stage, runs[stage][s])
<1>1. InSession(stage, runs[stage][s])
  BY DEF RunsInSession
<1>2. ASSUME NEW t \in Stage, NEW u \in Slot, ~At(t, u, "none") PROVE t = stage /\ u = s
  <2>1. InSession(t, runs[t][u])
    BY <1>2 DEF RunsInSession
  <2>2. t = stage
    BY <1>1, <2>1 DEF InSession, RunAt, Stage
  <2> QED
    BY <1>2, <2>2 DEF RunsInSession
<1> QED
  BY <1>1, <1>2 DEF Alone

\* A stage that is not busy when its status asks for a run has no run under way,
\* nor has any other.
LEMMA NoneUnderWay ==
  ASSUME RunsInSession, NEW stage \in Stage,
         store.status = RunAt[stage] => ~Busy(stage),
         \A t \in Stage : t # stage => store.status # RunAt[t]
  PROVE  \A t \in Stage, u \in Slot : At(t, u, "none")
BY DEF RunsInSession, InSession, Busy

\* After the step of a run that was alone, only that run can be under way, and
\* if its stage is still mounted it is what the step made of it.
LEMMA StillAlone ==
  ASSUME RunsTyped, NEW stage \in Stage, NEW s \in Slot, Alone(stage, s), NEW run \in Run,
         runs' = Rendered(store', With(stage, s, run)) \/ runs' = With(stage, s, run),
         run.pc # "none" => stage \in MountedIn(store')
  PROVE  /\ \A t \in Stage, u \in Slot : t # stage \/ u # s => runs'[t][u].pc = "none"
         /\ runs'[stage][s] = run \/ runs'[stage][s].pc = "none"
<1> DEFINE next == With(stage, s, run)
<1>1. /\ next \in [Stage -> [Slot -> Run]]
      /\ next[stage][s] = run
      /\ \A t \in Stage, u \in Slot : t # stage \/ u # s => next[t][u] = runs[t][u]
  BY DEF With, RunsTyped
<1>2. \A t \in Stage, u \in Slot : t # stage \/ u # s => next[t][u].pc = "none"
  BY <1>1 DEF Alone, At
<1> HIDE DEF next
<1>3. CASE runs' = Rendered(store', next)
  <2>1. \A t \in Stage, u \in Slot : Remains(runs'[t][u], next[t][u], t, store')
    BY <1>1, <1>3, RenderedRuns
  <2> QED
    BY <1>1, <1>2, <2>1 DEF Remains
<1>4. CASE runs' = next
  BY <1>1, <1>2, <1>4
<1> QED
  BY <1>3, <1>4 DEF next

LEMMA AloneInSession ==
  ASSUME NEW stage \in Stage, NEW s \in Slot,
         \A t \in Stage, u \in Slot : t # stage \/ u # s => runs'[t][u].pc = "none",
         runs'[stage][s].pc # "none" => InSession(stage, runs[stage][s])'
  PROVE  RunsInSession'
<1>1. ASSUME NEW t \in Stage, NEW u \in Slot, ~At(t, u, "none")' PROVE t = stage /\ u = s
  BY <1>1 DEF At
<1>2. ASSUME NEW t \in Stage, NEW u \in Slot, ~At(t, u, "none")'
      PROVE  InSession(t, runs[t][u])'
  <2>1. t = stage /\ u = s /\ runs'[t][u].pc # "none"
    BY <1>1, <1>2 DEF At
  <2>2. InSession(stage, runs[stage][s])'
    BY <2>1
  <2> QED
    BY <2>1, <2>2 DEF InSession
<1> QED
  BY <1>1, <1>2 DEF RunsInSession

\* Which stages a page with a connected wallet shows.
LEMMA ShowsStage ==
  ASSUME NEW stage \in Stage, WalletFirst', store'.status = RunAt[stage]
  PROVE  stage \in MountedIn(store')
BY DEF WalletFirst, MountedIn, activeStage, Stage, RunAt

LEMMA RunEnds ==
  ASSUME RunsTyped, RunsInSession, NEW stage \in Stage, NEW s \in Slot,
         runs[stage][s].pc # "none", runs' = Rendered(store', With(stage, s, NoRun))
  PROVE  RunsInSession'
<1>1. NoRun \in Run /\ NoRun.pc = "none"
  BY NoRunIsRun DEF NoRun
<1>2. Alone(stage, s)
  BY RunIsAlone DEF At
<1>3. /\ \A t \in Stage, u \in Slot : t # stage \/ u # s => runs'[t][u].pc = "none"
      /\ runs'[stage][s] = NoRun \/ runs'[stage][s].pc = "none"
  BY <1>1, <1>2, StillAlone
<1> QED
  BY <1>1, <1>3, AloneInSession

LEMMA VerifySession ==
  ASSUME TypeInv, WalletFirst', RunsInSession, Held, NEW s \in Slot, VerifyNext(s)
  PROVE  RunsInSession' /\ Held'
<1>0. store \in Store /\ RunsTyped /\ RestTyped /\ "verify" \in Stage
  BY TypeParts DEF Stage
<1> DEFINE r == runs["verify"][s]
<1>1. r \in Run /\ NoRun \in Run /\ NoRun.pc = "none"
  BY <1>0, NoRunIsRun DEF RunsTyped, NoRun
<1>2. sealedTo' = sealedTo /\ delivered' = delivered /\ anchors' = anchors /\ blob' = blob
  BY DEF VerifyNext, StartVerify, QuoteFetched, QuoteMalformed, SignatureChecked, VerifyFails,
     finishVerify, worldVars
<1>3. r.pc # "none" => Alone("verify", s) /\ InSession("verify", r)
  BY <1>0, RunIsAlone DEF At
<1> USE DEF Writes, Ended
<1>4. CASE StartVerify(s)
  <2> DEFINE n == [NoRun EXCEPT !.pc = "quote", !.mounted = TRUE]
  <2>1. n \in Run /\ n.pc = "quote" /\ n.mounted
    BY NoRunIsRun DEF Run
  <2>2. /\ store'.status = "verifying" /\ UNCHANGED <<blob, worldVars>>
        /\ store.status = "idle" /\ runs' = Rendered(store', With("verify", s, n))
    BY <1>0, <1>4 DEF StartVerify, Store
  <2>3. Alone("verify", s)
    BY <1>0, <2>2, NoneUnderWay DEF Stage, RunAt, Alone
  <2>4. "verify" \in MountedIn(store')
    BY <1>0, <2>2, ShowsStage DEF RunAt
  <2> HIDE DEF n
  <2>5. /\ \A t \in Stage, u \in Slot : t # "verify" \/ u # s => runs'[t][u].pc = "none"
        /\ runs'["verify"][s] = n \/ runs'["verify"][s].pc = "none"
    BY <1>0, <2>1, <2>2, <2>3, <2>4, StillAlone
  <2>6. runs'["verify"][s].pc # "none" => InSession("verify", runs["verify"][s])'
    BY <2>1, <2>2, <2>5 DEF InSession, RunAt
  <2>7. RunsInSession'
    BY <1>0, <2>5, <2>6, AloneInSession
  <2>8. Held'
    BY <1>2, <2>2 DEF Held, PastVerify, SealsOnlyToCheckedQuote, worldVars
  <2> QED
    BY <2>7, <2>8
<1>5. ASSUME NEW q \in Quote, QuoteFetched(s, q) PROVE RunsInSession' /\ Held'
  <2> DEFINE n == [r EXCEPT !.pc = "signature", !.quote = q]
  <2>1. n \in Run /\ n.pc = "signature" /\ n.quote = q /\ n.mounted = r.mounted
    BY <1>1 DEF Run
  <2>2. /\ store'.quote = q /\ store'.status = store.status /\ store'.failedStage = store.failedStage
        /\ UNCHANGED <<blob, worldVars>>
        /\ r.pc = "quote" /\ runs' = Rendered(store', With("verify", s, n))
    BY <1>0, <1>5 DEF QuoteFetched, Store, At
  <2>3. Alone("verify", s) /\ r.mounted /\ store'.status = "verifying"
    BY <1>3, <2>2 DEF InSession, RunAt
  <2>4. "verify" \in MountedIn(store')
    BY <1>0, <2>3, ShowsStage DEF RunAt
  <2> HIDE DEF n
  <2>5. /\ \A t \in Stage, u \in Slot : t # "verify" \/ u # s => runs'[t][u].pc = "none"
        /\ runs'["verify"][s] = n \/ runs'["verify"][s].pc = "none"
    BY <1>0, <2>1, <2>2, <2>3, <2>4, StillAlone
  <2>6. runs'["verify"][s].pc # "none" => InSession("verify", runs["verify"][s])'
    BY <2>1, <2>2, <2>3, <2>5 DEF InSession, RunAt
  <2>7. RunsInSession'
    BY <1>0, <2>5, <2>6, AloneInSession
  <2>8. Held'
    BY <1>2, <2>2, <2>3 DEF Held, PastVerify, SealsOnlyToCheckedQuote, worldVars
  <2> QED
    BY <2>7, <2>8
<1>6. CASE SignatureChecked(s)
  <2> DEFINE n == [r EXCEPT !.pc = "whitelist"]
  <2>1. n \in Run /\ n.pc = "whitelist" /\ n.quote = r.quote /\ n.mounted = r.mounted
    BY <1>1 DEF Run
  <2>2. r.pc = "signature" /\ runs' = With("verify", s, n) /\ UNCHANGED <<store, blob, worldVars>>
    BY <1>6 DEF SignatureChecked, At
  <2>3. Alone("verify", s) /\ InSession("verify", r)
    BY <1>3, <2>2
  <2> HIDE DEF n
  <2>4. "verify" \in MountedIn(store')
    BY <1>0, <2>2, <2>3, ShowsStage DEF InSession
  <2>5. /\ \A t \in Stage, u \in Slot : t # "verify" \/ u # s => runs'[t][u].pc = "none"
        /\ runs'["verify"][s] = n \/ runs'["verify"][s].pc = "none"
    BY <1>0, <2>1, <2>2, <2>3, <2>4, StillAlone
  <2>6. runs'["verify"][s].pc # "none" => InSession("verify", runs["verify"][s])'
    BY <2>1, <2>2, <2>3, <2>5 DEF InSession
  <2>7. RunsInSession'
    BY <1>0, <2>5, <2>6, AloneInSession
  <2>8. Held'
    BY <2>2 DEF Held, PastVerify, SealsOnlyToCheckedQuote, worldVars
  <2> QED
    BY <2>7, <2>8
\* The run ends.
<1>7. ASSUME r.pc # "none", runs' = Rendered(store', With("verify", s, NoRun))
      PROVE  RunsInSession'
  BY <1>0, <1>7, RunEnds
<1>8. ASSUME NEW q \in Quote, QuoteMalformed(s, q) PROVE RunsInSession' /\ Held'
  <2>1. /\ store'.status = "failed" /\ store'.failedStage = "verify" /\ UNCHANGED worldVars
        /\ r.pc # "none" /\ runs' = Rendered(store', With("verify", s, NoRun))
    BY <1>0, <1>8 DEF QuoteMalformed, Store, At
  <2> QED
    BY <1>2, <1>7, <2>1 DEF Held, PastVerify, SealsOnlyToCheckedQuote, worldVars
<1>9. CASE VerifyFails(s)
  <2>1. /\ store'.status = "failed" /\ store'.failedStage = "verify" /\ UNCHANGED worldVars
        /\ r.pc # "none" /\ runs' = Rendered(store', With("verify", s, NoRun))
    BY <1>0, <1>9 DEF VerifyFails, failed, Store, At
  <2> QED
    BY <1>2, <1>7, <2>1 DEF Held, PastVerify, SealsOnlyToCheckedQuote, worldVars
<1>10. CASE finishVerify(s)
  <2>1. /\ store'.status = "verified" /\ store'.quote = store.quote /\ passed' = passed \cup {r.quote}
        /\ r.pc = "whitelist" /\ runs' = Rendered(store', With("verify", s, NoRun))
    BY <1>0, <1>10 DEF finishVerify, Store, At
  <2>2. r.quote = store.quote
    BY <1>3, <2>1 DEF InSession
  <2> QED
    BY <1>2, <1>7, <2>1, <2>2 DEF Held, PastVerify, SealsOnlyToCheckedQuote
<1> QED
  BY <1>4, <1>5, <1>6, <1>8, <1>9, <1>10 DEF VerifyNext

LEMMA SealSession ==
  ASSUME TypeInv, WalletFirst', OnceInv, RunsInSession, Held, NEW s \in Slot, SealNext(s)
  PROVE  RunsInSession' /\ Held'
<1>0. store \in Store /\ RunsTyped /\ RestTyped /\ "seal" \in Stage
  BY TypeParts DEF Stage
<1> DEFINE r == runs["seal"][s]
<1>1. r \in Run /\ NoRun \in Run /\ NoRun.pc = "none"
  BY <1>0, NoRunIsRun DEF RunsTyped, NoRun
<1>2. r.pc # "none" => Alone("seal", s) /\ InSession("seal", r)
  BY <1>0, RunIsAlone DEF At
<1> USE DEF Writes, Ended
<1>3. CASE Submit(s)
  <2> DEFINE n == [NoRun EXCEPT !.pc = "encrypt", !.mounted = TRUE, !.quote = store.quote]
  <2>1. n \in Run /\ n.pc = "encrypt" /\ n.mounted /\ n.quote = store.quote
    BY <1>0, NoRunIsRun DEF Run, Store
  <2>2. /\ store'.status = "sealing" /\ store'.quote = store.quote /\ UNCHANGED <<blob, worldVars>>
        /\ Mounted("seal") /\ canSeal(store) /\ ~Busy("seal") /\ store.quote # NoQuote
        /\ runs' = Rendered(store', With("seal", s, n))
    BY <1>0, <1>3 DEF Submit, Store
  <2>3. PastVerify /\ store.status \in {"verified", "sealing", "failed"}
    BY <2>2 DEF canSeal, Mounted, MountedIn, activeStage, PastVerify
  <2>4. Alone("seal", s)
    BY <1>0, <2>2, <2>3, NoneUnderWay DEF Stage, RunAt, Alone
  <2>5. "seal" \in MountedIn(store')
    BY <1>0, <2>2, ShowsStage DEF RunAt
  <2>6. store.quote \in passed
    BY <2>2, <2>3 DEF Held
  <2> HIDE DEF n
  <2>7. /\ \A t \in Stage, u \in Slot : t # "seal" \/ u # s => runs'[t][u].pc = "none"
        /\ runs'["seal"][s] = n \/ runs'["seal"][s].pc = "none"
    BY <1>0, <2>1, <2>2, <2>4, <2>5, StillAlone
  <2>8. passed' = passed
    BY <2>2 DEF worldVars
  <2>9. runs'["seal"][s].pc # "none" => InSession("seal", runs["seal"][s])'
    BY <2>1, <2>2, <2>6, <2>7, <2>8 DEF InSession, RunAt
  <2>10. RunsInSession'
    BY <1>0, <2>7, <2>9, AloneInSession
  <2>11. Held'
    BY <2>2, <2>6 DEF Held, PastVerify, SealsOnlyToCheckedQuote, worldVars
  <2> QED
    BY <2>10, <2>11
<1>4. CASE Encrypted(s)
  <2>1. PICK k \in SealId :
             /\ runs' = With("seal", s, [r EXCEPT !.pc = "scramble", !.seal = k])
             /\ r.pc = "encrypt" /\ blob' = k /\ sealedTo' = [sealedTo EXCEPT ![k] = r.quote]
    BY <1>4, SealedNext
  <2> DEFINE n == [r EXCEPT !.pc = "scramble", !.seal = k]
  <2>2. n \in Run /\ n.pc = "scramble" /\ n.seal = k /\ n.mounted = r.mounted
    BY <1>1 DEF Run
  <2>3. UNCHANGED <<store, passed, delivered, anchors>>
    BY <1>4 DEF Encrypted
  <2>4. Alone("seal", s) /\ InSession("seal", r) /\ store.status = "sealing"
    BY <1>2, <2>1 DEF InSession, RunAt
  <2>5. "seal" \in MountedIn(store')
    BY <1>0, <2>3, <2>4, ShowsStage DEF RunAt
  <2> HIDE DEF n
  <2>6. /\ \A t \in Stage, u \in Slot : t # "seal" \/ u # s => runs'[t][u].pc = "none"
        /\ runs'["seal"][s] = n \/ runs'["seal"][s].pc = "none"
    BY <1>0, <2>1, <2>2, <2>4, <2>5, StillAlone DEF n
  <2>7. runs'["seal"][s].pc # "none" => InSession("seal", runs["seal"][s])'
    BY <2>1, <2>2, <2>3, <2>4, <2>6 DEF InSession
  <2>8. RunsInSession'
    BY <1>0, <2>6, <2>7, AloneInSession
  <2>9. \A j \in SealId : sealedTo'[j] \in passed \cup {NoQuote}
    BY <1>0, <2>1, <2>4 DEF RestTyped, Held, SealsOnlyToCheckedQuote, InSession
  <2>10. Held'
    BY <2>3, <2>4, <2>9 DEF Held, PastVerify, SealsOnlyToCheckedQuote
  <2> QED
    BY <2>8, <2>10
<1>5. CASE SealFails(s)
  <2>1. /\ store'.status = "failed" /\ store'.failedStage = "seal" /\ store'.quote = store.quote
        /\ UNCHANGED <<blob, worldVars>>
        /\ r.pc = "encrypt" /\ runs' = Rendered(store', With("seal", s, NoRun))
    BY <1>0, <1>5 DEF SealFails, failed, Store, At
  <2>2. store.status = "sealing"
    BY <1>2, <2>1 DEF InSession, RunAt
  <2>3. RunsInSession'
    BY <1>0, <2>1, RunEnds
  <2> QED
    BY <2>1, <2>2, <2>3 DEF Held, PastVerify, SealsOnlyToCheckedQuote, worldVars
<1>6. CASE Scrambled(s)
  <2>1. /\ store'.status = "anchoring" /\ store'.seal = r.seal /\ store'.quote = store.quote
        /\ UNCHANGED <<blob, worldVars>>
        /\ r.pc = "scramble" /\ runs' = Rendered(store', With("seal", s, NoRun))
    BY <1>0, <1>6 DEF Scrambled, Store, At
  <2>2. store.status = "sealing" /\ r.seal = blob
    BY <1>2, <2>1 DEF InSession, RunAt
  <2>3. RunsInSession'
    BY <1>0, <2>1, RunEnds
  <2> QED
    BY <2>1, <2>2, <2>3 DEF Held, PastVerify, SealsOnlyToCheckedQuote, worldVars
<1> QED
  BY <1>3, <1>4, <1>5, <1>6 DEF SealNext

LEMMA AnchorSession ==
  ASSUME TypeInv, WalletFirst', RunsInSession, Held, NEW s \in Slot, AnchorNext(s)
  PROVE  RunsInSession' /\ Held'
<1>0. store \in Store /\ RunsTyped /\ RestTyped /\ "anchor" \in Stage
  BY TypeParts DEF Stage
<1> DEFINE r == runs["anchor"][s]
<1>1. r \in Run /\ NoRun \in Run /\ NoRun.pc = "none" /\ (r.pc = "sign" => r.seal \in SealId)
  BY <1>0, NoRunIsRun DEF RunsTyped, Sound, NoRun
<1>2. r.pc # "none" => Alone("anchor", s) /\ InSession("anchor", r) /\ store.status = "anchoring"
  BY <1>0, RunIsAlone DEF At, InSession, RunAt
<1> USE DEF Writes, Ended
<1>3. CASE StartAnchor(s)
  <2>1. /\ store.status = "anchoring" /\ ~Busy("anchor") /\ UNCHANGED <<store, blob, worldVars>>
        /\ runs' = With("anchor", s, AnchorRun)
    BY <1>3 DEF StartAnchor, Anchoring
  <2>2. AnchorRun \in Run /\ AnchorRun.pc = "sign" /\ AnchorRun.seal = store.seal /\ AnchorRun.mounted
    BY <1>0, NoRunIsRun DEF AnchorRun, Run, RestTyped, Store
  <2>3. Alone("anchor", s)
    BY <1>0, <2>1, NoneUnderWay DEF Stage, RunAt, Alone
  <2>4. "anchor" \in MountedIn(store')
    BY <1>0, <2>1, ShowsStage DEF RunAt
  <2>5. /\ \A t \in Stage, u \in Slot : t # "anchor" \/ u # s => runs'[t][u].pc = "none"
        /\ runs'["anchor"][s] = AnchorRun \/ runs'["anchor"][s].pc = "none"
    BY <1>0, <2>1, <2>2, <2>3, <2>4, StillAlone
  <2>6. runs'["anchor"][s].pc # "none" => InSession("anchor", runs["anchor"][s])'
    BY <2>1, <2>2, <2>5 DEF InSession, RunAt
  <2>7. RunsInSession'
    BY <1>0, <2>5, <2>6, AloneInSession
  <2>8. Held'
    BY <2>1 DEF Held, PastVerify, SealsOnlyToCheckedQuote, worldVars
  <2> QED
    BY <2>7, <2>8
<1>4. CASE Anchored(s)
  <2>1. /\ r.pc = "sign" /\ anchors' = anchors \cup {[seal |-> r.seal, run |-> s]}
        /\ UNCHANGED <<blob, passed, sealedTo, delivered>>
    BY <1>4 DEF Anchored, At, Mined
  <2>2. blob = store.seal /\ r.seal = store.seal /\ blob # 0 /\ blob \in SealId
    BY <1>1, <1>2, <2>1 DEF InSession, Held, SealId
  <2> DEFINE n == [r EXCEPT !.pc = "deliver", !.seal = blob]
  <2>3. n \in Run /\ n.pc = "deliver" /\ n.seal = blob /\ n.mounted = r.mounted
    BY <1>1, <2>2 DEF Run
  <2>4. /\ store'.status = "anchoring" /\ store'.seal = store.seal /\ store'.quote = store.quote
        /\ runs' = Rendered(store', With("anchor", s, n))
    BY <1>0, <1>2, <1>4, <2>1, <2>2 DEF Anchored, Store
  <2>5. "anchor" \in MountedIn(store')
    BY <1>0, <2>4, ShowsStage DEF RunAt
  <2> HIDE DEF n
  <2>6. /\ \A t \in Stage, u \in Slot : t # "anchor" \/ u # s => runs'[t][u].pc = "none"
        /\ runs'["anchor"][s] = n \/ runs'["anchor"][s].pc = "none"
    BY <1>0, <1>2, <2>1, <2>3, <2>4, <2>5, StillAlone
  <2>7. [seal |-> r.seal, run |-> s] \in anchors' /\ [seal |-> r.seal, run |-> s].seal = n.seal
    BY <2>1, <2>2, <2>3
  <2>8. runs'["anchor"][s].pc # "none" => InSession("anchor", runs["anchor"][s])'
    BY <1>2, <2>1, <2>3, <2>4, <2>6, <2>7 DEF InSession, RunAt
  <2>9. RunsInSession'
    BY <1>0, <2>6, <2>8, AloneInSession
  <2>10. Held'
    BY <1>2, <2>1, <2>2, <2>4 DEF Held, PastVerify, SealsOnlyToCheckedQuote
  <2> QED
    BY <2>9, <2>10
<1>5. CASE AnchorFails(s)
  <2>1. /\ store'.status = "failed" /\ store'.failedStage = "anchor" /\ store'.quote = store.quote
        /\ UNCHANGED <<blob, passed, sealedTo>>
        /\ r.pc # "none" /\ runs' = Rendered(store', With("anchor", s, NoRun))
    BY <1>0, <1>5 DEF AnchorFails, failed, Store, At
  <2>2. /\ anchors \subseteq anchors'
        /\ delivered' \subseteq delivered \cup {k \in SealId : \E tx \in anchors : tx.seal = k}
    BY <1>2, <1>0, <1>5 DEF AnchorFails, At, Mined, InSession, RestTyped
  <2>3. RunsInSession'
    BY <1>0, <2>1, RunEnds
  <2> QED
    BY <1>2, <2>1, <2>2, <2>3 DEF Held, PastVerify, SealsOnlyToCheckedQuote
<1>6. CASE Delivered(s)
  <2>1. /\ store'.status = "processing" /\ store'.quote = store.quote
        /\ UNCHANGED <<blob, passed, sealedTo, anchors>> /\ delivered' = delivered \cup {r.seal}
        /\ r.pc = "deliver" /\ runs' = Rendered(store', With("anchor", s, NoRun))
    BY <1>0, <1>6 DEF Delivered, Store, At
  <2>2. \E tx \in anchors : tx.seal = r.seal
    BY <1>2, <2>1 DEF InSession
  <2>3. RunsInSession'
    BY <1>0, <2>1, RunEnds
  <2> QED
    BY <1>2, <2>1, <2>2, <2>3 DEF Held, PastVerify, SealsOnlyToCheckedQuote
<1> QED
  BY <1>3, <1>4, <1>5, <1>6 DEF AnchorNext

LEMMA ProcessingSession ==
  ASSUME TypeInv, WalletFirst', RunsInSession, Held, NEW s \in Slot, ProcessingNext(s)
  PROVE  RunsInSession' /\ Held'
<1>0. store \in Store /\ RunsTyped /\ RestTyped /\ "processing" \in Stage
  BY TypeParts DEF Stage
<1> DEFINE r == runs["processing"][s]
<1>1. r \in Run /\ count \in 0..MaxCount
  BY <1>0 DEF RunsTyped, RestTyped
<1>2. r.pc # "none" =>
        Alone("processing", s) /\ InSession("processing", r) /\ store.status = "processing"
  BY <1>0, RunIsAlone DEF At, InSession, RunAt
<1> USE DEF Writes, Ended
\* The run goes on.
<1>3. ASSUME NEW n \in Run, Alone("processing", s), n.mounted, n.pc = "record" => blob' = 0,
             runs' = Rendered(store', With("processing", s, n)) \/ runs' = With("processing", s, n),
             store'.status = "processing"
      PROVE  RunsInSession'
  <2>1. "processing" \in MountedIn(store')
    BY <1>0, <1>3, ShowsStage DEF RunAt
  <2>2. /\ \A t \in Stage, u \in Slot : t # "processing" \/ u # s => runs'[t][u].pc = "none"
        /\ runs'["processing"][s] = n \/ runs'["processing"][s].pc = "none"
    BY <1>0, <1>3, <2>1, StillAlone
  <2>3. runs'["processing"][s].pc # "none" => InSession("processing", runs["processing"][s])'
    BY <1>3, <2>2 DEF InSession, RunAt
  <2> QED
    BY <1>0, <2>2, <2>3, AloneInSession
\* The page stays where it was.
<1>4. ASSUME store.status = "processing", UNCHANGED worldVars, store'.quote = store.quote,
             store'.status \in {"processing", "failed", "attested"},
             store'.status = "failed" => store'.failedStage = "processing",
             store'.status = "attested" => blob' = 0
      PROVE  Held'
  BY <1>4 DEF Held, PastVerify, SealsOnlyToCheckedQuote, worldVars
<1>5. CASE StartProcessing(s)
  <2> DEFINE n == [NoRun EXCEPT !.pc = "baseline", !.mounted = TRUE, !.began = count]
  <2>1. n \in Run /\ n.pc = "baseline" /\ n.mounted
    BY <1>1, NoRunIsRun DEF Run
  <2>2. /\ store.status = "processing" /\ ~Busy("processing") /\ UNCHANGED <<store, blob, worldVars>>
        /\ runs' = With("processing", s, n)
    BY <1>5 DEF StartProcessing
  <2>3. Alone("processing", s)
    BY <1>0, <2>2, NoneUnderWay DEF Stage, RunAt, Alone
  <2> HIDE DEF n
  <2> QED
    BY <1>3, <1>4, <2>1, <2>2, <2>3
<1>6. CASE Baseline(s)
  <2>1. PICK before \in {count, -1} : Watches(s, before) /\ UNCHANGED <<blob, worldVars>>
    BY <1>6 DEF Baseline
  <2> DEFINE n == [r EXCEPT !.pc = "poll", !.before = before]
  <2>2. before \in -1..MaxCount
    BY <1>1, PipelineAssumption
  <2>3. n \in Run /\ n.pc = "poll" /\ n.mounted = r.mounted
    BY <1>1, <2>2 DEF Run
  <2>4. /\ store'.status = store.status /\ store'.quote = store.quote /\ r.pc # "none"
        /\ runs' = Rendered(store', With("processing", s, n))
    BY <1>0, <1>6, <2>1 DEF Baseline, Watches, Store, At
  <2>5. r.mounted
    BY <1>2, <2>4 DEF InSession
  <2> HIDE DEF n
  <2> QED
    BY <1>2, <1>3, <1>4, <2>1, <2>3, <2>4, <2>5
<1>7. CASE Landed(s)
  <2> DEFINE n == [r EXCEPT !.pc = "record"]
  <2>1. n \in Run /\ n.pc = "record" /\ n.mounted = r.mounted
    BY <1>1 DEF Run
  <2>2. /\ store'.status = store.status /\ store'.quote = store.quote /\ r.pc # "none"
        /\ blob' = 0 /\ UNCHANGED worldVars
        /\ runs' = Rendered(store', With("processing", s, n))
    BY <1>0, <1>7 DEF Landed, Moved, Store, At
  <2>3. r.mounted
    BY <1>2, <2>2 DEF InSession
  <2> HIDE DEF n
  <2> QED
    BY <1>2, <1>3, <1>4, <2>1, <2>2, <2>3
<1>8. CASE setAttestation(s)
  <2>1. /\ store'.status = "attested" /\ store'.quote = store.quote /\ UNCHANGED <<blob, worldVars>>
        /\ r.pc = "record" /\ runs' = Rendered(store', With("processing", s, NoRun))
    BY <1>0, <1>8 DEF setAttestation, Store, At
  <2>2. blob = 0
    BY <1>2, <2>1 DEF InSession
  <2> QED
    BY <1>0, <1>2, <1>4, <2>1, <2>2, RunEnds
<1>9. CASE ProcessingFails(s)
  <2>1. /\ store'.status = "failed" /\ store'.failedStage = "processing" /\ store'.quote = store.quote
        /\ UNCHANGED <<blob, worldVars>>
        /\ r.pc # "none" /\ runs' = Rendered(store', With("processing", s, NoRun))
    BY <1>0, <1>9 DEF ProcessingFails, failed, Store
  <2> QED
    BY <1>0, <1>2, <1>4, <2>1, RunEnds
<1> QED
  BY <1>5, <1>6, <1>7, <1>8, <1>9 DEF ProcessingNext

LEMMA PageSession ==
  ASSUME TypeInv, WalletFirst, RunsInSession, Held,
         RetryVerify \/ StartOver \/ \E a \in Address : Connect(a)
  PROVE  RunsInSession' /\ Held'
<1>0. store \in Store /\ RunsTyped
  BY TypeParts
<1> USE DEF Writes
<1>1. ASSUME \A t \in Stage, u \in Slot : At(t, u, "none"), runs' = Rendered(store', runs)
      PROVE  RunsInSession'
  <2>1. \A t \in Stage, u \in Slot : Remains(runs'[t][u], runs[t][u], t, store')
    BY <1>0, <1>1, RenderedOnly
  <2> QED
    BY <1>1, <2>1 DEF Remains, At, RunsInSession
<1>2. store.status = "failed" => \A t \in Stage, u \in Slot : At(t, u, "none")
  BY DEF RunsInSession, InSession, RunAt, Stage
<1>3. CASE RetryVerify
  <2>1. /\ store.status = "failed" /\ store'.status = "idle" /\ UNCHANGED <<blob, worldVars>>
        /\ runs' = Rendered(store', runs)
    BY <1>0, <1>3 DEF RetryVerify, Store
  <2> QED
    BY <1>1, <1>2, <2>1 DEF Held, PastVerify, SealsOnlyToCheckedQuote, worldVars
<1>4. CASE StartOver
  <2>1. /\ store.status = "failed" /\ store.failedStage # "verify"
        /\ store'.status = "verified" /\ store'.quote = store.quote
        /\ UNCHANGED <<blob, worldVars>> /\ runs' = Rendered(store', runs)
    BY <1>0, <1>4 DEF StartOver, Store
  <2> QED
    BY <1>1, <1>2, <2>1 DEF Held, PastVerify, SealsOnlyToCheckedQuote, worldVars
<1>5. ASSUME NEW a \in Address, Connect(a) PROVE RunsInSession' /\ Held'
  <2>1. /\ store.wallet = NoAddress /\ store'.status = "idle"
        /\ UNCHANGED <<blob, passed, sealedTo, anchors, delivered>> /\ runs' = Rendered(store', runs)
    BY <1>5 DEF Connect, initialState
  <2> QED
    BY <1>1, <2>1 DEF WalletFirst, Held, PastVerify, SealsOnlyToCheckedQuote
<1> QED
  BY <1>3, <1>4, <1>5

LEMMA SessionInit == Init => SessionInv
<1> SUFFICES ASSUME Init PROVE RunsInSession /\ Held
  BY DEF SessionInv
<1> QED
  BY DEF Init, NoRun, At, RunsInSession, Held, PastVerify, initialState, SealsOnlyToCheckedQuote

LEMMA SessionPreserved == TypeInv /\ OnceInv /\ SessionInv /\ [Next]_vars => SessionInv'
<1> SUFFICES ASSUME TypeInv, OnceInv, SessionInv, [Next]_vars, resets' = 0
             PROVE  RunsInSession' /\ Held'
  BY DEF SessionInv
<1>1. ~Reset
  BY TypeParts DEF Reset, RestTyped
<1>2. resets = 0
  BY <1>1 DEF Next, VerifyNext, SealNext, AnchorNext, ProcessingNext, Connect, SwitchAccount,
     StartVerify, QuoteFetched, QuoteMalformed, SignatureChecked, VerifyFails, finishVerify,
     RetryVerify, Submit, Encrypted, SealFails, Scrambled, StartAnchor, Anchored, AnchorFails,
     Delivered, StartProcessing, Baseline, Landed, setAttestation, ProcessingFails, StartOver,
     EnclaveAttests, EnclaveServesAnother, AttestationWritten, worldVars, vars
<1>3. RunsInSession /\ Held /\ WalletFirst
  BY <1>2 DEF SessionInv, OnceInv
<1>4. WalletFirst'
  BY OncePreserved DEF OnceInv
<1>5. CASE UNCHANGED <<store, runs, blob, passed, sealedTo, anchors, delivered>>
  BY <1>3, <1>5 DEF RunsInSession, InSession, Held, PastVerify, SealsOnlyToCheckedQuote, At
<1>6. ASSUME NEW s \in Slot, VerifyNext(s) \/ SealNext(s) \/ AnchorNext(s) \/ ProcessingNext(s)
      PROVE  RunsInSession' /\ Held'
  BY <1>3, <1>4, <1>6, VerifySession, SealSession, AnchorSession, ProcessingSession
<1>7. CASE RetryVerify \/ StartOver \/ \E a \in Address : Connect(a)
  BY <1>3, <1>7, PageSession
<1> QED
  BY <1>1, <1>5, <1>6, <1>7 DEF Next, SwitchAccount, EnclaveAttests, EnclaveServesAnother,
     AttestationWritten, vars, worldVars

LEMMA SessionStays == Spec => []SessionInv
<1> DEFINE I == TypeInv /\ OnceInv /\ SessionInv
<1>1. Init => I
  BY TypeInit, OnceInit, SessionInit
<1>2. I /\ [Next]_vars => I'
  BY TypePreserved, OncePreserved, SessionPreserved
<1> QED
  BY <1>1, <1>2, PTL DEF Spec

\* Until the first reset, whatever order the runs end in, a credential is only
\* sealed to a quote that one run took through the three checks (StageVerify.tsx,
\* StageSeal.tsx).
THEOREM SessionsSealToCheckedQuotes == Spec => []SessionSealsToCheckedQuote
BY SessionStays, SessionIsEnough, PTL

\* Until the first reset, the ciphertext that goes to the enclave is the one
\* whose hash was mined, although store and holder are read apart
\* (StageAnchor.tsx, sealed.ts).
THEOREM CiphertextsFollowAnchors == Spec => []CiphertextFollowsAnchor
BY SessionStays, SessionIsEnough, PTL

\* Until the first reset, an attested page holds no ciphertext
\* (StageProcessing.tsx).
THEOREM CiphertextsAreDropped == Spec => []CiphertextDropped
BY SessionStays, SessionIsEnough, PTL

-----------------------------------------------------------------------------
(* What a passed quote vouches for.                                        *)

LEMMA InitTypeOK == ChecksInit => ChecksTypeOK
BY QuotesAssumption, BoundsAssumption DEF ChecksInit, ChecksTypeOK, Stages

\* What any step may do to what the checks share.
LEMMA SharedEffect ==
  ChecksTypeOK /\ [ChecksNext]_checksVars =>
    /\ cache' \in {cache, published}
    /\ published' \in {published, GoogleKeys}
    /\ listed' \subseteq listed
    /\ failures' \in {failures, failures + 1} /\ failures' \in 0 .. MaxFailures
<1> SUFFICES ASSUME ChecksTypeOK, [ChecksNext]_checksVars
             PROVE  /\ cache' \in {cache, published}
                    /\ published' \in {published, GoogleKeys}
                    /\ listed' \subseteq listed
                    /\ failures' \in {failures, failures + 1} /\ failures' \in 0 .. MaxFailures
  OBVIOUS
<1>1. ASSUME NEW c \in Checks, Step(c) \/ Retry(c) PROVE UNCHANGED <<world, cache, failures>>
  BY <1>1 DEF Step, Retry, Begin, CheckQuoteShape, CheckSignatureBinding, FetchJwks,
              VerifySignature, CheckWhitelist, world, jwks
<1>2. CASE Discovered \/ KeysArrive
  BY <1>2 DEF Discovered, KeysArrive, ChecksTypeOK, world
<1>3. CASE FetchFails
  BY <1>3, BoundsAssumption DEF FetchFails, ChecksTypeOK, world
<1>4. CASE Tick \/ Rotate \/ Delist
  BY <1>4 DEF Tick, Rotate, Delist, ChecksTypeOK, jwks
<1>5. CASE UNCHANGED checksVars
  BY <1>5 DEF checksVars, ChecksTypeOK
<1> QED BY <1>1, <1>2, <1>3, <1>4, <1>5 DEF ChecksNext, Fetching, world, ChecksTypeOK

\* A step of one check, the end of a fetch, or nothing the checks see.
LEMMA CheckEffect ==
  ChecksTypeOK /\ [ChecksNext]_checksVars =>
    \/ \E c \in Checks : \E stage \in Stages : Goes(c, stage) /\ (Step(c) \/ Retry(c))
    \/ FetchFails
    \/ UNCHANGED <<pc, quote, asked>>
<1> SUFFICES ASSUME ChecksTypeOK, [ChecksNext]_checksVars
             PROVE  \/ \E c \in Checks : \E stage \in Stages : Goes(c, stage) /\ (Step(c) \/ Retry(c))
                    \/ FetchFails
                    \/ UNCHANGED <<pc, quote, asked>>
  OBVIOUS
<1>1. ASSUME NEW c \in Checks, Step(c) \/ Retry(c)
      PROVE  \/ \E stage \in Stages : Goes(c, stage)
             \/ UNCHANGED <<pc, quote, asked>>
  BY <1>1 DEF Step, Retry, Begin, CheckQuoteShape, CheckSignatureBinding, FetchJwks,
              VerifySignature, CheckWhitelist, Stages
<1>2. CASE Discovered \/ KeysArrive \/ Tick \/ Rotate \/ Delist
  BY <1>2 DEF Discovered, KeysArrive, Tick, Rotate, Delist
<1> QED BY <1>1, <1>2 DEF ChecksNext, Fetching, checksVars

-----------------------------------------------------------------------------
(* Types.                                                                  *)

LEMMA TypesStay == ChecksTypeOK /\ [ChecksNext]_checksVars => ChecksTypeOK'
<1> SUFFICES ASSUME ChecksTypeOK, [ChecksNext]_checksVars PROVE ChecksTypeOK'
  OBVIOUS
<1>1. /\ published' \subseteq GoogleKeys /\ cache' \subseteq GoogleKeys
      /\ listed' \subseteq FirstListed /\ failures' \in 0 .. MaxFailures
  BY SharedEffect DEF ChecksTypeOK
<1>2. now' \in Nat /\ fetch' \in {"none", "discovery", "keys"}
  <2>1. ASSUME NEW c \in Checks, Step(c) \/ Retry(c)
        PROVE  now' = now /\ fetch' \in {fetch, "discovery"}
    BY <2>1 DEF Step, Retry, Begin, CheckQuoteShape, CheckSignatureBinding, FetchJwks,
                VerifySignature, CheckWhitelist, world, jwks
  <2>2. CASE Fetching
    BY <2>2 DEF Fetching, Discovered, KeysArrive, FetchFails, Forgotten, world, ChecksTypeOK
  <2>3. CASE Tick \/ Rotate \/ Delist \/ UNCHANGED checksVars
    BY <2>3 DEF Tick, Rotate, Delist, checksVars, jwks, ChecksTypeOK
  <2> QED BY <2>1, <2>2, <2>3 DEF ChecksNext, ChecksTypeOK
<1>3. /\ pc' \in [Checks -> Stages] /\ quote' \in [Checks -> Quotes]
      /\ asked' \in [Checks -> 0 .. MaxFailures]
  <2>1. ASSUME NEW c \in Checks, NEW stage \in Stages, Goes(c, stage), Step(c) \/ Retry(c)
        PROVE  /\ pc' \in [Checks -> Stages] /\ quote' \in [Checks -> Quotes]
               /\ asked' \in [Checks -> 0 .. MaxFailures]
    <3>1. pc' \in [Checks -> Stages]
      BY <2>1 DEF Goes, ChecksTypeOK
    <3>2. quote' = quote \/ \E q \in Quotes : quote' = [quote EXCEPT ![c] = q]
      BY <2>1 DEF Step, Retry, Begin, CheckQuoteShape, CheckSignatureBinding, FetchJwks,
                  VerifySignature, CheckWhitelist
    <3>3. asked' = asked \/ asked' = [asked EXCEPT ![c] = failures]
      BY <2>1 DEF Step, Retry, Begin, CheckQuoteShape, CheckSignatureBinding, FetchJwks,
                  VerifySignature, CheckWhitelist
    <3> QED BY <3>1, <3>2, <3>3 DEF ChecksTypeOK
  <2>2. CASE FetchFails
    BY <2>2 DEF FetchFails, ChecksTypeOK, Stages
  <2> QED BY <2>1, <2>2, CheckEffect DEF ChecksTypeOK
<1> QED BY <1>1, <1>2, <1>3 DEF ChecksTypeOK

\* The state of every verification of verify.ts and of the shared key set of
\* jwks.ts stays typed.
THEOREM ChecksStayTyped == ChecksSpec => []ChecksTypeOK
<1>1. ChecksInit => ChecksTypeOK
  BY InitTypeOK
<1>2. ChecksTypeOK /\ [ChecksNext]_checksVars => ChecksTypeOK'
  BY TypesStay
<1> QED BY <1>1, <1>2, PTL DEF ChecksSpec

-----------------------------------------------------------------------------
(* What has been established about the quote at each stage.                *)

HardwareToken(token) == token.alg # "none" /\ token.iss = Issuer
SignedByGoogle(token) ==
  token.iss = Issuer /\ token.signer \in GoogleKeys /\ token.alg \in {"RS256", "ES256"}

EstablishedBy(stage, q) ==
  /\ stage \in {"keys", "signature", "whitelist", "accepted"} => Bound(q)
  /\ stage \in {"keys", "signature"} => q.mode = 0 /\ HardwareToken(q.token)
  /\ stage \in {"whitelist", "accepted"} /\ q.mode = 0 => SignedByGoogle(q.token)
  /\ stage = "accepted" => q.measurement \in FirstListed

GenuineInv == \A c \in Checks : EstablishedBy(pc[c], quote[c])

\* A signature that verifies names a key of the set the page holds.
LEMMA VerifiedIsSigned ==
  ChecksTypeOK => \A token : Verified(token) => /\ token.signer \in GoogleKeys
                                          /\ token.alg \in {"RS256", "ES256"}
BY DEF ChecksTypeOK, Verified, Candidates, Supports

LEMMA StepEstablishes ==
  ASSUME ChecksTypeOK, NEW c \in Checks, EstablishedBy(pc[c], quote[c]), Step(c) \/ Retry(c)
  PROVE  EstablishedBy(pc'[c], quote'[c])
<1>1. CASE Begin(c)
  BY <1>1 DEF Begin, Goes, ChecksTypeOK, EstablishedBy
<1>2. CASE CheckQuoteShape(c)
  BY <1>2 DEF CheckQuoteShape, Goes, ChecksTypeOK, EstablishedBy
<1>3. CASE CheckSignatureBinding(c)
  BY <1>3, QuotesAssumption DEF CheckSignatureBinding, Goes, ChecksTypeOK, EstablishedBy, Plausible,
     HardwareToken, Modes
<1>4. CASE FetchJwks(c)
  BY <1>4 DEF FetchJwks, Waiting, Goes, ChecksTypeOK, EstablishedBy
<1>5. CASE VerifySignature(c)
  BY <1>5, VerifiedIsSigned DEF VerifySignature, Goes, ChecksTypeOK, EstablishedBy, HardwareToken,
     SignedByGoogle
<1>6. CASE CheckWhitelist(c)
  BY <1>6 DEF CheckWhitelist, Goes, ChecksTypeOK, EstablishedBy
<1>7. CASE Retry(c)
  <2>1. pc'[c] = "shape"
    BY <1>7 DEF Retry, Goes, ChecksTypeOK
  <2> QED BY <2>1 DEF EstablishedBy
<1> QED BY <1>1, <1>2, <1>3, <1>4, <1>5, <1>6, <1>7 DEF Step

\* A step of one check leaves the stage and the quote of the others alone.
LEMMA OthersStay ==
  ASSUME ChecksTypeOK, NEW c \in Checks, Step(c) \/ Retry(c), NEW d \in Checks \ {c}
  PROVE  pc'[d] = pc[d] /\ quote'[d] = quote[d] /\ asked'[d] = asked[d]
BY DEF Step, Retry, Begin, CheckQuoteShape, CheckSignatureBinding, FetchJwks,
       VerifySignature, CheckWhitelist, Goes, ChecksTypeOK

LEMMA GenuineStays == ChecksTypeOK /\ GenuineInv /\ [ChecksNext]_checksVars => GenuineInv'
<1> SUFFICES ASSUME ChecksTypeOK, GenuineInv, [ChecksNext]_checksVars, NEW d \in Checks
             PROVE  EstablishedBy(pc'[d], quote'[d])
  BY DEF GenuineInv, EstablishedBy, Bound, HardwareToken, SignedByGoogle
<1>0. EstablishedBy(pc[d], quote[d])
  BY DEF GenuineInv
<1>1. ASSUME NEW c \in Checks, Step(c) \/ Retry(c) PROVE EstablishedBy(pc'[d], quote'[d])
  <2>1. CASE c = d
    BY <2>1, <1>0, <1>1, StepEstablishes
  <2>2. CASE c # d
    BY <2>2, <1>0, <1>1, OthersStay
  <2> QED BY <2>1, <2>2
<1>2. CASE FetchFails
  <2>1. quote' = quote /\ pc'[d] \in {pc[d], "unreachable"}
    BY <1>2 DEF FetchFails, ChecksTypeOK
  <2> QED BY <2>1, <1>0 DEF EstablishedBy
<1>3. CASE UNCHANGED <<pc, quote, asked>>
  BY <1>3, <1>0
<1> QED BY <1>1, <1>2, <1>3, CheckEffect

\* A quote that passes all three checks vouches for the key the credential
\* is sealed to: a hardware token that passes was signed by a key of Google,
\* whoever else used the key set and whatever was rotated (verify.ts, jwks.ts).
THEOREM PassedQuotesAreGenuine == ChecksSpec => []AcceptedIsGenuine
<1>1. ChecksInit => GenuineInv
  BY DEF ChecksInit, GenuineInv, EstablishedBy
<1>2. ChecksTypeOK /\ GenuineInv /\ [ChecksNext]_checksVars => GenuineInv'
  BY GenuineStays
<1>3. GenuineInv => AcceptedIsGenuine
  BY DEF GenuineInv, EstablishedBy, Bound, SignedByGoogle, AcceptedIsGenuine
<1> QED BY <1>1, <1>2, <1>3, ChecksStayTyped, PTL DEF ChecksSpec

-----------------------------------------------------------------------------
(* Failed fetches.                                                         *)

FailureInv == \A c \in Checks :
  asked[c] <= failures /\ (pc[c] = "unreachable" => asked[c] < failures)

LEMMA FailuresStay == ChecksTypeOK /\ FailureInv /\ [ChecksNext]_checksVars => FailureInv'
<1> SUFFICES ASSUME ChecksTypeOK, FailureInv, [ChecksNext]_checksVars, NEW d \in Checks
             PROVE  /\ asked'[d] <= failures'
                    /\ pc'[d] = "unreachable" => asked'[d] < failures'
  BY DEF FailureInv
<1>0. /\ asked[d] \in Nat /\ failures \in Nat /\ asked[d] <= failures
      /\ pc[d] = "unreachable" => asked[d] < failures
  BY BoundsAssumption DEF ChecksTypeOK, FailureInv
<1>1. ASSUME NEW c \in Checks, Step(c) \/ Retry(c)
      PROVE  /\ asked'[d] <= failures'
             /\ pc'[d] = "unreachable" => asked'[d] < failures'
  <2>0. failures' = failures
    BY <1>1 DEF Step, Retry, Begin, CheckQuoteShape, CheckSignatureBinding, FetchJwks,
                VerifySignature, CheckWhitelist, jwks
  <2>1. CASE c # d
    BY <2>0, <2>1, <1>0, <1>1, OthersStay
  <2>2. CASE c = d
    <3>1. asked'[d] \in {asked[d], failures} /\ (asked'[d] = asked[d] \/ pc'[d] # "unreachable")
      BY <1>1, <2>2 DEF Step, Retry, Begin, CheckQuoteShape, CheckSignatureBinding, FetchJwks,
         VerifySignature, CheckWhitelist, Goes, ChecksTypeOK
    <3>2. pc'[d] # "unreachable"
      BY <1>1, <2>2 DEF Step, Retry, Begin, CheckQuoteShape, CheckSignatureBinding, FetchJwks,
         Waiting, VerifySignature, CheckWhitelist, Goes, ChecksTypeOK
    <3> QED BY <2>0, <3>1, <3>2, <1>0
  <2> QED BY <2>1, <2>2
<1>2. CASE FetchFails
  BY <1>2, <1>0 DEF FetchFails
<1>3. CASE UNCHANGED <<pc, quote, asked>>
  BY <1>3, <1>0, SharedEffect
<1> QED BY <1>1, <1>2, <1>3, CheckEffect

\* A rejected fetch is forgotten, so it fails only the checks that were
\* waiting for it and never one that asks afterwards (jwks.ts).
THEOREM FailuresAreForgotten == ChecksSpec => []FailureIsNotCached
<1>1. ChecksInit => FailureInv
  <2> SUFFICES ASSUME ChecksInit, NEW c \in Checks
               PROVE  asked[c] <= failures /\ pc[c] # "unreachable"
    BY DEF FailureInv
  <2>1. asked[c] = 0 /\ failures = 0 /\ pc[c] = "idle"
    BY DEF ChecksInit
  <2> QED BY <2>1
<1>2. ChecksTypeOK /\ FailureInv /\ [ChecksNext]_checksVars => FailureInv'
  BY FailuresStay
<1>3. FailureInv => FailureIsNotCached
  BY DEF FailureInv, FailureIsNotCached
<1> QED BY <1>1, <1>2, <1>3, ChecksStayTyped, PTL DEF ChecksSpec

==============================================================================
