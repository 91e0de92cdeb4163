----------------------------- MODULE EnclaveProofs -----------------------------
(***************************************************************************)
(* Theorems about the enclave for every instance.  Enclave: any number of  *)
(* handlers, hashes, accounts, restarts and deliveries.  Pricing: any      *)
(* tickers, prices and accounts, and any order of Go's maps.               *)
(***************************************************************************)
EXTENDS EnclaveRefinement, Pricing, SumTheorems

-----------------------------------------------------------------------------
\* Type correctness.

LEMMA IdleIsHandling == NoHandling \in Handling
<1>1. (CHOOSE r \in Request : TRUE) \in Request
  <2>1. PICK h \in Hash : TRUE
    BY EnclaveAssumption
  <2>2. [wallet |-> NoWallet, requestHash |-> h] \in Request
    BY <2>1 DEF Request
  <2> QED
    BY <2>2
<1> QED
  BY <1>1, EnclaveAssumption DEF NoHandling, Handling, Identity

LEMMA BootIdentityIsIdentity == BootIdentity \subseteq Identity
BY DEF BootIdentity, Identity

LEMMA InitTyped == Init => TypeOK
<1> SUFFICES ASSUME Init PROVE TypeOK
  OBVIOUS
<1>1. measurement \in Identity
  BY BootIdentityIsIdentity DEF Init
<1>2. actions \in [Action -> Handling]
  BY IdleIsHandling DEF Init
<1> QED
  BY <1>1, <1>2, EnclaveAssumption DEF Init, TypeOK, IdleQuote, Identity

\* A step of one handler keeps the others.
LEMMA AdvanceTyped ==
  ASSUME TypeOK, NEW a \in Action, NEW pc \in {"idle"} \cup InFlight \cup Ended, Advance(a, pc)
  PROVE  actions' \in [Action -> Handling]
BY DEF TypeOK, Advance, Handling

LEMMA QuoteStepTyped ==
  ASSUME TypeOK, NEW q \in QuoteHandler, QuoteRead(q) \/ QuoteAdopt(q) \/ QuoteRespond(q)
  PROVE  TypeOK'
<1>1. CASE QuoteRead(q)
  BY <1>1 DEF QuoteRead, TypeOK, counters, blobVars
<1>2. CASE QuoteAdopt(q)
  BY <1>2 DEF QuoteAdopt, TypeOK, counters, blobVars, Identity
<1>3. CASE QuoteRespond(q)
  <2>1. quotes' \subseteq Quote
    BY <1>3, EnclaveAssumption DEF QuoteRespond, Served, TypeOK, Quote
  <2> QED
    BY <1>3, <2>1 DEF QuoteRespond, TypeOK, counters, blobVars, IdleQuote, Identity
<1> QED
  BY <1>1, <1>2, <1>3

LEMMA StoreTyped ==
  ASSUME TypeOK, NEW h \in Hash, NEW q \in quotes, NEW acc \in Account,
         StoreSealedBlob(h, SealTo(q, acc))
  PROVE  TypeOK'
<1>1. SealTo(q, acc) \in Blob
  BY DEF TypeOK, Quote, SealTo, Blob
<1> QED
  BY <1>1, EnclaveAssumption DEF StoreSealedBlob, TypeOK, counters, quoteVars

LEMMA TakeTyped ==
  ASSUME TypeOK, NEW a \in Action, NEW r \in Request, Refuse(a, r) \/ Take(a, r)
  PROVE  TypeOK'
<1>1. CASE Refuse(a, r)
  <2>1. actions' \in [Action -> Handling]
    BY <1>1 DEF Refuse, TypeOK, Handling, Ended
  <2> QED
    BY <1>1, <2>1 DEF Refuse, TypeOK, counters, blobVars, quoteVars
<1>2. CASE Take(a, r)
  <2>1. r.requestHash \in Hash /\ sealedBlobs[r.requestHash] \in Blob \cup {NoBlob}
    BY DEF Request, TypeOK
  <2> DEFINE taken == [actions[a] EXCEPT !.pc = "taken", !.request = r, !.process = boot,
                                         !.blob = sealedBlobs[r.requestHash]]
  <2>2. actions' \in [Action -> Handling]
    <3>1. taken \in Handling
      BY <2>1 DEF TypeOK, Handling, InFlight
    <3>2. actions' = [actions EXCEPT ![a] = taken]
      BY <1>2 DEF Take, Taken
    <3> QED
      BY <3>1, <3>2 DEF TypeOK
  <2> QED
    BY <1>2, <2>1, <2>2 DEF Take, TypeOK, counters, quoteVars
<1> QED
  BY <1>1, <1>2

LEMMA HandleTyped ==
  ASSUME TypeOK, NEW a \in Action, Handle(a)
  PROVE  TypeOK'
<1>1. CASE ReadMeasurement(a)
  <2>1. actions' \in [Action -> Handling]
    BY <1>1 DEF ReadMeasurement, TypeOK, Handling, InFlight
  <2> QED
    BY <1>1, <2>1 DEF ReadMeasurement, TypeOK, counters, blobVars, quoteVars
<1>2. CASE Query(a)
  <2>1. actions' \in [Action -> Handling]
    BY <1>2, AdvanceTyped DEF Query, InFlight, Ended
  <2> QED
    BY <1>2, <2>1 DEF Query, TypeOK, counters, blobVars, quoteVars
<1>3. CASE Price(a)
  <2>1. ASSUME NEW t \in Tier,
               actions' = [actions EXCEPT ![a] = [@ EXCEPT !.pc = "reduced", !.tier = t]]
        PROVE  actions' \in [Action -> Handling]
    BY <2>1 DEF TypeOK, Handling, InFlight
  <2>2. actions' \in [Action -> Handling]
    BY <1>3, <2>1, AdvanceTyped DEF Price, Ended
  <2>3. prices' \in {"undialled", "ready", "failed"}
    BY <1>3 DEF Price, TypeOK
  <2> QED
    BY <1>3, <2>2, <2>3 DEF Price, TypeOK, counters, blobVars, quoteVars
<1>4. CASE Count(a)
  <2>1. actions' \in [Action -> Handling]
    BY <1>4, AdvanceTyped DEF Count, InFlight
  <2>2. lastTier' \in Tier
    BY <1>4 DEF Count, TypeOK, Handling
  <2> QED
    BY <1>4, <2>1, <2>2 DEF Count, TypeOK, blobVars, quoteVars
<1>5. CASE Respond(a)
  <2>1. actions' \in [Action -> Handling]
    BY <1>5, AdvanceTyped DEF Respond, Ended
  <2> QED
    BY <1>5, <2>1 DEF Respond, TypeOK, counters, blobVars, quoteVars
<1> QED
  BY <1>1, <1>2, <1>3, <1>4, <1>5 DEF Handle

LEMMA RestartTyped == TypeOK /\ Restart => TypeOK'
<1> SUFFICES ASSUME TypeOK, Restart PROVE TypeOK'
  OBVIOUS
<1>1. actions' \in [Action -> Handling]
  BY DEF Restart, TypeOK, Handling, Ended
<1>2. measurement' \in Identity
  BY BootIdentityIsIdentity DEF Restart
<1> QED
  BY <1>1, <1>2, EnclaveAssumption DEF Restart, TypeOK, IdleQuote, Identity

LEMMA TypePreserved == TypeOK /\ [Next]_vars => TypeOK'
<1> SUFFICES ASSUME TypeOK, [Next]_vars PROVE TypeOK'
  OBVIOUS
<1>1. ASSUME NEW r \in Request, Anchor(r) PROVE TypeOK'
  BY <1>1 DEF Anchor, TypeOK, counters, blobVars, quoteVars
<1>2. CASE UNCHANGED vars
  BY <1>2 DEF vars, TypeOK, counters, blobVars, quoteVars
<1> QED
  BY <1>1, <1>2, QuoteStepTyped, StoreTyped, TakeTyped, HandleTyped, RestartTyped DEF Next

(***************************************************************************)
(* Type correctness: what is pending, in flight and served keeps its type, *)
(* in however many processes follow one another.                           *)
(***************************************************************************)
THEOREM TypeCorrect == Spec => []TypeOK
BY InitTyped, TypePreserved, PTL DEF Spec

-----------------------------------------------------------------------------
\* What the steps of a handler have in common.

Working == {"queried", "reduced", "counted", "attested"}

LEMMA HandleEffect ==
  ASSUME TypeOK, NEW a \in Action, Handle(a)
  PROVE  /\ UNCHANGED <<boot, measurement, blobVars, quoteVars>>
         /\ actions[a].pc \in InFlight
         /\ actions'[a].pc \in (InFlight \ {"taken"}) \cup {"failed", "attested"}
         /\ actions'[a].blob = actions[a].blob
         /\ actions'[a].request = actions[a].request
         /\ actions'[a].process = actions[a].process
         /\ actions'[a].pc \in Working =>
              /\ actions'[a].measurement = actions[a].measurement
              /\ actions[a].pc \in Working \/ Opens(a)
         /\ actions'[a].pc \in {"counted", "attested"}
              <=> actions[a].pc \in {"reduced", "counted"}
         /\ attestationCount' = IF actions[a].pc = "reduced" THEN attestationCount + 1
                                                              ELSE attestationCount
         /\ \A b \in Action \ {a} : actions'[b] = actions[b]
<1> USE DEF TypeOK, Handling, InFlight, Working, counters
<1>1. CASE ReadMeasurement(a)
  BY <1>1 DEF ReadMeasurement
<1>2. CASE Query(a)
  BY <1>2 DEF Query, Advance
<1>3. CASE Price(a)
  <2>1. CASE Advance(a, "failed")
    BY <1>3, <2>1 DEF Price, Advance
  <2>2. ASSUME NEW t \in Tier,
               actions' = [actions EXCEPT ![a] = [@ EXCEPT !.pc = "reduced", !.tier = t]]
        PROVE  /\ actions'[a].pc = "reduced"
               /\ actions'[a].blob = actions[a].blob
               /\ actions'[a].request = actions[a].request
               /\ actions'[a].process = actions[a].process
               /\ actions'[a].measurement = actions[a].measurement
               /\ \A b \in Action \ {a} : actions'[b] = actions[b]
    BY <2>2
  <2> QED
    BY <1>3, <2>1, <2>2 DEF Price
<1>4. CASE Count(a)
  BY <1>4 DEF Count, Advance
<1>5. CASE Respond(a)
  BY <1>5 DEF Respond, Advance
<1> QED
  BY <1>1, <1>2, <1>3, <1>4, <1>5 DEF Handle

LEMMA TakeEffect ==
  ASSUME TypeOK, NEW a \in Action, NEW r \in Request, Take(a, r)
  PROVE  /\ UNCHANGED <<boot, measurement, attestationCount, deliveries, quoteVars>>
         /\ r.requestHash \in Hash
         /\ actions[a].pc = "idle"
         /\ sealedBlobs[r.requestHash] # NoBlob
         /\ sealedBlobs' = [sealedBlobs EXCEPT ![r.requestHash] = NoBlob]
         /\ actions'[a].pc = "taken"
         /\ actions'[a].request = r
         /\ actions'[a].process = boot
         /\ actions'[a].blob = sealedBlobs[r.requestHash]
         /\ \A b \in Action \ {a} : actions'[b] = actions[b]
BY DEF Take, Taken, Answerable, TypeOK, Handling, Request, counters

LEMMA RefuseEffect ==
  ASSUME TypeOK, NEW a \in Action, NEW r \in Request, Refuse(a, r)
  PROVE  /\ UNCHANGED <<boot, measurement, attestationCount, blobVars, quoteVars>>
         /\ actions[a].pc = "idle"
         /\ actions'[a].pc = "refused"
         /\ actions'[a].process = boot
         /\ \A b \in Action \ {a} : actions'[b] = actions[b]
BY DEF Refuse, TypeOK, Handling, counters

\* A handler in flight is lost; the others keep what they ended with.
LEMMA RestartEffect ==
  ASSUME TypeOK, Restart, NEW a \in Action
  PROVE  /\ actions'[a].pc = IF actions[a].pc \in InFlight THEN "lost" ELSE actions[a].pc
         /\ actions'[a].blob = actions[a].blob
         /\ actions'[a].request = actions[a].request
         /\ actions'[a].process = actions[a].process
         /\ actions'[a].measurement = actions[a].measurement
BY DEF Restart, TypeOK, Handling

-----------------------------------------------------------------------------

(***************************************************************************)
(* A process that has served a quote signed by the launcher has adopted    *)
(* the digest, and nothing but its end takes the digest away.              *)
(***************************************************************************)
IdentityInv ==
  /\ \A q \in quotes :
       /\ q.key <= boot
       /\ q.mode = 0 => /\ q.measurement = ImageDigest
                        /\ q.key = boot => measurement = ImageDigest
  /\ \A h \in QuoteHandler :
       quoting[h].pc = "adopted" => /\ quoting[h].measurement = ImageDigest
                                    /\ measurement = ImageDigest

LEMMA IdentityPreserved == TypeOK /\ IdentityInv /\ [Next]_vars => IdentityInv'
<1> SUFFICES ASSUME TypeOK, IdentityInv, [Next]_vars PROVE IdentityInv'
  OBVIOUS
<1>1. ASSUME NEW h \in QuoteHandler, QuoteRead(h) PROVE IdentityInv'
  BY <1>1 DEF QuoteRead, IdentityInv, TypeOK
<1>2. ASSUME NEW h \in QuoteHandler, QuoteAdopt(h) PROVE IdentityInv'
  BY <1>2 DEF QuoteAdopt, IdentityInv, TypeOK
<1>3. ASSUME NEW h \in QuoteHandler, QuoteRespond(h) PROVE IdentityInv'
  <2>1. \A q \in quotes' \ quotes :
          /\ q.key = boot
          /\ q.mode = 0 => quoting[h].pc = "adopted" /\ q.measurement = quoting[h].measurement
    BY <1>3 DEF QuoteRespond, Served
  <2>2. boot <= boot
    BY EnclaveAssumption DEF TypeOK
  <2> QED
    BY <1>3, <2>1, <2>2 DEF QuoteRespond, IdentityInv, TypeOK, IdleQuote
<1>4. CASE Restart
  <2>1. \A q \in quotes : q.key \in Nat /\ q.key < boot'
    BY <1>4, EnclaveAssumption DEF Restart, IdentityInv, TypeOK, Quote
  <2>2. \A h \in QuoteHandler : quoting'[h].pc # "adopted"
    BY <1>4 DEF Restart, IdleQuote
  <2> QED
    BY <1>4, <2>1, <2>2, EnclaveAssumption DEF Restart, IdentityInv, TypeOK
<1>5. CASE UNCHANGED <<boot, measurement, quotes, quoting>>
  BY <1>5 DEF IdentityInv
<1>6. ASSUME NEW a \in Action, Handle(a)
      PROVE  UNCHANGED <<boot, measurement, quotes, quoting>>
  BY <1>6, HandleEffect DEF quoteVars
<1> QED
  BY <1>1, <1>2, <1>3, <1>4, <1>5, <1>6
     DEF Next, vars, quoteVars, StoreSealedBlob, Refuse, Take, Anchor

(***************************************************************************)
(* A signed quote stays good while its process runs (serveQuote,           *)
(* extension.go:172-176).                                                  *)
(***************************************************************************)
THEOREM SignedQuotesStayGood == Spec => []SignedQuotesOpen
<1>1. Init => IdentityInv
  BY DEF Init, IdentityInv, IdleQuote
<1>2. IdentityInv => SignedQuotesOpen
  BY DEF IdentityInv, SignedQuotesOpen
<1> QED
  BY <1>1, <1>2, TypeCorrect, IdentityPreserved, PTL DEF Spec

-----------------------------------------------------------------------------

\* A quote with this key and this identity has been served.
ServedFor(blob) ==
  \E q \in quotes : q.key = blob.key /\ q.measurement = blob.info

(***************************************************************************)
(* Every ciphertext, pending or taken, was sealed to a quote that has been *)
(* served, and a handler that got past unsealing opened it with its own    *)
(* process's key under the identity it read.                               *)
(***************************************************************************)
OpenedAsSealed(a) ==
  /\ actions[a].pc \notin {"idle", "refused"} => ServedFor(actions[a].blob)
  /\ actions[a].pc \in Working => Opens(a)

SealInv ==
  /\ \A h \in Hash : sealedBlobs[h] # NoBlob => ServedFor(sealedBlobs[h])
  /\ \A a \in Action : OpenedAsSealed(a)

\* Quotes are never taken back.
LEMMA ServedStays ==
  ASSUME quotes \subseteq quotes', NEW blob, ServedFor(blob)
  PROVE  \E q \in quotes' : q.key = blob.key /\ q.measurement = blob.info
BY DEF ServedFor

LEMMA QuotesGrow == [Next]_vars /\ TypeOK => quotes \subseteq quotes'
<1>1. ASSUME TypeOK, NEW a \in Action, Handle(a) PROVE quotes' = quotes
  BY <1>1, HandleEffect DEF quoteVars
<1>2. ASSUME NEW q \in QuoteHandler, QuoteRespond(q) PROVE quotes \subseteq quotes'
  BY <1>2 DEF QuoteRespond, Served
<1> QED
  BY <1>1, <1>2
     DEF Next, vars, quoteVars, QuoteRead, QuoteAdopt, StoreSealedBlob, Refuse, Take,
         Restart, Anchor

LEMMA SealPreserved == TypeOK /\ SealInv /\ [Next]_vars => SealInv'
<1> SUFFICES ASSUME TypeOK, SealInv, [Next]_vars PROVE SealInv'
  OBVIOUS
<1>q. quotes \subseteq quotes'
  BY QuotesGrow
<1>1. CASE UNCHANGED <<sealedBlobs, actions>>
  BY <1>1, <1>q, ServedStays DEF SealInv, OpenedAsSealed, ServedFor, Opens
<1>2. ASSUME NEW h \in Hash, NEW q \in quotes, NEW acc \in Account,
             StoreSealedBlob(h, SealTo(q, acc))
      PROVE  SealInv'
  <2>1. quotes' = quotes /\ actions' = actions
    BY <1>2 DEF StoreSealedBlob, quoteVars
  <2>2. ServedFor(SealTo(q, acc))
    BY DEF ServedFor, SealTo
  <2>3. \A g \in Hash : sealedBlobs'[g] # NoBlob => ServedFor(sealedBlobs'[g])
    BY <1>2, <2>2 DEF StoreSealedBlob, SealInv, TypeOK
  <2> QED
    BY <2>1, <2>3 DEF SealInv, OpenedAsSealed, ServedFor, Opens
<1>3. ASSUME NEW a \in Action, NEW r \in Request, Refuse(a, r) PROVE SealInv'
  <2>1. UNCHANGED <<sealedBlobs, quotes>>
    BY <1>3, RefuseEffect DEF blobVars, quoteVars
  <2>2. \A b \in Action : OpenedAsSealed(b)'
    BY <1>3, <2>1, RefuseEffect DEF SealInv, OpenedAsSealed, ServedFor, Opens, Working
  <2> QED
    BY <2>1, <2>2 DEF SealInv, ServedFor
<1>4. ASSUME NEW a \in Action, NEW r \in Request, Take(a, r) PROVE SealInv'
  <2>1. quotes' = quotes
    BY <1>4, TakeEffect DEF quoteVars
  <2>2. ServedFor(sealedBlobs[r.requestHash])
    BY <1>4, TakeEffect DEF SealInv
  <2>3. \A b \in Action : OpenedAsSealed(b)'
    BY <1>4, <2>1, <2>2, TakeEffect DEF SealInv, OpenedAsSealed, ServedFor, Opens, Working
  <2>4. \A g \in Hash : sealedBlobs'[g] # NoBlob => sealedBlobs'[g] = sealedBlobs[g]
    BY <1>4, TakeEffect DEF TypeOK
  <2> QED
    BY <2>1, <2>3, <2>4 DEF SealInv, ServedFor
<1>5. ASSUME NEW a \in Action, Handle(a) PROVE SealInv'
  <2>1. UNCHANGED <<sealedBlobs, quotes>>
    BY <1>5, HandleEffect DEF blobVars, quoteVars
  <2>2. OpenedAsSealed(a)'
    BY <1>5, <2>1, HandleEffect DEF SealInv, OpenedAsSealed, ServedFor, Opens, InFlight
  <2>3. \A b \in Action \ {a} : OpenedAsSealed(b)'
    BY <1>5, <2>1, HandleEffect DEF SealInv, OpenedAsSealed, ServedFor, Opens
  <2> QED
    BY <2>1, <2>2, <2>3 DEF SealInv, ServedFor
<1>6. CASE Restart
  <2>1. quotes' = quotes /\ \A h \in Hash : sealedBlobs'[h] = NoBlob
    BY <1>6 DEF Restart
  <2>2. \A a \in Action : OpenedAsSealed(a)'
    BY <1>6, <2>1, RestartEffect
       DEF SealInv, OpenedAsSealed, ServedFor, Opens, Working, InFlight
  <2> QED
    BY <2>1, <2>2 DEF SealInv
<1> QED
  BY <1>1, <1>2, <1>3, <1>4, <1>5, <1>6
     DEF Next, vars, blobVars, QuoteRead, QuoteAdopt, QuoteRespond, Anchor

LEMMA SealHolds == Spec => []SealInv
<1>1. Init => SealInv
  BY DEF Init, SealInv, OpenedAsSealed, NoHandling, Working
<1> QED
  BY <1>1, TypeCorrect, SealPreserved, PTL DEF Spec

(***************************************************************************)
(* What is attested was sealed to a served quote of the same process and   *)
(* identity, whatever the launcher did meanwhile (processAttestSolvency,   *)
(* extension.go:329-351).                                                  *)
(***************************************************************************)
THEOREM AttestationsAreAsSealed == Spec => []AttestedAsSealed
<1>1. SealInv => AttestedAsSealed
  BY DEF SealInv, OpenedAsSealed, ServedFor, Opens, Working, AttestedAsSealed, Attested
<1> QED
  BY <1>1, SealHolds, PTL

-----------------------------------------------------------------------------

\* Counting handlers.
LEMMA HandlersAreFinite ==
  ASSUME NEW S \in SUBSET Action
  PROVE  IsFiniteSet(S) /\ Cardinality(S) \in Nat
BY FS_Subset, FS_CardinalityType, EnclaveAssumption

LEMMA OneMore ==
  ASSUME NEW S \in SUBSET Action, NEW a \in Action, a \notin S
  PROVE  Cardinality(S \cup {a}) = Cardinality(S) + 1
BY FS_AddElement, HandlersAreFinite

\* The handlers that took a ciphertext posted under h.
Takers(h) ==
  {a \in Action : /\ actions[a].pc \notin {"idle", "refused"}
                  /\ actions[a].request.requestHash = h}

Waiting(h) == IF sealedBlobs[h] = NoBlob THEN 0 ELSE 1

LEMMA SingleUsePreserved ==
  TypeOK /\ CiphertextIsSingleUse /\ [Next]_vars => CiphertextIsSingleUse'
<1> SUFFICES ASSUME TypeOK, CiphertextIsSingleUse, [Next]_vars, NEW h \in Hash
             PROVE  Cardinality(Takers(h)') + Waiting(h)' <= deliveries'[h]
  BY DEF CiphertextIsSingleUse, Takers, Waiting
<1>1. /\ Cardinality(Takers(h)) \in Nat
      /\ Waiting(h) \in {0, 1}
      /\ deliveries[h] \in Nat
      /\ Cardinality(Takers(h)) + Waiting(h) <= deliveries[h]
  BY HandlersAreFinite, EnclaveAssumption
     DEF Takers, Waiting, TypeOK, CiphertextIsSingleUse
<1>2. CASE /\ Takers(h)' = Takers(h)
           /\ sealedBlobs'[h] \in {sealedBlobs[h], NoBlob}
           /\ deliveries'[h] = deliveries[h]
  BY <1>1, <1>2 DEF Waiting
<1>3. CASE UNCHANGED <<actions, sealedBlobs, deliveries>>
  BY <1>2, <1>3 DEF Takers
<1>4. ASSUME NEW g \in Hash, NEW blob, StoreSealedBlob(g, blob)
      PROVE  Cardinality(Takers(h)') + Waiting(h)' <= deliveries'[h]
  <2>1. Takers(h)' = Takers(h)
    BY <1>4 DEF StoreSealedBlob, Takers
  <2>2. CASE g = h
    <3>1. deliveries'[h] = deliveries[h] + 1 /\ Waiting(h)' \in {0, 1}
      BY <1>4, <2>2 DEF StoreSealedBlob, TypeOK, Waiting
    <3> QED
      BY <1>1, <2>1, <3>1
  <2>3. CASE g # h
    BY <1>2, <1>4, <2>1, <2>3 DEF StoreSealedBlob, TypeOK
  <2> QED
    BY <2>2, <2>3
<1>5. ASSUME NEW a \in Action, NEW r \in Request, Refuse(a, r)
      PROVE  Cardinality(Takers(h)') + Waiting(h)' <= deliveries'[h]
  <2>1. Takers(h)' = Takers(h)
    BY <1>5, RefuseEffect DEF Takers
  <2> QED
    BY <1>2, <1>5, <2>1, RefuseEffect DEF blobVars
<1>6. ASSUME NEW a \in Action, NEW r \in Request, Take(a, r)
      PROVE  Cardinality(Takers(h)') + Waiting(h)' <= deliveries'[h]
  <2>1. CASE r.requestHash = h
    <3>1. Takers(h)' = Takers(h) \cup {a} /\ a \notin Takers(h)
      BY <1>6, <2>1, TakeEffect DEF Takers
    <3>2. Cardinality(Takers(h)') = Cardinality(Takers(h)) + 1
      BY <3>1, OneMore DEF Takers
    <3>3. Waiting(h) = 1 /\ Waiting(h)' = 0 /\ deliveries'[h] = deliveries[h]
      BY <1>6, <2>1, TakeEffect DEF Waiting, TypeOK
    <3> QED
      BY <1>1, <3>2, <3>3
  <2>2. CASE r.requestHash # h
    <3>1. Takers(h)' = Takers(h)
      BY <1>6, <2>2, TakeEffect DEF Takers
    <3> QED
      BY <1>2, <1>6, <2>2, <3>1, TakeEffect DEF TypeOK
  <2> QED
    BY <2>1, <2>2
<1>7. ASSUME NEW a \in Action, Handle(a)
      PROVE  Cardinality(Takers(h)') + Waiting(h)' <= deliveries'[h]
  <2>1. Takers(h)' = Takers(h)
    BY <1>7, HandleEffect DEF Takers, InFlight
  <2> QED
    BY <1>2, <1>7, <2>1, HandleEffect DEF blobVars
<1>8. CASE Restart
  <2>1. Takers(h)' = Takers(h)
    BY <1>8, RestartEffect DEF Takers, InFlight
  <2> QED
    BY <1>2, <1>8, <2>1 DEF Restart
<1> QED
  BY <1>3, <1>4, <1>5, <1>6, <1>7, <1>8
     DEF Next, vars, blobVars, QuoteRead, QuoteAdopt, QuoteRespond, Anchor

(***************************************************************************)
(* Handlers that race for one hash never use a ciphertext twice            *)
(* (takeSealedBlob, enclave.go:110).                                       *)
(***************************************************************************)
THEOREM CiphertextsAreUsedOnce == Spec => []CiphertextIsSingleUse
<1>1. Init => CiphertextIsSingleUse
  <2> SUFFICES ASSUME Init, NEW h \in Hash
               PROVE  Cardinality(Takers(h)) + Waiting(h) <= deliveries[h]
    BY DEF CiphertextIsSingleUse, Takers, Waiting
  <2>1. Takers(h) = {} /\ Waiting(h) = 0 /\ deliveries[h] = 0
    BY DEF Init, Takers, Waiting, NoHandling
  <2> QED
    BY <2>1, FS_EmptySet
<1> QED
  BY <1>1, TypeCorrect, SingleUsePreserved, PTL DEF Spec

-----------------------------------------------------------------------------

\* The handlers whose attestation this process has counted.
Counted ==
  {a \in Action : actions[a].process = boot /\ actions[a].pc \in {"counted", "attested"}}

(***************************************************************************)
(* The counter is exact because a handler in flight belongs to the running *)
(* process and none is from a later one: a restart sets the counter to 0   *)
(* and leaves nobody to be counted.                                        *)
(***************************************************************************)
CountInv ==
  /\ \A a \in Action : /\ actions[a].process <= boot
                       /\ actions[a].pc \in InFlight => actions[a].process = boot
  /\ attestationCount = Cardinality(Counted)

LEMMA CountPreserved == TypeOK /\ CountInv /\ [Next]_vars => CountInv'
<1> SUFFICES ASSUME TypeOK, CountInv, [Next]_vars PROVE CountInv'
  OBVIOUS
<1>b. boot \in Nat /\ \A a \in Action : actions[a].process \in Nat
  BY EnclaveAssumption DEF TypeOK, Handling
<1>1. CASE UNCHANGED <<boot, actions, attestationCount>>
  BY <1>1 DEF CountInv, Counted
<1>2. ASSUME NEW a \in Action, NEW r \in Request, Refuse(a, r) PROVE CountInv'
  <2>1. Counted' = Counted
    BY <1>2, RefuseEffect DEF Counted
  <2>2. \A b \in Action : /\ actions'[b].process <= boot'
                          /\ actions'[b].pc \in InFlight => actions'[b].process = boot'
    BY <1>2, <1>b, RefuseEffect DEF CountInv, InFlight
  <2> QED
    BY <1>2, <2>1, <2>2, RefuseEffect DEF CountInv
<1>3. ASSUME NEW a \in Action, NEW r \in Request, Take(a, r) PROVE CountInv'
  <2>1. Counted' = Counted
    BY <1>3, TakeEffect DEF Counted
  <2>2. \A b \in Action : /\ actions'[b].process <= boot'
                          /\ actions'[b].pc \in InFlight => actions'[b].process = boot'
    BY <1>3, <1>b, TakeEffect DEF CountInv, InFlight
  <2> QED
    BY <1>3, <2>1, <2>2, TakeEffect DEF CountInv
<1>4. ASSUME NEW a \in Action, Handle(a) PROVE CountInv'
  <2>1. boot' = boot /\ actions'[a].process = boot
    BY <1>4, HandleEffect DEF CountInv
  <2>2. \A b \in Action : /\ actions'[b].process <= boot'
                          /\ actions'[b].pc \in InFlight => actions'[b].process = boot'
    BY <1>4, <1>b, <2>1, HandleEffect DEF CountInv
  <2>3. CASE actions[a].pc = "reduced"
    <3>1. Counted' = Counted \cup {a} /\ a \notin Counted
      BY <1>4, <2>1, <2>3, HandleEffect DEF Counted
    <3>2. Cardinality(Counted') = Cardinality(Counted) + 1
      BY <3>1, OneMore DEF Counted
    <3> QED
      BY <1>4, <2>2, <2>3, <3>2, HandleEffect DEF CountInv
  <2>4. CASE actions[a].pc # "reduced"
    <3>1. Counted' = Counted
      BY <1>4, <2>1, <2>4, HandleEffect DEF Counted, InFlight
    <3> QED
      BY <1>4, <2>2, <2>4, <3>1, HandleEffect DEF CountInv
  <2> QED
    BY <2>3, <2>4
<1>5. CASE Restart
  <2>1. \A a \in Action : actions'[a].process < boot' /\ actions'[a].pc \notin InFlight
    BY <1>5, <1>b, RestartEffect DEF Restart, CountInv, InFlight
  <2>2. Counted' = {} /\ attestationCount' = 0
    BY <1>5, <1>b, <2>1, RestartEffect DEF Restart, Counted
  <2>3. \A a \in Action : actions'[a].process <= boot'
    BY <1>5, <1>b, RestartEffect DEF Restart, CountInv
  <2> QED
    BY <2>1, <2>2, <2>3, FS_EmptySet DEF CountInv
<1> QED
  BY <1>1, <1>2, <1>3, <1>4, <1>5
     DEF Next, vars, counters, QuoteRead, QuoteAdopt, QuoteRespond, StoreSealedBlob, Anchor

LEMMA CountHolds == Spec => []CountInv
<1>1. Init => CountInv
  <2> SUFFICES ASSUME Init PROVE CountInv
    OBVIOUS
  <2>1. \A a \in Action : actions[a].process = 1 /\ actions[a].pc = "idle"
    BY DEF Init, NoHandling
  <2>2. Counted = {}
    BY <2>1 DEF Counted
  <2> QED
    BY <2>1, <2>2, FS_EmptySet DEF Init, CountInv, InFlight
<1> QED
  BY <1>1, TypeCorrect, CountPreserved, PTL DEF Spec

(***************************************************************************)
(* The count on GET /state is that of the attestations of this process     *)
(* (extension.go:339-342), with any number of handlers finishing at once.  *)
(***************************************************************************)
THEOREM CounterIsExact == Spec => []CountIsExact
<1>1. CountInv => CountIsExact
  BY DEF CountInv, Counted, CountIsExact
<1> QED
  BY <1>1, CountHolds, PTL

-----------------------------------------------------------------------------
(* The enclave implements the service.                                     *)

\* Whoever got past the lookup has a ciphertext.
HandlersHaveBlobs ==
  \A a \in Action : actions[a].pc \notin {"idle", "refused"} => actions[a].blob # NoBlob

LEMMA BlobsPreserved == TypeOK /\ HandlersHaveBlobs /\ [Next]_vars => HandlersHaveBlobs'
<1> SUFFICES ASSUME TypeOK, HandlersHaveBlobs, [Next]_vars PROVE HandlersHaveBlobs'
  OBVIOUS
<1>1. CASE UNCHANGED actions
  BY <1>1 DEF HandlersHaveBlobs
<1>2. ASSUME NEW a \in Action, NEW r \in Request, Refuse(a, r) PROVE HandlersHaveBlobs'
  BY <1>2, RefuseEffect DEF HandlersHaveBlobs
<1>3. ASSUME NEW a \in Action, NEW r \in Request, Take(a, r) PROVE HandlersHaveBlobs'
  BY <1>3, TakeEffect DEF HandlersHaveBlobs
<1>4. ASSUME NEW a \in Action, Handle(a) PROVE HandlersHaveBlobs'
  BY <1>4, HandleEffect DEF HandlersHaveBlobs, InFlight
<1>5. CASE Restart
  BY <1>5, RestartEffect DEF HandlersHaveBlobs, InFlight
<1> QED
  BY <1>1, <1>2, <1>3, <1>4, <1>5
     DEF Next, vars, QuoteRead, QuoteAdopt, QuoteRespond, StoreSealedBlob, Anchor

\* What the mapping reads of one handler.
Seen(a) == <<HeldBy(a), MadeBy(a), actions[a].pc = "attested">>

\* A step that shows in no handler, quote or ciphertext is none of the service.
LEMMA UnseenStutters ==
  ASSUME UNCHANGED <<boot, quotes, sealedBlobs, attestationCount>>,
         \A a \in Action : UNCHANGED Seen(a)
  PROVE  UNCHANGED Service!vars
<1>1. \A a \in Action : HeldBy(a)' = HeldBy(a) /\ MadeBy(a)' = MadeBy(a)
  BY DEF Seen
<1>2. \A a \in Action : (actions[a].pc = "attested")' = (actions[a].pc = "attested")
  BY DEF Seen
<1>3. Attested' = Attested
  BY <1>2 DEF Attested
<1> QED
  BY <1>1, <1>3 DEF Service!vars

\* What quotes promise.
LEMMA OneMorePromise ==
  ASSUME NEW S, NEW q
  PROVE  {[key |-> r.key, info |-> r.measurement] : r \in S \cup {q}}
           = {[key |-> r.key, info |-> r.measurement] : r \in S}
               \cup {[key |-> q.key, info |-> q.measurement]}
OBVIOUS

LEMMA QuoteIsAPromise ==
  ASSUME TypeOK, NEW g \in QuoteHandler, QuoteRespond(g)
  PROVE  Service!Next
<1>1. PICK said \in Identity : said = quoting[g].measurement
  BY DEF TypeOK
<1>2. PICK q : quotes' = quotes \cup {q} /\ q.key = boot /\ q.measurement = said
  <2> DEFINE mode == IF quoting[g].pc = "adopted" THEN 0 ELSE 1
             served == [key |-> boot, measurement |-> said, mode |-> mode]
  <2>1. quotes' = quotes \cup {served}
    BY <1>1 DEF QuoteRespond, Served
  <2>2. served.key = boot /\ served.measurement = said
    OBVIOUS
  <2> QED
    BY <2>1, <2>2
<1>3. {[key |-> r.key, info |-> r.measurement] : r \in quotes'}
        = {[key |-> r.key, info |-> r.measurement] : r \in quotes}
            \cup {[key |-> boot, info |-> said]}
  BY <1>2, OneMorePromise
<1>4. UNCHANGED <<boot, sealedBlobs, actions, attestationCount>>
  BY DEF QuoteRespond, blobVars, counters
<1>5. Attested' = Attested /\ \A a \in Action : HeldBy(a)' = HeldBy(a) /\ MadeBy(a)' = MadeBy(a)
  BY <1>4 DEF Attested, HeldBy, MadeBy
<1>6. Service!Promise(said)
  BY <1>3, <1>4, <1>5 DEF Service!Promise
<1> QED
  BY <1>6 DEF Service!Next

LEMMA DeliveryIsADelivery ==
  ASSUME TypeOK, NEW h \in Hash, NEW q \in quotes, NEW acc \in Account,
         StoreSealedBlob(h, SealTo(q, acc))
  PROVE  Service!Next
<1> DEFINE p == [key |-> q.key, info |-> q.measurement]
<1>1. p \in {[key |-> r.key, info |-> r.measurement] : r \in quotes}
  OBVIOUS
<1>2. UNCHANGED <<boot, quotes, actions, attestationCount>>
  BY DEF StoreSealedBlob, quoteVars, counters
<1>3. Attested' = Attested /\ \A a \in Action : HeldBy(a)' = HeldBy(a) /\ MadeBy(a)' = MadeBy(a)
  BY <1>2 DEF Attested, HeldBy, MadeBy
<1>4. sealedBlobs' = [sealedBlobs EXCEPT ![h] = [key |-> p.key, info |-> p.info, account |-> acc]]
  BY DEF StoreSealedBlob, SealTo
<1>5. Service!Deliver(h, p, acc)
  BY <1>2, <1>3, <1>4 DEF Service!Deliver
<1> QED
  BY <1>1, <1>5 DEF Service!Next

LEMMA TakeIsATake ==
  ASSUME TypeOK, NEW a \in Action, NEW r \in Request, Take(a, r)
  PROVE  Service!Next
<1> DEFINE h == r.requestHash
           held == [b \in Action |-> HeldBy(b)]
           made == [b \in Action |-> MadeBy(b)]
<1>1. h \in Hash /\ sealedBlobs[h] # NoBlob /\ sealedBlobs' = [sealedBlobs EXCEPT ![h] = NoBlob]
  BY TakeEffect
<1>2. UNCHANGED <<boot, quotes, attestationCount>>
  BY TakeEffect DEF quoteVars
<1>3. HeldBy(a) = NoBlob /\ MadeBy(a) = NoBlob
  BY TakeEffect DEF HeldBy, MadeBy, Holding
<1>4. HeldBy(a)' = sealedBlobs[h] /\ MadeBy(a)' = NoBlob
  BY TakeEffect DEF HeldBy, MadeBy, Holding
<1>5. \A b \in Action \ {a} : HeldBy(b)' = HeldBy(b) /\ MadeBy(b)' = MadeBy(b)
  BY TakeEffect DEF HeldBy, MadeBy
<1>6. Attested' = Attested
  BY TakeEffect DEF Attested
<1>7. held' = [held EXCEPT ![a] = sealedBlobs[h]] /\ made' = made
  BY <1>3, <1>4, <1>5
<1>8. Service!Take(a, h)
  BY <1>1, <1>2, <1>3, <1>6, <1>7 DEF Service!Take
<1> QED
  BY <1>1, <1>8 DEF Service!Next

LEMMA RefusalStutters ==
  ASSUME TypeOK, NEW a \in Action, NEW r \in Request, Refuse(a, r)
  PROVE  UNCHANGED Service!vars
<1>1. UNCHANGED <<boot, quotes, sealedBlobs, attestationCount>>
  BY RefuseEffect DEF blobVars, quoteVars
<1>2. \A b \in Action : UNCHANGED Seen(b)
  BY RefuseEffect DEF Seen, HeldBy, MadeBy, Holding
<1> QED
  BY <1>1, <1>2, UnseenStutters

\* A handler that fails drops its ciphertext.
LEMMA FailureIsADrop ==
  ASSUME TypeOK, NEW a \in Action, Handle(a), actions[a].pc \in Holding, Advance(a, "failed")
  PROVE  Service!Next
<1> DEFINE held == [b \in Action |-> HeldBy(b)]
<1>1. actions'[a].pc = "failed"
  BY DEF Advance, TypeOK, Handling
<1>2. UNCHANGED <<boot, quotes, sealedBlobs, attestationCount>>
  BY HandleEffect, <1>1 DEF blobVars, quoteVars, Holding
<1>3. HeldBy(a)' = NoBlob /\ MadeBy(a)' = MadeBy(a)
  BY <1>1 DEF HeldBy, MadeBy, Holding
<1>4. \A b \in Action \ {a} : HeldBy(b)' = HeldBy(b) /\ MadeBy(b)' = MadeBy(b)
  BY HandleEffect DEF HeldBy, MadeBy
<1>5. Attested' = Attested
  BY HandleEffect, <1>1 DEF Attested, Holding
<1>6. Service!Drop(a)
  BY <1>2, <1>3, <1>4, <1>5 DEF Service!Drop
<1> QED
  BY <1>6 DEF Service!Next

\* A handler that goes on with its ciphertext shows nothing.
LEMMA WorkStutters ==
  ASSUME TypeOK, NEW a \in Action, Handle(a), actions[a].pc \in Holding \ {"reduced"},
         actions'[a].pc \in Holding
  PROVE  UNCHANGED Service!vars
<1>1. UNCHANGED <<boot, quotes, sealedBlobs, attestationCount>>
  BY HandleEffect DEF blobVars, quoteVars
<1>2. UNCHANGED Seen(a)
  BY HandleEffect DEF Seen, HeldBy, MadeBy, Holding
<1>3. \A b \in Action \ {a} : UNCHANGED Seen(b)
  BY HandleEffect DEF Seen, HeldBy, MadeBy
<1> QED
  BY <1>1, <1>2, <1>3, UnseenStutters

(***************************************************************************)
(* The step that matters: what the handler puts together from its locals   *)
(* is the ciphertext it took.  It opened, so its key is the handler's      *)
(* process and its info the identity read; and the handler's process is    *)
(* the one that runs.                                                      *)
(***************************************************************************)
LEMMA CountIsAnAttestation ==
  ASSUME TypeOK, SealInv, CountInv, HandlersHaveBlobs, NEW a \in Action, Count(a)
  PROVE  Service!Next
<1> DEFINE held == [b \in Action |-> HeldBy(b)]
           made == [b \in Action |-> MadeBy(b)]
<1>h. Handle(a) /\ actions[a].pc = "reduced" /\ actions'[a].pc = "counted"
  BY DEF Handle, Count, Advance, TypeOK, Handling
<1>1. /\ UNCHANGED <<boot, quotes, sealedBlobs>>
      /\ attestationCount' = attestationCount + 1
  BY <1>h, HandleEffect DEF blobVars, quoteVars
<1>2. actions[a].blob \in Blob
  BY <1>h DEF HandlersHaveBlobs, TypeOK, Handling
<1>3. Opens(a) /\ actions[a].process = boot
  BY <1>h DEF SealInv, OpenedAsSealed, Working, CountInv, InFlight
<1>4. HeldBy(a) = actions[a].blob /\ actions[a].blob # NoBlob /\ actions[a].blob.key = boot
  BY <1>h, <1>2, <1>3, NoBlobAssumption DEF HeldBy, Holding, Opens
<1>5. HeldBy(a)' = NoBlob
  BY <1>h DEF HeldBy, Holding
<1>6. MadeBy(a)' = actions[a].blob
  <2>1. /\ actions'[a].process = actions[a].process
        /\ actions'[a].measurement = actions[a].measurement
        /\ actions'[a].blob = actions[a].blob
    BY <1>h, HandleEffect DEF Working
  <2>2. MadeBy(a)' = [key |-> actions[a].blob.key, info |-> actions[a].blob.info,
                      account |-> actions[a].blob.account]
    BY <1>h, <1>3, <2>1 DEF MadeBy, Opens
  <2> QED
    BY <1>2, <2>2 DEF Blob
<1>7. \A b \in Action \ {a} : HeldBy(b)' = HeldBy(b) /\ MadeBy(b)' = MadeBy(b)
  BY <1>h, HandleEffect DEF HeldBy, MadeBy
<1>8. Attested' = Attested
  BY <1>h, HandleEffect DEF Attested
<1>9. held' = [held EXCEPT ![a] = NoBlob] /\ made' = [made EXCEPT ![a] = HeldBy(a)]
  BY <1>4, <1>5, <1>6, <1>7
<1>10. Service!Attest(a)
  BY <1>1, <1>4, <1>8, <1>9 DEF Service!Attest
<1> QED
  BY <1>10 DEF Service!Next

LEMMA ResponseHandsOver ==
  ASSUME TypeOK, HandlersHaveBlobs, NEW a \in Action, Respond(a)
  PROVE  Service!Next
<1>h. Handle(a) /\ actions[a].pc = "counted" /\ actions'[a].pc = "attested"
  BY DEF Handle, Respond, Advance, TypeOK, Handling
<1>1. UNCHANGED <<boot, quotes, sealedBlobs, attestationCount>>
  BY <1>h, HandleEffect DEF blobVars, quoteVars
<1>2. \A b \in Action : HeldBy(b)' = HeldBy(b) /\ MadeBy(b)' = MadeBy(b)
  BY <1>h, HandleEffect DEF HeldBy, MadeBy, Holding, Working
<1>3. MadeBy(a) # NoBlob
  <2>1. actions[a] \in Handling /\ actions[a].blob \in Blob
    BY <1>h DEF HandlersHaveBlobs, TypeOK, Handling
  <2>2. [key |-> actions[a].process, info |-> actions[a].measurement,
         account |-> actions[a].blob.account] \in Blob
    BY <2>1 DEF Handling, Blob
  <2> QED
    BY <1>h, <2>2, NoBlobAssumption DEF MadeBy
<1>4. Attested' = Attested \cup {a}
  BY <1>h, HandleEffect DEF Attested
<1>5. Service!Give(a)
  BY <1>1, <1>2, <1>3, <1>4 DEF Service!Give
<1> QED
  BY <1>5 DEF Service!Next

LEMMA HandlersServe ==
  ASSUME TypeOK, SealInv, CountInv, HandlersHaveBlobs, NEW a \in Action, Handle(a)
  PROVE  Service!Next \/ UNCHANGED Service!vars
<1>1. CASE ReadMeasurement(a)
  <2>1. actions[a].pc = "taken" /\ actions'[a].pc = "measured"
    BY <1>1 DEF ReadMeasurement, TypeOK, Handling
  <2> QED
    BY <2>1, WorkStutters DEF Holding
<1>2. CASE Query(a)
  <2>1. actions[a].pc = "measured"
    BY <1>2 DEF Query
  <2>2. CASE Advance(a, "queried")
    <3>1. actions'[a].pc = "queried"
      BY <2>2 DEF Advance, TypeOK, Handling
    <3> QED
      BY <2>1, <3>1, WorkStutters DEF Holding
  <2>3. CASE Advance(a, "failed")
    BY <2>1, <2>3, FailureIsADrop DEF Holding
  <2> QED
    BY <1>2, <2>2, <2>3 DEF Query
<1>3. CASE Price(a)
  <2>1. actions[a].pc = "queried"
    BY <1>3 DEF Price
  <2>2. ASSUME NEW t \in Tier,
               actions' = [actions EXCEPT ![a] = [@ EXCEPT !.pc = "reduced", !.tier = t]]
        PROVE  UNCHANGED Service!vars
    <3>1. actions'[a].pc = "reduced"
      BY <2>2 DEF TypeOK, Handling
    <3> QED
      BY <2>1, <3>1, WorkStutters DEF Holding
  <2>3. CASE Advance(a, "failed")
    BY <2>1, <2>3, FailureIsADrop DEF Holding
  <2> QED
    BY <1>3, <2>2, <2>3 DEF Price
<1>4. CASE Count(a)
  BY <1>4, CountIsAnAttestation
<1>5. CASE Respond(a)
  BY <1>5, ResponseHandsOver
<1> QED
  BY <1>1, <1>2, <1>3, <1>4, <1>5 DEF Handle

LEMMA RestartRenews ==
  ASSUME TypeOK, Restart
  PROVE  Service!Next
<1> DEFINE held == [b \in Action |-> HeldBy(b)]
           made == [b \in Action |-> MadeBy(b)]
<1>1. /\ boot' = boot + 1 /\ attestationCount' = 0 /\ quotes' = quotes
      /\ sealedBlobs' = [h \in Hash |-> NoBlob]
  BY DEF Restart
<1>2. \A a \in Action : HeldBy(a)' = NoBlob
  BY RestartEffect DEF HeldBy, Holding, InFlight
<1>3. Attested' = Attested
  BY RestartEffect DEF Attested, InFlight
<1>4. \A a \in Action : MadeBy(a)' = IF a \in Attested THEN MadeBy(a) ELSE NoBlob
  BY RestartEffect DEF MadeBy, Attested, InFlight
<1>5. /\ held' = [b \in Action |-> NoBlob]
      /\ made' = [b \in Action |-> IF b \in Attested THEN made[b] ELSE NoBlob]
  BY <1>2, <1>4
<1>6. Service!Renew
  BY <1>1, <1>3, <1>5 DEF Service!Renew, Service!Nothing
<1> QED
  BY <1>6 DEF Service!Next

(***************************************************************************)
(* The enclave implements the service: whatever handlers race for a        *)
(* ciphertext, it goes to one of them and becomes at most one attestation, *)
(* under the key, identity and account it was sealed for, counted once by  *)
(* the running process (processAttestSolvency, extension.go:308-355).      *)
(***************************************************************************)
THEOREM EnclaveImplementsService == Spec => ImplementsService
<1>1. Init => Service!Init
  BY DEF Init, Service!Init, Service!Nothing, HeldBy, MadeBy, Holding, NoHandling, Attested
<1>2. TypeOK /\ SealInv /\ CountInv /\ HandlersHaveBlobs /\ [Next]_vars
        => [Service!Next]_(Service!vars)
  <2> SUFFICES ASSUME TypeOK, SealInv, CountInv, HandlersHaveBlobs, [Next]_vars
               PROVE  Service!Next \/ UNCHANGED Service!vars
    OBVIOUS
  <2>1. CASE UNCHANGED <<boot, quotes, sealedBlobs, attestationCount, actions>>
    <3>1. \A a \in Action : UNCHANGED Seen(a)
      BY <2>1 DEF Seen, HeldBy, MadeBy
    <3> QED
      BY <2>1, <3>1, UnseenStutters
  <2>2. ASSUME NEW a \in Action, NEW r \in Request, Refuse(a, r)
        PROVE  UNCHANGED Service!vars
    BY <2>2, RefusalStutters
  <2>3. ASSUME NEW a \in Action, NEW r \in Request, Take(a, r) PROVE Service!Next
    BY <2>3, TakeIsATake
  <2> QED
    BY <2>1, <2>2, <2>3, QuoteIsAPromise, DeliveryIsADelivery, HandlersServe, RestartRenews
       DEF Next, vars, counters, blobVars, quoteVars, QuoteRead, QuoteAdopt, Anchor
<1>3. Init => HandlersHaveBlobs
  BY DEF Init, HandlersHaveBlobs, NoHandling
<1> QED
  BY <1>1, <1>2, <1>3, TypeCorrect, SealHolds, CountHolds, BlobsPreserved,
     PTL DEF Spec, Service!Spec, ImplementsService

-----------------------------------------------------------------------------
(* What the account is worth.                                              *)

Worths == [t \in DOMAIN account |-> Worth(t)]

\* What an entry is worth, in the terms the adapters use.
LEMMA WorthIs ==
  ASSUME exchange \in SupportedExchanges, exchange \in DOMAIN Ticker,
         NEW t \in Ticker[exchange], NEW e, e = account[t], e \in Entry(exchange)
  PROVE  /\ UsdPrice[Underlying[exchange][t]] \in Nat
         /\ Worth(t) \in Nat
         /\ exchange = "kraken" =>
              /\ e = Unparsable => Worth(t) = 0
              /\ e # Unparsable => e \in Nat /\ Worth(t) = e * UsdPrice[Underlying[exchange][t]]
         /\ exchange # "kraken" =>
              IF Unparsable \in {e.free, e.locked} THEN Worth(t) = 0
              ELSE /\ e.free \in Nat /\ e.locked \in Nat
                   /\ Worth(t) = (e.free + e.locked) * UsdPrice[Underlying[exchange][t]]
<1>1. UsdPrice[Underlying[exchange][t]] \in Nat /\ Quantity \subseteq Nat
  BY PricingAssumption DEF PricingAssumption
<1>2. CASE exchange = "kraken"
  <2>1. e \in Parsed
    BY <1>2 DEF Entry
  <2>2. Unparsable \in Range(<<e>>) <=> e = Unparsable
    BY DEF Range
  <2>3. CASE e = Unparsable
    BY <1>1, <1>2, <2>2, <2>3 DEF Worth
  <2>4. CASE e # Unparsable
    <3>1. e \in Nat
      BY <1>1, <2>1, <2>4 DEF Parsed
    <3>2. SumFunction(<<e>>) = e
      BY <3>1, SumOfOne
    <3> QED
      BY <1>1, <1>2, <2>2, <2>4, <3>1, <3>2 DEF Worth
  <2> QED
    BY <2>3, <2>4
<1>3. CASE exchange # "kraken"
  <2>1. e.free \in Parsed /\ e.locked \in Parsed
    BY <1>3 DEF Entry
  <2>2. Unparsable \in Range(<<e.free, e.locked>>) <=> Unparsable \in {e.free, e.locked}
    BY DEF Range
  <2>3. CASE Unparsable \in {e.free, e.locked}
    BY <1>1, <1>3, <2>2, <2>3 DEF Worth
  <2>4. CASE Unparsable \notin {e.free, e.locked}
    <3>1. e.free \in Nat /\ e.locked \in Nat
      BY <1>1, <2>1, <2>4 DEF Parsed
    <3>2. SumFunction(<<e.free, e.locked>>) = e.free + e.locked
      BY <3>1, SumOfTwo
    <3> QED
      BY <1>1, <1>3, <2>2, <2>4, <3>1, <3>2 DEF Worth
  <2> QED
    BY <2>3, <2>4
<1> QED
  BY <1>2, <1>3

\* How many lower bounds there are below each band.
LEMMA Floors ==
  /\ Cardinality({}) = 0
  /\ Cardinality({1000}) = 1
  /\ Cardinality({1000, 10000}) = 2
  /\ Cardinality({1000, 10000, 50000}) = 3
  /\ Cardinality({1000, 10000, 50000, 250000}) = 4
  /\ IsFiniteSet({1000, 10000, 50000, 250000})
<1>1. Cardinality({}) = 0 /\ IsFiniteSet({})
  BY FS_EmptySet
<1>2. Cardinality({1000}) = 1 /\ IsFiniteSet({1000})
  <2>1. IsFiniteSet({} \cup {1000}) /\ Cardinality({} \cup {1000}) = 1
    BY <1>1, FS_AddElement
  <2>2. {} \cup {1000} = {1000}
    OBVIOUS
  <2> QED
    BY <2>1, <2>2
<1>3. Cardinality({1000, 10000}) = 2 /\ IsFiniteSet({1000, 10000})
  <2>1. {1000, 10000} = {1000} \cup {10000} /\ 10000 \notin {1000}
    OBVIOUS
  <2> QED
    BY <1>2, <2>1, FS_AddElement
<1>4. Cardinality({1000, 10000, 50000}) = 3 /\ IsFiniteSet({1000, 10000, 50000})
  <2>1. {1000, 10000, 50000} = {1000, 10000} \cup {50000} /\ 50000 \notin {1000, 10000}
    OBVIOUS
  <2> QED
    BY <1>3, <2>1, FS_AddElement
<1>5. Cardinality({1000, 10000, 50000, 250000}) = 4 /\ IsFiniteSet({1000, 10000, 50000, 250000})
  <2>1. /\ {1000, 10000, 50000, 250000} = {1000, 10000, 50000} \cup {250000}
        /\ 250000 \notin {1000, 10000, 50000}
    OBVIOUS
  <2> QED
    BY <1>4, <2>1, FS_AddElement
<1> QED
  BY <1>1, <1>2, <1>3, <1>4, <1>5

\* The bands of the page and the tiers of the enclave are the same.
LEMMA TierIsBand == \A usd \in Nat : TierForUSD(usd) = BandOf(usd)
<1> SUFFICES ASSUME NEW usd \in Nat PROVE TierForUSD(usd) = BandOf(usd)
  OBVIOUS
<1> DEFINE below == {floor \in {1000, 10000, 50000, 250000} : floor <= usd}
<1>6. BandOf(usd) = Cardinality(below)
  BY DEF BandOf
<1> HIDE DEF below
<1>7. CASE usd < 1000
  <2>1. below = {}
    BY <1>7 DEF below
  <2> QED
    BY Floors, <1>6, <1>7, <2>1 DEF TierForUSD
<1>8. CASE usd >= 1000 /\ usd < 10000
  <2>1. below = {1000}
    BY <1>8 DEF below
  <2> QED
    BY Floors, <1>6, <1>8, <2>1 DEF TierForUSD
<1>9. CASE usd >= 10000 /\ usd < 50000
  <2>1. below = {1000, 10000}
    BY <1>9 DEF below
  <2> QED
    BY Floors, <1>6, <1>9, <2>1 DEF TierForUSD
<1>10. CASE usd >= 50000 /\ usd < 250000
  <2>1. below = {1000, 10000, 50000}
    BY <1>10 DEF below
  <2> QED
    BY Floors, <1>6, <1>10, <2>1 DEF TierForUSD
<1>11. CASE usd >= 250000
  <2>1. below = {1000, 10000, 50000, 250000}
    BY <1>11 DEF below
  <2> QED
    BY Floors, <1>6, <1>11, <2>1 DEF TierForUSD
<1> QED
  BY <1>7, <1>8, <1>9, <1>10, <1>11

LEMMA TierGrows == \A a, b \in Nat : a <= b => TierForUSD(a) <= TierForUSD(b) /\ TierForUSD(b) \in 0 .. 4
BY DEF TierForUSD

-----------------------------------------------------------------------------
(* Types, and the order of the phases.                                     *)

PhasesInv ==
  /\ phase \in {"query", "failed"} =>
       DOMAIN entries = {} /\ DOMAIN balances = {} /\ priced = {} /\ skipped = {} /\ total = 0
  /\ phase # "done" => tier = 0
  /\ phase = "done" =>
       DOMAIN balances = skipped \cup priced /\ DOMAIN entries = {} /\ tier = TierForUSD(total)
  /\ phase \in {"value", "done"} => exchange \in SupportedExchanges /\ ~OverrideRefused
  /\ priced \cup skipped # {} => DOMAIN entries = {}

ValuesInv ==
  /\ PricingTypeOK
  /\ DOMAIN account \subseteq Ticker[exchange]
  /\ account \in [DOMAIN account -> Entry(exchange)]
  /\ entries \in [DOMAIN entries -> Entry(exchange)]
  /\ balances = [s \in DOMAIN balances |-> balances[s]]
  /\ \A s \in priced : HasPrice(s)

PricingInv == ValuesInv /\ PhasesInv

LEMMA AccountsTyped ==
  ASSUME NEW e, NEW n, NEW a \in Accounts(e, n)
  PROVE  DOMAIN a \subseteq Ticker[e] /\ a \in [DOMAIN a -> Entry(e)]
BY DEF Accounts

LEMMA InitValues == PricingInit => PricingInv
<1> SUFFICES ASSUME PricingInit PROVE PricingInv
  OBVIOUS
<1>1. DOMAIN account \subseteq Ticker[exchange] /\ account \in [DOMAIN account -> Entry(exchange)]
  BY AccountsTyped DEF PricingInit
<1>2. /\ DOMAIN entries = {} /\ entries \in [DOMAIN entries -> Entry(exchange)]
      /\ DOMAIN balances = {} /\ balances = [s \in DOMAIN balances |-> balances[s]]
  BY DEF PricingInit, Empty
<1>3. PricingTypeOK
  BY <1>2 DEF PricingInit, PricingTypeOK
<1>4. PhasesInv
  BY <1>2 DEF PricingInit, PhasesInv
<1> QED
  BY <1>1, <1>2, <1>3, <1>4 DEF PricingInv, ValuesInv, PricingInit

\* What With returns.
IsWith(w, symbol, quantity) ==
  /\ DOMAIN w = DOMAIN balances \cup {symbol}
  /\ w = [s \in DOMAIN w |-> w[s]]
  /\ w[symbol] = quantity
  /\ \A s \in DOMAIN balances \ {symbol} : w[s] = balances[s]
LEMMA WithTyped == \A symbol, quantity : IsWith(With(symbol, quantity), symbol, quantity)
BY DEF With, IsWith

\* What folding an entry does to the balances.
Adds(t) == Symbol(exchange, t)
LEMMA FoldEffect ==
  ASSUME PricingInv, phase = "value", NEW t \in DOMAIN entries, FoldEntry(t),
         NEW e, e = entries[t]
  PROVE  /\ e \in Entry(exchange)
         /\ \/ /\ balances' = balances
               /\ exchange = "kraken" => e \in {0, Unparsable}
               /\ exchange # "kraken" => Unparsable \in {e.free, e.locked} \/ e.free + e.locked = 0
            \/ \E q \in Nat \ {0} :
                 /\ balances' = With(Adds(t), q)
                 /\ exchange = "kraken" => e \notin {0, Unparsable} /\ q = e
                 /\ exchange # "kraken" =>
                      Unparsable \notin {e.free, e.locked} /\ q = Held(Adds(t)) + e.free + e.locked
<1>1. e \in Entry(exchange) /\ Quantity \subseteq Nat
  BY PricingAssumption DEF PricingAssumption, PricingInv, ValuesInv
<1>2. Held(Adds(t)) \in Nat
  BY DEF Held, PricingInv, ValuesInv, PricingTypeOK
<1>3. CASE exchange = "kraken"
  <2>1. e \in Quantity \cup {Unparsable}
    BY <1>1, <1>3 DEF Entry, Parsed
  <2>2. balances' = IF e \in {0, Unparsable} THEN balances ELSE With(Adds(t), e)
    BY <1>3 DEF FoldEntry, KrakenFolded, Adds, Symbol
  <2>3. e \notin {0, Unparsable} => e \in Nat \ {0}
    BY <1>1, <2>1
  <2> QED
    BY <1>1, <1>3, <2>2, <2>3
<1>4. CASE exchange # "kraken"
  <2>1. e.free \in Quantity \cup {Unparsable} /\ e.locked \in Quantity \cup {Unparsable}
    BY <1>1, <1>4 DEF Entry, Parsed
  <2>2. balances' = IF Unparsable \in {e.free, e.locked} \/ e.free + e.locked = 0
                    THEN balances ELSE With(Adds(t), Held(Adds(t)) + e.free + e.locked)
    BY <1>4 DEF FoldEntry, BinanceFolded, Adds, Symbol
  <2>3. ~(Unparsable \in {e.free, e.locked} \/ e.free + e.locked = 0) =>
          Held(Adds(t)) + e.free + e.locked \in Nat \ {0}
    <3> SUFFICES ASSUME Unparsable \notin {e.free, e.locked}, e.free + e.locked # 0
                 PROVE  Held(Adds(t)) + e.free + e.locked \in Nat \ {0}
      OBVIOUS
    <3>1. e.free \in Nat /\ e.locked \in Nat
      BY <1>1, <2>1
    <3> QED
      BY <1>2, <3>1
  <2> QED
    BY <1>1, <1>4, <2>2, <2>3
<1> QED
  BY <1>3, <1>4

LEMMA EnvironmentStays ==
  ASSUME UNCHANGED environment
  PROVE  /\ exchange' = exchange /\ overridden' = overridden /\ onHardware' = onHardware
         /\ account' = account /\ Worths' = Worths
         /\ \A t : Adds(t)' = Adds(t)
BY DEF environment, Worths, Worth, Adds

LEMMA FetchKeeps == ASSUME PricingInv, FetchBalances \/ FetchFails PROVE PricingInv'
<1>1. UNCHANGED <<environment, balances, skipped, priced, total, tier>>
  BY DEF FetchBalances, FetchFails
<1>2. exchange' = exchange /\ account' = account /\ overridden' = overridden /\ onHardware' = onHardware
  BY <1>1, EnvironmentStays
<1>3. entries' \in [DOMAIN entries' -> Entry(exchange)] /\ DOMAIN entries' \subseteq Ticker[exchange]
  <2>1. CASE FetchFails
    BY <2>1 DEF FetchFails, PricingInv, ValuesInv, PricingTypeOK
  <2>2. CASE FetchBalances
    BY <2>2, AccountsTyped DEF FetchBalances, PricingInv, ValuesInv
  <2> QED
    BY <2>1, <2>2
<1>4. ValuesInv'
  BY <1>1, <1>2, <1>3 DEF PricingInv, ValuesInv, PricingTypeOK, FetchBalances, FetchFails
<1>5. PhasesInv'
  BY <1>1, <1>2 DEF PricingInv, PhasesInv, FetchBalances, FetchFails, OverrideRefused
<1> QED
  BY <1>4, <1>5 DEF PricingInv

LEMMA FoldKeeps == ASSUME PricingInv, NEW t \in DOMAIN entries, FoldEntry(t) PROVE PricingInv'
<1>1. UNCHANGED <<environment, phase, skipped, priced, total, tier>> /\ phase = "value"
      /\ priced \cup skipped = {}
  BY DEF FoldEntry, PricingInv, PhasesInv
<1>2. exchange' = exchange /\ account' = account /\ overridden' = overridden /\ onHardware' = onHardware
  BY <1>1, EnvironmentStays
<1>3. entries' \in [DOMAIN entries' -> Entry(exchange)] /\ DOMAIN entries' \subseteq Ticker[exchange]
  BY DEF FoldEntry, Restrict, PricingInv, ValuesInv, PricingTypeOK
<1>4. /\ balances' = [s \in DOMAIN balances' |-> balances'[s]]
      /\ \A s \in DOMAIN balances' : balances'[s] \in Nat \ {0}
  <2>1. CASE balances' = balances
    BY <2>1 DEF PricingInv, ValuesInv, PricingTypeOK
  <2>2. ASSUME NEW q \in Nat \ {0}, balances' = With(Adds(t), q)
        PROVE  /\ balances' = [s \in DOMAIN balances' |-> balances'[s]]
               /\ \A s \in DOMAIN balances' : balances'[s] \in Nat \ {0}
    <3>1. PICK w : w = With(Adds(t), q)
      OBVIOUS
    <3>2. IsWith(w, Adds(t), q)
      BY <3>1, WithTyped
    <3>3. /\ DOMAIN w = DOMAIN balances \cup {Adds(t)} /\ w = [s \in DOMAIN w |-> w[s]]
          /\ w[Adds(t)] = q /\ \A s \in DOMAIN balances \ {Adds(t)} : w[s] = balances[s]
      BY <3>2 DEF IsWith
    <3>4. \A s \in DOMAIN balances : balances[s] \in Nat \ {0}
      BY DEF PricingInv, ValuesInv, PricingTypeOK
    <3>5. \A s \in DOMAIN w : w[s] \in Nat \ {0}
      BY <3>3, <3>4
    <3>6. balances' = w
      BY <2>2, <3>1
    <3> QED
      BY <3>3, <3>5, <3>6
  <2> QED
    BY <1>1, <2>1, <2>2, FoldEffect
<1>5. ValuesInv'
  BY <1>1, <1>2, <1>3, <1>4 DEF PricingInv, ValuesInv, PricingTypeOK
<1>6. PhasesInv'
  BY <1>1, <1>2 DEF PricingInv, PhasesInv, OverrideRefused
<1> QED
  BY <1>5, <1>6 DEF PricingInv

LEMMA ValueKeeps ==
  ASSUME PricingInv, NEW s \in DOMAIN balances, AddValue(s) \/ SkipAsset(s)
  PROVE  PricingInv'
<1>1. UNCHANGED <<environment, phase, entries, balances, tier>> /\ phase = "value"
      /\ DOMAIN entries = {} /\ s \notin skipped \cup priced
  BY DEF AddValue, SkipAsset, Valuing
<1>2. exchange' = exchange /\ account' = account /\ overridden' = overridden /\ onHardware' = onHardware
  BY <1>1, EnvironmentStays
<1>3. total' \in Nat
  <2>1. CASE AddValue(s)
    <3>1. balances[s] \in Nat /\ UsdPrice[s] \in Nat /\ total \in Nat
      BY <2>1, PricingAssumption
         DEF AddValue, HasPrice, PricingAssumption, PricingInv, ValuesInv, PricingTypeOK
    <3> QED
      BY <2>1, <3>1 DEF AddValue
  <2>2. CASE SkipAsset(s)
    BY <2>2 DEF SkipAsset, PricingInv, ValuesInv, PricingTypeOK
  <2> QED
    BY <2>1, <2>2
<1>4. /\ skipped' \cup priced' \subseteq DOMAIN balances /\ skipped' \cap priced' = {}
      /\ \A x \in priced' : HasPrice(x)
  BY <1>1 DEF AddValue, SkipAsset, PricingInv, ValuesInv, PricingTypeOK
<1>5. ValuesInv'
  BY <1>1, <1>2, <1>3, <1>4 DEF PricingInv, ValuesInv, PricingTypeOK, HasPrice
<1>6. PhasesInv'
  BY <1>1, <1>2 DEF PricingInv, PhasesInv, OverrideRefused
<1> QED
  BY <1>5, <1>6 DEF PricingInv

LEMMA ReduceKeeps == ASSUME PricingInv, Reduce PROVE PricingInv'
<1>1. /\ UNCHANGED <<environment, entries, balances, skipped, priced, total>>
      /\ phase = "value" /\ phase' = "done" /\ tier' = TierForUSD(total)
      /\ DOMAIN entries = {} /\ DOMAIN balances = skipped \cup priced
  BY DEF Reduce
<1>2. exchange' = exchange /\ account' = account /\ overridden' = overridden /\ onHardware' = onHardware
  BY <1>1, EnvironmentStays
<1>3. tier' \in 0 .. 4
  BY <1>1, TierGrows DEF PricingInv, ValuesInv, PricingTypeOK
<1>4. ValuesInv'
  BY <1>1, <1>2, <1>3 DEF PricingInv, ValuesInv, PricingTypeOK, HasPrice
<1>5. PhasesInv'
  BY <1>1, <1>2 DEF PricingInv, PhasesInv, OverrideRefused
<1> QED
  BY <1>4, <1>5 DEF PricingInv

LEMMA NothingKeeps == ASSUME PricingInv, UNCHANGED pricingVars PROVE PricingInv'
BY DEF pricingVars, environment, PricingInv, ValuesInv, PricingTypeOK, PhasesInv, HasPrice, OverrideRefused

LEMMA ValuesKeep == ASSUME PricingInv, [PricingNext]_pricingVars PROVE PricingInv'
BY FetchKeeps, FoldKeeps, ValueKeeps, ReduceKeeps, NothingKeeps DEF PricingNext

-----------------------------------------------------------------------------
(* What the folded entries are worth.                                      *)

Folded == DOMAIN account \ DOMAIN entries
WorthOf(T) == SumOver(Worths, T)
\* The folded entries of a symbol, and those of several symbols.
Of(symbol) == {t \in Folded : Adds(t) = symbol}
In(symbols) == {t \in Folded : Adds(t) \in symbols}

\* The answer is the account's own and is being valued.
Genuine == ~overridden /\ phase \in {"value", "done"}
\* What is left to fold is the account's.
AnswerInv == Genuine =>
  DOMAIN entries \subseteq DOMAIN account /\ \A t \in DOMAIN entries : entries[t] = account[t]

LEMMA WorthsTyped ==
  ASSUME PricingInv, exchange \in SupportedExchanges
  PROVE  IsFiniteSet(DOMAIN account) /\ Worths \in [DOMAIN account -> Nat]
<1>1. IsFiniteSet(Ticker[exchange]) /\ DOMAIN account \subseteq Ticker[exchange]
      /\ exchange \in DOMAIN Ticker
  BY PricingAssumption DEF PricingAssumption, PricingInv, ValuesInv, PricingTypeOK
<1>2. IsFiniteSet(DOMAIN account)
  BY <1>1, FS_Subset
<1>3. ASSUME NEW t \in DOMAIN account PROVE Worth(t) \in Nat
  <2>1. account[t] \in Entry(exchange)
    BY DEF PricingInv, ValuesInv
  <2> QED
    BY <1>1, <2>1, WorthIs
<1> QED
  BY <1>2, <1>3 DEF Worths

LEMMA AnswerKeeps == ASSUME PricingInv, AnswerInv, [PricingNext]_pricingVars PROVE AnswerInv'
<1>1. CASE FetchBalances \/ FetchFails
  <2>1. UNCHANGED environment
    BY <1>1 DEF FetchBalances, FetchFails
  <2> QED
    BY <1>1, <2>1, EnvironmentStays DEF FetchBalances, FetchFails, AnswerInv, Genuine
<1>2. ASSUME NEW t \in DOMAIN entries, FoldEntry(t) PROVE AnswerInv'
  <2>1. UNCHANGED environment /\ phase' = phase
    BY <1>2 DEF FoldEntry
  <2> QED
    BY <1>2, <2>1, EnvironmentStays DEF FoldEntry, Restrict, AnswerInv, Genuine
<1>3. ASSUME NEW s \in DOMAIN balances, AddValue(s) \/ SkipAsset(s) PROVE AnswerInv'
  <2>1. UNCHANGED environment /\ phase' = phase /\ entries' = entries
    BY <1>3 DEF AddValue, SkipAsset
  <2> QED
    BY <2>1, EnvironmentStays DEF AnswerInv, Genuine
<1>4. CASE Reduce
  <2>1. UNCHANGED environment /\ phase = "value" /\ entries' = entries
    BY <1>4 DEF Reduce
  <2> QED
    BY <2>1, EnvironmentStays DEF AnswerInv, Genuine
<1>5. CASE UNCHANGED pricingVars
  BY <1>5 DEF pricingVars, environment, AnswerInv, Genuine
<1> QED
  BY <1>1, <1>2, <1>3, <1>4, <1>5 DEF PricingNext

\* Folding an entry adds it to those of its symbol.
LEMMA FoldOne ==
  ASSUME PricingInv, AnswerInv, Genuine, NEW t \in DOMAIN entries, FoldEntry(t)
  PROVE  /\ t \in DOMAIN account /\ t \notin Folded /\ entries[t] = account[t]
         /\ Folded' = Folded \cup {t} /\ Worths' = Worths
         /\ \A s : Of(s)' = IF s = Adds(t) THEN Of(s) \cup {t} ELSE Of(s)
         /\ exchange' = exchange /\ phase' = phase /\ overridden' = overridden
         /\ priced' = priced /\ total' = total /\ priced = {} /\ skipped = {}
         /\ phase = "value"
<1>1. UNCHANGED environment /\ phase' = phase /\ phase = "value" /\ priced' = priced /\ total' = total
      /\ entries' = Restrict(entries, DOMAIN entries \ {t})
  BY DEF FoldEntry
<1>2. /\ exchange' = exchange /\ account' = account /\ overridden' = overridden /\ Worths' = Worths
      /\ \A x : Adds(x)' = Adds(x)
  BY <1>1, EnvironmentStays
<1>3. DOMAIN entries' = DOMAIN entries \ {t}
  BY <1>1 DEF Restrict
<1>4. t \in DOMAIN account /\ t \notin Folded /\ entries[t] = account[t]
  BY DEF AnswerInv, Folded
<1>5. Folded' = Folded \cup {t}
  BY <1>2, <1>3, <1>4 DEF Folded
<1>6. ASSUME NEW s PROVE Of(s)' = IF s = Adds(t) THEN Of(s) \cup {t} ELSE Of(s)
  BY <1>2, <1>5 DEF Of
<1>7. priced = {} /\ skipped = {}
  BY DEF PricingInv, PhasesInv
<1> QED
  BY <1>1, <1>2, <1>4, <1>5, <1>6, <1>7

-----------------------------------------------------------------------------
(* What the balances are worth, against what was folded into them.         *)

Value(s) == Held(s) * UsdPrice[s]

\* The symbol of every ticker of the account is what the ticker stands for, and
\* on Kraken no two tickers of it are one symbol.
Recognised ==
  /\ \A t \in DOMAIN account : Adds(t) = Underlying[exchange][t]
  /\ exchange = "kraken" => \A t, u \in DOMAIN account : Adds(t) = Adds(u) => t = u

LEMMA WorthOfTyped ==
  ASSUME PricingInv, exchange \in SupportedExchanges, NEW T
  PROVE  WorthOf(T) \in Nat
BY WorthsTyped, SumOverType DEF WorthOf

LEMMA ValueTyped ==
  ASSUME PricingInv, NEW s \in DOMAIN UsdPrice
  PROVE  Held(s) \in Nat /\ UsdPrice[s] \in Nat /\ Value(s) \in Nat
<1>1. Held(s) \in Nat
  BY DEF Held, PricingInv, ValuesInv, PricingTypeOK
<1>2. UsdPrice[s] \in Nat
  BY PricingAssumption DEF PricingAssumption
<1> QED
  BY <1>1, <1>2 DEF Value

LEMMA PricesExist == \A s : HasPrice(s) => s \in DOMAIN UsdPrice
BY PricingAssumption DEF PricingAssumption, HasPrice

\* Folding an entry adds its worth to that of its symbol.
LEMMA FoldAddsWorth ==
  ASSUME PricingInv, AnswerInv, Genuine, NEW t \in DOMAIN entries, FoldEntry(t)
  PROVE  /\ Worth(t) \in Nat
         /\ \A s : WorthOf(Of(s))' = IF s = Adds(t) THEN WorthOf(Of(s)) + Worth(t) ELSE WorthOf(Of(s))
<1>1. /\ t \in DOMAIN account /\ t \notin Folded /\ Worths' = Worths
      /\ \A s : Of(s)' = IF s = Adds(t) THEN Of(s) \cup {t} ELSE Of(s)
  BY FoldOne
<1>2. exchange \in SupportedExchanges
  BY DEF PricingInv, PhasesInv, Genuine
<1>3. IsFiniteSet(DOMAIN account) /\ Worths \in [DOMAIN account -> Nat]
  BY <1>2, WorthsTyped
<1>4. Worths[t] = Worth(t)
  BY <1>1 DEF Worths
<1>5. SumOver(Worths, {t}) = Worth(t)
  BY <1>1, <1>3, <1>4, SumOverOne
<1>6. ASSUME NEW s, s = Adds(t) PROVE WorthOf(Of(s))' = WorthOf(Of(s)) + Worth(t)
  <2>1. Of(s) \cap {t} = {}
    BY <1>1 DEF Of
  <2>2. SumOver(Worths, Of(s) \cup {t}) = SumOver(Worths, Of(s)) + SumOver(Worths, {t})
    BY <1>3, <2>1, SumOverUnion
  <2>3. Of(s)' = Of(s) \cup {t}
    BY <1>1, <1>6
  <2> QED
    BY <1>1, <1>5, <2>2, <2>3 DEF WorthOf
<1>7. ASSUME NEW s, s # Adds(t) PROVE WorthOf(Of(s))' = WorthOf(Of(s))
  BY <1>1, <1>7 DEF WorthOf
<1>8. Worth(t) \in Nat
  BY <1>1, <1>3, <1>4
<1> QED
  BY <1>6, <1>7, <1>8

\* And it adds at most as much to the value of the balance.
LEMMA FoldAddsValue ==
  ASSUME PricingInv, AnswerInv, Genuine, NEW t \in DOMAIN entries, FoldEntry(t),
         NEW a, a = Adds(t)
  PROVE  /\ \A s \in DOMAIN UsdPrice \ {a} : Value(s)' = Value(s)
         /\ a = Underlying[exchange][t] =>
              \/ Value(a)' = Value(a) + Worth(t)
              \/ exchange = "kraken" /\ Value(a)' = Worth(t)
<1>1. /\ t \in DOMAIN account /\ entries[t] = account[t] /\ exchange' = exchange /\ phase = "value"
  BY FoldOne
<1>2. exchange \in SupportedExchanges /\ exchange \in DOMAIN Ticker /\ t \in Ticker[exchange]
  BY <1>1 DEF PricingInv, PhasesInv, ValuesInv, PricingTypeOK
<1>3. PICK e : e = entries[t]
  OBVIOUS
<1>4. /\ e \in Entry(exchange)
      /\ \/ /\ balances' = balances
            /\ exchange = "kraken" => e \in {0, Unparsable}
            /\ exchange # "kraken" => Unparsable \in {e.free, e.locked} \/ e.free + e.locked = 0
         \/ \E q \in Nat \ {0} :
              /\ balances' = With(a, q)
              /\ exchange = "kraken" => e \notin {0, Unparsable} /\ q = e
              /\ exchange # "kraken" =>
                   Unparsable \notin {e.free, e.locked} /\ q = Held(a) + e.free + e.locked
  BY <1>1, <1>3, FoldEffect
<1>5. e = account[t]
  BY <1>1, <1>3
<1> DEFINE price == UsdPrice[Underlying[exchange][t]]
<1>6. /\ price \in Nat
      /\ Worth(t) \in Nat
      /\ exchange = "kraken" =>
           /\ e = Unparsable => Worth(t) = 0
           /\ e # Unparsable => e \in Nat /\ Worth(t) = e * price
      /\ exchange # "kraken" =>
           IF Unparsable \in {e.free, e.locked} THEN Worth(t) = 0
           ELSE /\ e.free \in Nat /\ e.locked \in Nat
                /\ Worth(t) = (e.free + e.locked) * price
  BY <1>2, <1>4, <1>5, WorthIs
<1> HIDE DEF price
<1>7. a = Underlying[exchange][t] =>
        a \in DOMAIN UsdPrice /\ UsdPrice[a] = price
  <2>1. Underlying[exchange][t] \in DOMAIN UsdPrice
    BY <1>2, PricingAssumption DEF PricingAssumption
  <2> QED
    BY <2>1 DEF price
<1>8. ASSUME balances' = balances, Worth(t) = 0
      PROVE  /\ \A s \in DOMAIN UsdPrice \ {a} : Value(s)' = Value(s)
             /\ a = Underlying[exchange][t] => Value(a)' = Value(a) + Worth(t)
  <2>1. \A s : Value(s)' = Value(s)
    BY <1>8 DEF Value, Held
  <2> QED
    BY <1>7, <1>8, <2>1, ValueTyped
<1>9. ASSUME NEW q \in Nat \ {0}, balances' = With(a, q),
             \/ exchange = "kraken" /\ q * price = Worth(t)
             \/ q * price = Held(a) * price + Worth(t)
      PROVE  /\ \A s \in DOMAIN UsdPrice \ {a} : Value(s)' = Value(s)
             /\ a = Underlying[exchange][t] =>
                  \/ Value(a)' = Value(a) + Worth(t)
                  \/ exchange = "kraken" /\ Value(a)' = Worth(t)
  <2>1. PICK w : w = With(a, q)
    OBVIOUS
  <2>2. IsWith(w, a, q)
    BY <2>1, WithTyped
  <2>3. balances' = w
    BY <1>9, <2>1
  <2>4. /\ DOMAIN balances' = DOMAIN balances \cup {a}
        /\ balances'[a] = q
        /\ \A s \in DOMAIN balances \ {a} : balances'[s] = balances[s]
    BY <2>2, <2>3 DEF IsWith
  <2>5. \A s : Held(s)' = IF s = a THEN q ELSE Held(s)
    BY <2>4 DEF Held
  <2>6. \A s : Value(s)' = Held(s)' * UsdPrice[s]
    BY DEF Value
  <2>7. \A s \in DOMAIN UsdPrice \ {a} : Value(s)' = Value(s)
    BY <2>5, <2>6 DEF Value
  <2>8. a = Underlying[exchange][t] => Value(a)' = q * price
    BY <1>7, <2>5, <2>6
  <2>9. a = Underlying[exchange][t] => Value(a) = Held(a) * price
    BY <1>7 DEF Value
  <2> QED
    BY <1>9, <2>7, <2>8, <2>9
<1>10. CASE exchange = "kraken"
  <2>1. e \in {0, Unparsable} => Worth(t) = 0
    BY <1>6, <1>10
  <2>2. e \notin {0, Unparsable} => e * price = Worth(t)
    BY <1>6, <1>10
  <2> QED
    BY <1>4, <1>8, <1>9, <1>10, <2>1, <2>2
<1>11. CASE exchange # "kraken"
  <2>1. Unparsable \in {e.free, e.locked} \/ e.free + e.locked = 0 => Worth(t) = 0
    BY <1>6, <1>11
  <2>2. Held(a) \in Nat
    BY DEF Held, PricingInv, ValuesInv, PricingTypeOK
  <2>3. Unparsable \notin {e.free, e.locked} =>
          (Held(a) + e.free + e.locked) * price = Held(a) * price + Worth(t)
    <3> SUFFICES ASSUME Unparsable \notin {e.free, e.locked}
                 PROVE  (Held(a) + e.free + e.locked) * price = Held(a) * price + Worth(t)
      OBVIOUS
    <3>1. e.free \in Nat /\ e.locked \in Nat /\ Worth(t) = (e.free + e.locked) * price
      BY <1>6, <1>11
    <3>2. \A h, b, c, p \in Nat : (h + b + c) * p = h * p + (b + c) * p
      OBVIOUS
    <3> QED
      BY <1>6, <2>2, <3>1, <3>2
  <2> QED
    BY <1>4, <1>8, <1>9, <1>11, <2>1, <2>3
<1> QED
  BY <1>10, <1>11

\* The answer of the canonical endpoint starts both at nothing.
LEMMA FetchStarts ==
  ASSUME PricingInv, FetchBalances, ~overridden
  PROVE  /\ total' = 0 /\ WorthOf(In(priced))' = 0
         /\ \A s \in DOMAIN UsdPrice : Value(s)' = 0 /\ WorthOf(Of(s))' = 0
<1>1. /\ UNCHANGED environment /\ balances' = balances /\ priced' = priced /\ total' = total
      /\ entries' = account /\ exchange \in SupportedExchanges /\ phase = "query"
  BY DEF FetchBalances
<1>2. account' = account /\ Worths' = Worths
  BY <1>1, EnvironmentStays
<1>3. Folded' = {}
  BY <1>1, <1>2 DEF Folded
<1>4. IsFiniteSet(DOMAIN account) /\ Worths \in [DOMAIN account -> Nat]
  BY <1>1, WorthsTyped
<1>5. WorthOf({}) = 0
  BY <1>4, SumOverNothing DEF WorthOf
<1>6. In(priced)' = {} /\ \A s : Of(s)' = {}
  BY <1>3 DEF In, Of
<1>7. WorthOf(In(priced))' = 0 /\ \A s : WorthOf(Of(s))' = 0
  BY <1>2, <1>5, <1>6 DEF WorthOf
<1>8. total = 0 /\ DOMAIN balances = {}
  BY <1>1 DEF PricingInv, PhasesInv
<1>9. ASSUME NEW s \in DOMAIN UsdPrice PROVE Value(s)' = 0
  <2>1. Held(s)' = 0
    BY <1>1, <1>8 DEF Held
  <2>2. UsdPrice[s] \in Nat
    BY PricingAssumption DEF PricingAssumption
  <2>3. 0 * UsdPrice[s] = 0
    BY <2>2
  <2> QED
    BY <2>1, <2>3 DEF Value
<1> QED
  BY <1>1, <1>7, <1>8, <1>9

\* Valuing a symbol adds its value to the one and its entries to the other.
LEMMA ValueAdds ==
  ASSUME PricingInv, Genuine, NEW s \in DOMAIN balances, AddValue(s)
  PROVE  /\ s \in DOMAIN UsdPrice /\ HasPrice(s)
         /\ total' = total + Value(s)
         /\ WorthOf(In(priced))' = WorthOf(In(priced)) + WorthOf(Of(s))
         /\ \A x : Value(x)' = Value(x) /\ WorthOf(Of(x))' = WorthOf(Of(x))
<1>1. /\ UNCHANGED <<environment, entries, balances>> /\ priced' = priced \cup {s}
      /\ s \notin priced /\ HasPrice(s) /\ total' = total + balances[s] * UsdPrice[s]
  BY DEF AddValue, Valuing
<1>2. Worths' = Worths /\ account' = account /\ \A x : Adds(x)' = Adds(x)
  BY <1>1, EnvironmentStays
<1>3. Folded' = Folded
  BY <1>1, <1>2 DEF Folded
<1>4. \A x : Of(x)' = Of(x)
  BY <1>2, <1>3 DEF Of
<1>5. In(priced)' = In(priced) \cup Of(s) /\ In(priced) \cap Of(s) = {}
  BY <1>1, <1>2, <1>3 DEF In, Of
<1>6. IsFiniteSet(DOMAIN account) /\ Worths \in [DOMAIN account -> Nat]
  BY WorthsTyped DEF PricingInv, PhasesInv, Genuine
<1>7. SumOver(Worths, In(priced) \cup Of(s)) = SumOver(Worths, In(priced)) + SumOver(Worths, Of(s))
  BY <1>5, <1>6, SumOverUnion
<1>8. WorthOf(In(priced))' = WorthOf(In(priced)) + WorthOf(Of(s))
  BY <1>2, <1>5, <1>7 DEF WorthOf
<1>9. \A x : WorthOf(Of(x))' = WorthOf(Of(x))
  BY <1>2, <1>4 DEF WorthOf
<1>10. \A x : Value(x)' = Value(x)
  BY <1>1 DEF Value, Held
<1>11. balances[s] = Held(s) /\ s \in DOMAIN UsdPrice
  BY <1>1, PricesExist DEF Held
<1> QED
  BY <1>1, <1>8, <1>9, <1>10, <1>11 DEF Value

\* The other steps leave both as they were, or end the valuation.
LEMMA OthersStay ==
  ASSUME \/ \E s \in DOMAIN balances : SkipAsset(s)
         \/ Reduce
         \/ UNCHANGED pricingVars
  PROVE  /\ Genuine' => Genuine
         /\ Recognised' = Recognised
         /\ total' = total /\ WorthOf(In(priced))' = WorthOf(In(priced))
         /\ \A x : Value(x)' = Value(x) /\ WorthOf(Of(x))' = WorthOf(Of(x))
<1>1. UNCHANGED <<environment, entries, balances, priced, total>>
  BY DEF SkipAsset, Reduce, pricingVars
<1>2. /\ Worths' = Worths /\ account' = account /\ exchange' = exchange
      /\ overridden' = overridden /\ \A x : Adds(x)' = Adds(x)
  BY <1>1, EnvironmentStays
<1>3. Genuine' => Genuine
  BY <1>2 DEF SkipAsset, Reduce, Valuing, pricingVars, Genuine
<1>4. Folded' = Folded
  BY <1>1, <1>2 DEF Folded
<1>5. In(priced)' = In(priced) /\ \A x : Of(x)' = Of(x)
  BY <1>1, <1>2, <1>4 DEF In, Of
<1>6. WorthOf(In(priced))' = WorthOf(In(priced)) /\ \A x : WorthOf(Of(x))' = WorthOf(Of(x))
  BY <1>2, <1>5 DEF WorthOf
<1>7. \A x : Value(x)' = Value(x)
  BY <1>1 DEF Value, Held
<1>8. Recognised' = Recognised
  BY <1>2 DEF Recognised
<1> QED
  BY <1>1, <1>3, <1>6, <1>7, <1>8

-----------------------------------------------------------------------------
(* No balance and no total is worth more than the entries in it.           *)

BoundInv == Genuine =>
  /\ \A s \in DOMAIN UsdPrice : HasPrice(s) => Value(s) <= WorthOf(Of(s))
  /\ total <= WorthOf(In(priced))

\* While entries are folded in nothing is priced.
LEMMA NothingPriced ==
  ASSUME PricingInv, AnswerInv, Genuine, NEW t \in DOMAIN entries, FoldEntry(t)
  PROVE  total' = total /\ WorthOf(In(priced))' = WorthOf(In(priced))
<1>1. priced = {} /\ priced' = priced /\ total' = total /\ Worths' = Worths
  BY FoldOne
<1>2. In(priced) = {} /\ In(priced)' = {}
  BY <1>1 DEF In
<1> QED
  BY <1>1, <1>2 DEF WorthOf

LEMMA BoundKeeps ==
  ASSUME PricingInv, AnswerInv, BoundInv, [PricingNext]_pricingVars
  PROVE  BoundInv'
<1>1. \A s : HasPrice(s)' <=> HasPrice(s)
  BY DEF HasPrice
<1>2. CASE FetchBalances
  <2>1. overridden' = overridden
    BY <1>2, EnvironmentStays DEF FetchBalances
  <2> QED
    BY <1>2, <2>1, FetchStarts DEF BoundInv, Genuine
<1>3. CASE FetchFails
  BY <1>3 DEF FetchFails, BoundInv, Genuine
<1>4. ASSUME NEW t \in DOMAIN entries, FoldEntry(t), Genuine PROVE BoundInv'
  <2>1. /\ t \in DOMAIN account /\ exchange' = exchange /\ priced = {} /\ priced' = priced
        /\ total' = total /\ phase = "value"
    BY <1>4, FoldOne
  <2>2. PICK a : a = Adds(t)
    OBVIOUS
  <2>3. exchange \in SupportedExchanges /\ exchange \in DOMAIN Ticker /\ t \in Ticker[exchange]
    BY <2>1 DEF PricingInv, PhasesInv, ValuesInv, PricingTypeOK
  <2>4. ASSUME NEW s \in DOMAIN UsdPrice, HasPrice(s) PROVE Value(s)' <= WorthOf(Of(s))'
    <3>1. Value(s) <= WorthOf(Of(s)) /\ Value(s) \in Nat /\ WorthOf(Of(s)) \in Nat /\ Worth(t) \in Nat
      BY <1>4, <2>3, <2>4, ValueTyped, WorthOfTyped, FoldAddsWorth DEF BoundInv
    <3>2. CASE s # a
      <4>1. Value(s)' = Value(s)
        BY <1>4, <2>2, <3>2, FoldAddsValue
      <4>2. WorthOf(Of(s))' = WorthOf(Of(s))
        BY <1>4, <2>2, <3>2, FoldAddsWorth
      <4> QED
        BY <3>1, <4>1, <4>2
    <3>3. CASE s = a
      <4>1. a = Underlying[exchange][t]
        BY <2>2, <2>3, <2>4, <3>3, TickersAssumption DEF Adds
      <4>2. Value(s)' = Value(s) + Worth(t) \/ Value(s)' = Worth(t)
        BY <1>4, <2>2, <3>3, <4>1, FoldAddsValue
      <4>3. WorthOf(Of(s))' = WorthOf(Of(s)) + Worth(t)
        BY <1>4, <2>2, <3>3, FoldAddsWorth
      <4> QED
        BY <3>1, <4>2, <4>3
    <3> QED
      BY <3>2, <3>3
  <2>5. (total <= WorthOf(In(priced)))'
    BY <1>4, <2>1, NothingPriced DEF BoundInv
  <2> QED
    BY <1>1, <2>4, <2>5 DEF BoundInv
<1>5. ASSUME NEW s \in DOMAIN balances, AddValue(s) PROVE BoundInv'
  <2>1. UNCHANGED environment /\ phase' = phase
    BY <1>5 DEF AddValue
  <2>2. Genuine' => Genuine
    BY <2>1, EnvironmentStays DEF Genuine
  <2>3. ASSUME Genuine
        PROVE  /\ total <= WorthOf(In(priced)) /\ Value(s) <= WorthOf(Of(s))
               /\ total \in Nat /\ Value(s) \in Nat
               /\ WorthOf(In(priced)) \in Nat /\ WorthOf(Of(s)) \in Nat
    <3>1. exchange \in SupportedExchanges /\ total \in Nat
      BY <2>3 DEF PricingInv, PhasesInv, ValuesInv, PricingTypeOK, Genuine
    <3> QED
      BY <1>5, <2>3, <3>1, ValueAdds, ValueTyped, WorthOfTyped DEF BoundInv
  <2>4. ASSUME Genuine
        PROVE  /\ total' = total + Value(s)
               /\ WorthOf(In(priced))' = WorthOf(In(priced)) + WorthOf(Of(s))
               /\ \A x : Value(x)' = Value(x) /\ WorthOf(Of(x))' = WorthOf(Of(x))
    BY <1>5, <2>4, ValueAdds
  <2>5. Genuine => total' <= WorthOf(In(priced))'
    BY <2>3, <2>4
  <2> QED
    BY <1>1, <2>2, <2>4, <2>5 DEF BoundInv
<1>6. CASE (\E s \in DOMAIN balances : SkipAsset(s)) \/ Reduce \/ UNCHANGED pricingVars
  BY <1>1, <1>6, OthersStay DEF BoundInv
<1>7. ASSUME NEW t \in DOMAIN entries, FoldEntry(t) PROVE Genuine' => Genuine
  <2>1. UNCHANGED environment /\ phase' = phase
    BY <1>7 DEF FoldEntry
  <2> QED
    BY <2>1, EnvironmentStays DEF Genuine
<1>8. ASSUME NEW t \in DOMAIN entries, FoldEntry(t) PROVE BoundInv'
  BY <1>4, <1>7, <1>8 DEF BoundInv
<1> QED
  BY <1>2, <1>3, <1>5, <1>6, <1>8 DEF PricingNext

\* All that is priced is part of what the account holds.
LEMMA WorthsAddUp ==
  ASSUME PricingInv, exchange \in SupportedExchanges
  PROVE  /\ AccountWorth = WorthOf(DOMAIN account) /\ AccountWorth \in Nat
         /\ \A symbols : WorthOf(In(symbols)) <= AccountWorth
<1>1. IsFiniteSet(DOMAIN account) /\ Worths \in [DOMAIN account -> Nat]
  BY WorthsTyped
<1>2. AccountWorth = WorthOf(DOMAIN account)
  BY <1>1, SumOverDomain DEF AccountWorth, Worths, WorthOf
<1>3. ASSUME NEW symbols PROVE WorthOf(In(symbols)) <= WorthOf(DOMAIN account)
  <2>1. In(symbols) \subseteq DOMAIN account
    BY DEF In, Folded
  <2> QED
    BY <1>1, <2>1, SumOverGrows DEF WorthOf
<1>4. WorthOf(DOMAIN account) \in Nat
  BY WorthOfTyped
<1> QED
  BY <1>2, <1>3, <1>4

LEMMA BoundBounds == PricingInv /\ BoundInv => NeverOverstates
<1> SUFFICES ASSUME PricingInv, BoundInv, onHardware \/ ~overridden
             PROVE  tier <= BandOf(AccountWorth)
  BY DEF NeverOverstates
<1>1. IsFiniteSet({floor \in {1000, 10000, 50000, 250000} : floor <= AccountWorth})
  <2>1. {floor \in {1000, 10000, 50000, 250000} : floor <= AccountWorth} \subseteq {1000, 10000, 50000, 250000}
    OBVIOUS
  <2> QED
    BY <2>1, Floors, FS_Subset
<1>2. CASE phase = "done"
  <2>1. Genuine /\ exchange \in SupportedExchanges /\ tier = TierForUSD(total)
    BY <1>2 DEF PricingInv, PhasesInv, Genuine, OverrideRefused
  <2>2. total \in Nat /\ total <= WorthOf(In(priced))
    BY <2>1 DEF BoundInv, PricingInv, ValuesInv, PricingTypeOK
  <2>3. WorthOf(In(priced)) \in Nat /\ AccountWorth \in Nat /\ WorthOf(In(priced)) <= AccountWorth
    BY <2>1, WorthsAddUp, WorthOfTyped
  <2>4. TierForUSD(total) <= TierForUSD(AccountWorth)
    BY <2>2, <2>3, TierGrows
  <2> QED
    BY <2>1, <2>3, <2>4, TierIsBand
<1>3. CASE phase # "done"
  <2>1. tier = 0
    BY <1>3 DEF PricingInv, PhasesInv
  <2>2. BandOf(AccountWorth) \in Nat
    BY <1>1, FS_CardinalityType DEF BandOf
  <2> QED
    BY <2>1, <2>2
<1> QED
  BY <1>2, <1>3

-----------------------------------------------------------------------------
(* The balances of an account that is recognised are worth what is in them. *)

ExactInv == Genuine /\ Recognised =>
  /\ \A s \in DOMAIN UsdPrice : Value(s) = WorthOf(Of(s))
  /\ total = WorthOf(In(priced))

\* Folding an entry of a recognised account adds as much to one as to the other.
LEMMA FoldIsExact ==
  ASSUME PricingInv, AnswerInv, ExactInv, Genuine, Recognised,
         NEW t \in DOMAIN entries, FoldEntry(t), NEW s \in DOMAIN UsdPrice
  PROVE  Value(s)' = WorthOf(Of(s))'
<1>1. t \in DOMAIN account /\ t \notin Folded /\ exchange' = exchange
  BY FoldOne
<1>2. PICK a : a = Adds(t)
  OBVIOUS
<1>3. exchange \in SupportedExchanges
  BY DEF PricingInv, PhasesInv, Genuine
<1>4. Value(s) = WorthOf(Of(s)) /\ Value(s) \in Nat /\ Worth(t) \in Nat
  BY ValueTyped, FoldAddsWorth DEF ExactInv
<1>5. CASE s # a
  <2>1. Value(s)' = Value(s)
    BY <1>2, <1>5, FoldAddsValue
  <2>2. WorthOf(Of(s))' = WorthOf(Of(s))
    BY <1>2, <1>5, FoldAddsWorth
  <2> QED
    BY <1>4, <2>1, <2>2
<1>6. CASE s = a
  <2>1. a = Underlying[exchange][t]
    BY <1>1, <1>2 DEF Recognised
  <2>2. Value(s)' = Value(s) + Worth(t) \/ (exchange = "kraken" /\ Value(s)' = Worth(t))
    BY <1>2, <1>6, <2>1, FoldAddsValue
  <2>3. WorthOf(Of(s))' = WorthOf(Of(s)) + Worth(t)
    BY <1>2, <1>6, FoldAddsWorth
  <2>4. exchange = "kraken" => WorthOf(Of(s)) = 0
    <3>1. exchange = "kraken" => Of(s) = {}
      BY <1>1, <1>2, <1>6 DEF Recognised, Of, Folded
    <3>2. WorthOf({}) = 0
      BY <1>3, WorthsTyped, SumOverNothing DEF WorthOf
    <3> QED
      BY <3>1, <3>2
  <2> QED
    BY <1>4, <2>2, <2>3, <2>4
<1> QED
  BY <1>5, <1>6

LEMMA ExactKeeps ==
  ASSUME PricingInv, AnswerInv, ExactInv, [PricingNext]_pricingVars
  PROVE  ExactInv'
<1>1. UNCHANGED environment => Recognised' = Recognised
  BY EnvironmentStays DEF Recognised
<1>2. CASE FetchBalances
  <2>1. overridden' = overridden
    BY <1>2, EnvironmentStays DEF FetchBalances
  <2> QED
    BY <1>2, <2>1, FetchStarts DEF ExactInv, Genuine
<1>3. CASE FetchFails
  BY <1>3 DEF FetchFails, ExactInv, Genuine
<1>4. ASSUME NEW t \in DOMAIN entries, FoldEntry(t) PROVE ExactInv'
  <2>1. UNCHANGED environment /\ phase' = phase
    BY <1>4 DEF FoldEntry
  <2>2. (Genuine' => Genuine) /\ Recognised' = Recognised
    BY <1>1, <2>1, EnvironmentStays DEF Genuine
  <2>3. ASSUME Genuine, Recognised
        PROVE  /\ \A s \in DOMAIN UsdPrice : Value(s)' = WorthOf(Of(s))'
               /\ total' = WorthOf(In(priced))'
    BY <1>4, <2>3, FoldIsExact, NothingPriced DEF ExactInv
  <2> QED
    BY <2>2, <2>3 DEF ExactInv
<1>5. ASSUME NEW s \in DOMAIN balances, AddValue(s) PROVE ExactInv'
  <2>1. UNCHANGED environment /\ phase' = phase
    BY <1>5 DEF AddValue
  <2>2. (Genuine' => Genuine) /\ Recognised' = Recognised
    BY <1>1, <2>1, EnvironmentStays DEF Genuine
  <2>3. ASSUME Genuine
        PROVE  /\ s \in DOMAIN UsdPrice
               /\ total' = total + Value(s)
               /\ WorthOf(In(priced))' = WorthOf(In(priced)) + WorthOf(Of(s))
               /\ \A x : Value(x)' = Value(x) /\ WorthOf(Of(x))' = WorthOf(Of(x))
    BY <1>5, <2>3, ValueAdds
  <2> QED
    BY <2>2, <2>3 DEF ExactInv
<1>6. CASE (\E s \in DOMAIN balances : SkipAsset(s)) \/ Reduce \/ UNCHANGED pricingVars
  BY <1>6, OthersStay DEF ExactInv
<1> QED
  BY <1>2, <1>3, <1>4, <1>5, <1>6 DEF PricingNext

\* What is not priced is worth nothing.
LEMMA ExactIsExact == PricingInv /\ ExactInv => RecognisedAccountsGetTheirBand
<1> SUFFICES ASSUME PricingInv, ExactInv, phase = "done", FullyRecognised
             PROVE  tier = BandOf(AccountWorth)
  BY DEF RecognisedAccountsGetTheirBand
<1>1. /\ exchange \in SupportedExchanges /\ tier = TierForUSD(total) /\ ~overridden
      /\ DOMAIN balances = priced /\ DOMAIN entries = {} /\ exchange \in DOMAIN Ticker
      /\ DOMAIN account \subseteq Ticker[exchange]
  BY DEF PricingInv, PhasesInv, ValuesInv, PricingTypeOK, FullyRecognised
<1>2. Genuine /\ Folded = DOMAIN account
  BY <1>1 DEF Genuine, Folded
<1>3. Recognised
  BY DEF FullyRecognised, Recognised, IsInjective, Adds
<1>4. /\ \A s \in DOMAIN UsdPrice : Value(s) = WorthOf(Of(s))
      /\ total = WorthOf(In(priced))
  BY <1>2, <1>3 DEF ExactInv
<1>5. IsFiniteSet(DOMAIN account) /\ Worths \in [DOMAIN account -> Nat]
  BY <1>1, WorthsTyped
<1> DEFINE rest == DOMAIN account \ In(priced)
<1>6. ASSUME NEW t \in rest PROVE Worths[t] = 0
  <2>1. t \in DOMAIN account /\ Adds(t) \notin DOMAIN balances
    BY <1>1, <1>2 DEF In
  <2>2. Adds(t) \in DOMAIN UsdPrice
    BY <1>1, <1>3, <2>1, PricingAssumption DEF Recognised, PricingAssumption
  <2>3. Value(Adds(t)) = 0
    <3>1. Held(Adds(t)) = 0 /\ UsdPrice[Adds(t)] \in Nat
      BY <2>1, <2>2, PricingAssumption DEF Held, PricingAssumption
    <3>2. \A n \in Nat : 0 * n = 0
      OBVIOUS
    <3> QED
      BY <3>1, <3>2 DEF Value
  <2>4. WorthOf(Of(Adds(t))) = 0
    BY <1>4, <2>2, <2>3
  <2>5. {t} \subseteq Of(Adds(t))
    BY <1>2, <2>1 DEF Of
  <2>6. SumOver(Worths, {t}) <= SumOver(Worths, Of(Adds(t)))
    BY <1>5, <2>5, SumOverGrows
  <2>7. SumOver(Worths, {t}) = Worths[t] /\ Worths[t] \in Nat
    BY <1>5, <2>1, SumOverOne
  <2> QED
    BY <2>4, <2>6, <2>7 DEF WorthOf
<1>7. SumOver(Worths, rest) = 0
  <2>1. \A x \in DOMAIN account \cap rest : Worths[x] = 0
    BY <1>6
  <2> HIDE DEF rest
  <2> QED
    BY <1>5, <2>1, SumOverNothing
<1>8. In(priced) \cup rest = DOMAIN account /\ In(priced) \cap rest = {}
  BY DEF In, Folded
<1> HIDE DEF rest
<1>9. SumOver(Worths, In(priced) \cup rest) = SumOver(Worths, In(priced)) + SumOver(Worths, rest)
  BY <1>5, <1>8, SumOverUnion
<1>10. WorthOf(In(priced)) \in Nat
  BY <1>1, WorthOfTyped
<1>11. WorthOf(DOMAIN account) = total
  BY <1>4, <1>7, <1>8, <1>9, <1>10 DEF WorthOf
<1>12. AccountWorth = total /\ total \in Nat
  BY <1>1, <1>11, WorthsAddUp DEF PricingInv, ValuesInv, PricingTypeOK
<1> QED
  BY <1>1, <1>12, TierIsBand

-----------------------------------------------------------------------------
(* The theorems.                                                           *)

WorthInv == PricingInv /\ AnswerInv /\ BoundInv /\ ExactInv

LEMMA InitAnswers == PricingInit => AnswerInv /\ BoundInv /\ ExactInv
BY DEF PricingInit, AnswerInv, BoundInv, ExactInv, Genuine

LEMMA WorthInvHolds == PricingSpec => []WorthInv
<1>1. PricingInit => WorthInv
  BY InitValues, InitAnswers DEF WorthInv
<1>2. WorthInv /\ [PricingNext]_pricingVars => WorthInv'
  <2> SUFFICES ASSUME WorthInv, [PricingNext]_pricingVars PROVE WorthInv'
    OBVIOUS
  <2>1. PricingInv'
    BY ValuesKeep DEF WorthInv
  <2> QED
    BY <2>1, AnswerKeeps, BoundKeeps, ExactKeeps DEF WorthInv
<1> QED
  BY <1>1, <1>2, PTL DEF PricingSpec

(***************************************************************************)
(* The valuation stays well-formed whatever the exchange answers: no       *)
(* balance is zero or negative and no symbol is both priced and skipped    *)
(* (ValueUSD, ftso.go).                                                    *)
(***************************************************************************)
THEOREM PricingStaysTyped == PricingSpec => []PricingTypeOK
<1>1. WorthInv => PricingTypeOK
  BY DEF WorthInv, PricingInv, ValuesInv
<1> QED
  BY <1>1, WorthInvHolds, PTL

(***************************************************************************)
(* What cannot be priced only understates (ftso.go lines 147-149), for     *)
(* every account, every price list and any order of the maps: each balance *)
(* is worth at most the entries folded into it, and the total at most the  *)
(* entries of the symbols priced.                                          *)
(***************************************************************************)
THEOREM TiersNeverOverstate == PricingSpec => []NeverOverstates
<1>1. WorthInv => NeverOverstates
  BY BoundBounds DEF WorthInv
<1> QED
  BY <1>1, WorthInvHolds, PTL

(***************************************************************************)
(* An account the adapters recognise gets the band of its full worth       *)
(* (binance.go lines 109-111 and 129-136): locked funds and the variants   *)
(* of one asset are in its balance, on Kraken no entry replaces another,   *)
(* and what is left out of the balances is worth nothing.                  *)
(***************************************************************************)
THEOREM RecognisedAccountsAreTiered == PricingSpec => []RecognisedAccountsGetTheirBand
<1>1. WorthInv => RecognisedAccountsGetTheirBand
  BY ExactIsExact DEF WorthInv
<1> QED
  BY <1>1, WorthInvHolds, PTL

=============================================================================
