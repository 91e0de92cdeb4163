--------------------------- MODULE DemoBridgeProofs ---------------------------
(***************************************************************************)
(* The watch loop of cmd/demo-bridge/main.go, for any chain, any lookback, *)
(* any number of starts and any failures of its calls.                     *)
(***************************************************************************)
EXTENDS DemoBridge, TLAPS

\* What the process did in a step.
Handles == Pick \/ NotPending \/ Attested \/ CallFails \/ Deliver \/ DeliveryFails
Moves == Boot \/ Crash \/ Poll \/ EndRound

LEMMA Cases == [Next]_vars => Environment \/ Moves \/ Handles \/ UNCHANGED vars
BY DEF Next, Moves, Handles, Answers, Settles

-----------------------------------------------------------------------------
(* Types.                                                                  *)

LEMMA TailTyped ==
  ASSUME batch \in Seq(Log), batch # <<>>
  PROVE  Head(batch) \in Log /\ Tail(batch) \in Seq(Log)
OBVIOUS

LEMMA BatchTyped ==
  ASSUME logs \in Seq(Log), NEW first, Filter(first)
  PROVE  batch' \in Seq(Log)
<1>1. PICK k \in 0..Len(logs) : batch' = SubSeq(logs, k + 1, Len(logs))
  BY DEF Filter
<1> QED BY <1>1

\* A request in hand is the first of the batch.
InHand == pc \in {"call", "deliver"} => batch # <<>>

LEMMA EnvironmentTyped == TypeOK /\ InHand /\ Environment => TypeOK' /\ InHand'
<1> SUFFICES ASSUME TypeOK, InHand, Environment PROVE TypeOK' /\ InHand'
  OBVIOUS
<1>1. CASE Block(<<>>)
  BY <1>1, BridgeAssumption DEF Block, TypeOK, InHand, enclaveVars, watchVars
<1>2. ASSUME NEW w \in Wallet, NEW h \in Hash, Anchor(w, h) PROVE TypeOK' /\ InHand'
  <2>1. [wallet |-> w, hash |-> h, block |-> head + 1] \in Log
    BY <1>2, BridgeAssumption DEF Anchor, Block, TypeOK, Log
  <2>2. logs' \in Seq(Log)
    BY <1>2, <2>1 DEF Anchor, Block, TypeOK
  <2> QED BY <1>2, <2>2, BridgeAssumption DEF Anchor, Block, TypeOK, InHand, enclaveVars, watchVars
<1>3. ASSUME NEW h \in Hash, PostSealed(h) PROVE TypeOK' /\ InHand'
  BY <1>3 DEF PostSealed, TypeOK, InHand, chainVars, watchVars
<1>4. CASE EnclaveRestarts
  BY <1>4 DEF EnclaveRestarts, TypeOK, InHand, chainVars, watchVars
<1> QED BY <1>1, <1>2, <1>3, <1>4 DEF Environment

LEMMA MovesTyped == TypeOK /\ InHand /\ Moves => TypeOK' /\ InHand'
<1> SUFFICES ASSUME TypeOK, InHand, Moves PROVE TypeOK' /\ InHand'
  OBVIOUS
<1>1. CASE Boot
  <2>1. from' \in 0..(WordSize - 1)
    BY <1>1, BridgeAssumption DEF Boot, TypeOK
  <2> QED BY <1>1, <2>1, BridgeAssumption DEF Boot, TypeOK, InHand, chainVars, enclaveVars
<1>2. CASE Crash
  BY <1>2, BridgeAssumption DEF Crash, TypeOK, InHand, chainVars, enclaveVars
<1>3. CASE Poll
  <2>1. batch' \in Seq(Log)
    BY <1>3, BatchTyped DEF Poll, TypeOK
  <2> QED BY <1>3, <2>1 DEF Poll, TypeOK, InHand, chainVars, enclaveVars
<1>4. CASE EndRound
  BY <1>4, BridgeAssumption DEF EndRound, TypeOK, InHand, chainVars, enclaveVars
<1> QED BY <1>1, <1>2, <1>3, <1>4 DEF Moves

LEMMA HandlesTyped == TypeOK /\ InHand /\ Handles => TypeOK' /\ InHand'
<1> SUFFICES ASSUME TypeOK, InHand, Handles PROVE TypeOK' /\ InHand'
  OBVIOUS
<1>0. /\ batch # <<>>
      /\ Head(batch) \in Log /\ Tail(batch) \in Seq(Log) /\ current \in Log
      /\ current.hash \in Hash /\ current.wallet \in Wallet
  <2>1. batch # <<>>
    BY DEF Handles, Pick, NotPending, Attested, CallFails, Deliver, DeliveryFails, InHand
  <2> QED BY <2>1, TailTyped DEF TypeOK, current, Log
<1>1. CASE Pick
  BY <1>0, <1>1, BridgeAssumption DEF Pick, TypeOK, InHand, current, chainVars, enclaveVars
<1>2. CASE NotPending
  <2>1. attempt' \in 1..MaxAttempts
    BY <1>2, BridgeAssumption DEF NotPending, Returns, TriesAgain, TypeOK
  <2>2. (pc' = "batch" /\ batch' = Tail(batch)) \/ UNCHANGED <<pc, batch>>
    BY <1>2 DEF NotPending, Returns, TriesAgain
  <2> QED BY <1>0, <1>2, <2>1, <2>2 DEF NotPending, TypeOK, InHand, chainVars, enclaveVars,
     watchVars
<1>3. CASE Attested
  BY <1>0, <1>3 DEF Attested, TypeOK, InHand, chainVars, watchVars
<1>4. CASE CallFails
  BY <1>0, <1>4 DEF CallFails, Returns, TypeOK, InHand, chainVars, enclaveVars, watchVars
<1>5. CASE Deliver \/ DeliveryFails
  <2>1. written' \in {written, written \cup {[wallet |-> current.wallet, hash |-> current.hash]}}
    BY <1>5 DEF Deliver, DeliveryFails, Accepts, chainVars
  <2>2. written' \subseteq [wallet : Wallet, hash : Hash]
    BY <1>0, <2>1 DEF TypeOK
  <2> QED BY <1>0, <1>5, <2>2 DEF Deliver, DeliveryFails, Returns, TypeOK, InHand, chainVars,
     enclaveVars, watchVars
<1> QED BY <1>1, <1>2, <1>3, <1>4, <1>5 DEF Handles

LEMMA TypesStay == TypeOK /\ InHand /\ [Next]_vars => TypeOK' /\ InHand'
<1>1. TypeOK /\ InHand /\ UNCHANGED vars => TypeOK' /\ InHand'
  BY DEF vars, chainVars, enclaveVars, watchVars, TypeOK, InHand
<1> QED BY <1>1, Cases, EnvironmentTyped, MovesTyped, HandlesTyped

\* The process, the chain and the enclave keep their types: from stays a
\* uint64, and there is a request in hand whenever handle runs (main.go).
THEOREM TypeCorrect == Spec => [](TypeOK /\ InHand)
<1>1. Init => TypeOK /\ InHand
  BY BridgeAssumption DEF Init, TypeOK, InHand
<1> QED BY <1>1, TypesStay, PTL DEF Spec

-----------------------------------------------------------------------------
(* The chain.                                                              *)

\* Blocks are only added, with at most one event, which is in the new block.
LEMMA ChainGrows ==
  TypeOK /\ [Next]_vars =>
    /\ head' \in {head, head + 1}
    /\ \A i \in DOMAIN logs : i \in DOMAIN logs' /\ logs'[i] = logs[i]
    /\ \A i \in DOMAIN logs' \ DOMAIN logs : logs'[i].block = head + 1 /\ head' = head + 1
<1> SUFFICES ASSUME TypeOK, [Next]_vars
             PROVE  /\ head' \in {head, head + 1}
                    /\ \A i \in DOMAIN logs : i \in DOMAIN logs' /\ logs'[i] = logs[i]
                    /\ \A i \in DOMAIN logs' \ DOMAIN logs :
                         logs'[i].block = head + 1 /\ head' = head + 1
  OBVIOUS
<1>1. ASSUME NEW w \in Wallet, NEW h \in Hash, Anchor(w, h)
      PROVE  /\ head' = head + 1
             /\ \A i \in DOMAIN logs : i \in DOMAIN logs' /\ logs'[i] = logs[i]
             /\ \A i \in DOMAIN logs' \ DOMAIN logs : logs'[i].block = head + 1
  <2> DEFINE e == [wallet |-> w, hash |-> h, block |-> head + 1]
  <2>1. e \in Log /\ e.block = head + 1
    BY <1>1, BridgeAssumption DEF Anchor, Block, TypeOK, Log
  <2>2. logs' = logs \o <<e>> /\ head' = head + 1 /\ logs \in Seq(Log)
    BY <1>1 DEF Anchor, Block, TypeOK
  <2> HIDE DEF e
  <2>3. /\ DOMAIN logs = 1..Len(logs) /\ DOMAIN logs' = 1..(Len(logs) + 1) /\ Len(logs) \in Nat
        /\ \A i \in 1..Len(logs) : logs'[i] = logs[i]
        /\ logs'[Len(logs) + 1] = e
    BY <2>1, <2>2
  <2> QED BY <2>1, <2>2, <2>3
<1>2. CASE Block(<<>>)
  <2>1. head' = head + 1 /\ logs' = logs
    BY <1>2 DEF Block, TypeOK
  <2> QED BY <2>1
<1>3. CASE ~Block(<<>>) /\ \A w \in Wallet, h \in Hash : ~Anchor(w, h)
  <2>1. UNCHANGED <<head, logs>>
    BY <1>3, Cases DEF Environment, PostSealed, EnclaveRestarts, Moves, Boot, Crash, Poll, EndRound,
       Handles, Pick, NotPending, Attested, CallFails, Deliver, DeliveryFails, vars, chainVars
  <2> QED BY <2>1
<1> QED BY <1>1, <1>2, <1>3

LEMMA LogTyped == TypeOK => \A i \in DOMAIN logs : logs[i].block \in Nat
<1> SUFFICES ASSUME TypeOK, NEW i \in DOMAIN logs PROVE logs[i].block \in Nat
  OBVIOUS
<1>1. logs[i] \in Log
  BY DEF TypeOK
<1> QED BY <1>1, BridgeAssumption DEF Log

-----------------------------------------------------------------------------
(* No event is passed over.                                                *)

InBatch == {batch[j].hash : j \in DOMAIN batch}
Followed == pc # "down" /\ begun >= Lookback

\* The chain only grows, and a round ends at or before its head.
ChainInv == to <= head /\ \A i \in DOMAIN logs : logs[i].block <= head

\* While a round is under way, its events were seen or are still in the batch.
RoundInv == Followed =>
  /\ from <= head + 1
  /\ \A i \in LeftBehind : logs[i].block < begun - Lookback
  /\ pc # "poll" => \A i \in DOMAIN logs :
       from <= logs[i].block /\ logs[i].block <= to => logs[i].hash \in seen \cup InBatch
  /\ pc \in {"call", "deliver"} => Head(batch).hash \in seen

WatchInv == ChainInv /\ RoundInv

LEMMA EnvironmentWatch == TypeOK /\ WatchInv /\ Environment => WatchInv'
<1> SUFFICES ASSUME TypeOK, WatchInv, Environment PROVE WatchInv'
  OBVIOUS
<1>1. UNCHANGED <<pc, from, to, begun, batch, seen>>
  BY DEF Environment, Block, Anchor, PostSealed, EnclaveRestarts, watchVars
<1>2. head \in Nat /\ to \in Nat /\ from \in Nat /\ begun \in Nat
  BY BridgeAssumption DEF TypeOK
<1>3. /\ head' \in {head, head + 1}
      /\ \A i \in DOMAIN logs : i \in DOMAIN logs' /\ logs'[i] = logs[i]
      /\ \A i \in DOMAIN logs' \ DOMAIN logs : logs'[i].block = head + 1 /\ head' = head + 1
  BY ChainGrows DEF Next
<1>4. ASSUME NEW i \in DOMAIN logs PROVE logs[i].block \in Nat /\ logs[i].block <= head
  BY LogTyped DEF WatchInv, ChainInv
<1>5. ChainInv'
  BY <1>1, <1>2, <1>3, <1>4 DEF WatchInv, ChainInv
<1>6. RoundInv'
  <2> SUFFICES ASSUME Followed PROVE RoundInv'
    BY <1>1 DEF RoundInv, Followed
  <2>1. from <= head + 1 /\ to <= head
    BY DEF WatchInv, RoundInv, ChainInv
  <2>2. ASSUME NEW i \in LeftBehind' PROVE logs'[i].block < begun' - Lookback
    <3>1. i \in LeftBehind /\ logs'[i] = logs[i]
      BY <1>1, <1>2, <1>3, <1>4, <2>1 DEF LeftBehind
    <3> QED BY <1>1, <3>1 DEF WatchInv, RoundInv
  <2>3. ASSUME pc' # "poll", NEW i \in DOMAIN logs', from <= logs'[i].block, logs'[i].block <= to
        PROVE  logs'[i].hash \in seen' \cup InBatch'
    <3>1. i \in DOMAIN logs /\ logs'[i] = logs[i]
      BY <1>2, <1>3, <2>1, <2>3
    <3> QED BY <1>1, <2>3, <3>1 DEF WatchInv, RoundInv, InBatch
  <2>4. from' <= head' + 1
    <3>1. from' = from /\ (head' = head \/ head' = head + 1)
      BY <1>1, <1>3
    <3> QED BY <3>1, <1>2, <2>1
  <2>5. pc' \in {"call", "deliver"} => Head(batch').hash \in seen'
    BY <1>1 DEF WatchInv, RoundInv
  <2> QED BY <1>1, <2>2, <2>3, <2>4, <2>5 DEF RoundInv
<1> QED BY <1>5, <1>6 DEF WatchInv

\* A poll leaves no event of its round out.
LEMMA PollFetchesAll ==
  ASSUME TypeOK, Poll, NEW i \in DOMAIN logs, logs[i].block >= from
  PROVE  logs[i].hash \in InBatch'
<1>1. PICK k \in 0..Len(logs) : /\ \A n \in DOMAIN logs : logs[n].block >= from <=> n > k
                               /\ batch' = SubSeq(logs, k + 1, Len(logs))
  BY DEF Poll, Filter
<1>2. logs \in Seq(Log) /\ i \in 1..Len(logs) /\ i > k /\ Len(logs) \in Nat
  BY <1>1 DEF TypeOK
<1>3. i - k \in DOMAIN batch' /\ batch'[i - k] = logs[i]
  BY <1>1, <1>2
<1> QED BY <1>3 DEF InBatch

LEMMA MovesWatch == TypeOK /\ WatchInv /\ Moves => WatchInv'
<1> SUFFICES ASSUME TypeOK, WatchInv, Moves PROVE WatchInv'
  OBVIOUS
<1>0. /\ UNCHANGED <<head, logs>> /\ ChainInv
  BY DEF Moves, Boot, Crash, Poll, EndRound, chainVars, WatchInv
<1>9. /\ head \in Nat /\ from \in Nat /\ to \in Nat /\ to <= head
      /\ \A i \in DOMAIN logs : logs[i].block \in Nat /\ logs[i].block <= head
  BY <1>0, BridgeAssumption, LogTyped DEF ChainInv, TypeOK
<1>1. CASE Boot
  <2>1. pc' = "poll" /\ to' = to /\ begun' = head
    BY <1>1 DEF Boot
  <2>2. head >= Lookback => from' = head - Lookback
    BY <1>1, BridgeAssumption DEF Boot, TypeOK
  <2>5. Followed' => /\ head >= Lookback
                     /\ \A i \in LeftBehind' : logs[i].block < head - Lookback
    BY <1>0, <2>1, <2>2 DEF Followed, LeftBehind
  <2>3. ChainInv'
    BY <1>0, <1>9, <2>1 DEF ChainInv
  <2>4. RoundInv'
    BY <1>0, <1>9, <2>1, <2>2, <2>5, BridgeAssumption DEF RoundInv
  <2> QED BY <2>3, <2>4 DEF WatchInv
<1>2. CASE Crash
  BY <1>0, <1>9, <1>2 DEF Crash, WatchInv, ChainInv, RoundInv, Followed
<1>3. CASE Poll
  <2>1. /\ pc' = "batch" /\ to' = head /\ UNCHANGED <<from, begun, seen>> /\ pc = "poll"
        /\ from <= head
    BY <1>3, <1>9 DEF Poll
  <2>2. \A i \in DOMAIN logs : from <= logs[i].block => logs[i].hash \in InBatch'
    BY <1>3, <1>9, PollFetchesAll
  <2>3. ChainInv'
    BY <1>0, <1>9, <2>1 DEF ChainInv
  <2>4. LeftBehind' = LeftBehind
    BY <1>0, <2>1 DEF LeftBehind
  <2>5. RoundInv'
    BY <1>0, <1>9, <2>1, <2>2, <2>4 DEF WatchInv, RoundInv, Followed
  <2> QED BY <2>3, <2>5 DEF WatchInv
<1>4. CASE EndRound
  <2>1. /\ pc = "batch" /\ batch = <<>> /\ from' = to + 1 /\ pc' = "poll"
        /\ UNCHANGED <<to, seen, begun>>
    BY <1>4 DEF EndRound
  <2>2. InBatch = {}
    BY <2>1 DEF InBatch
  <2>3. ASSUME Followed, NEW i \in LeftBehind' PROVE logs[i].block < begun - Lookback
    <3>1. i \in DOMAIN logs /\ logs[i].block <= to /\ logs[i].hash \notin seen
      BY <1>0, <1>9, <2>1, <2>3 DEF LeftBehind
    <3>2. logs[i].block < from
      BY <1>9, <2>1, <2>2, <2>3, <3>1 DEF WatchInv, RoundInv
    <3> QED BY <2>3, <3>1, <3>2 DEF WatchInv, RoundInv, LeftBehind
  <2>4. ChainInv'
    BY <1>0, <2>1 DEF ChainInv
  <2>5. RoundInv'
    BY <1>0, <1>9, <2>1, <2>3 DEF RoundInv, Followed
  <2> QED BY <2>4, <2>5 DEF WatchInv
<1> QED BY <1>1, <1>2, <1>3, <1>4 DEF Moves

\* Dealing with an event only takes it from the batch once its hash is seen.
TakesOn == UNCHANGED batch /\ pc' \in {"call", "deliver"} /\ seen' \in {seen, seen \cup {Head(batch).hash}}
           /\ Head(batch).hash \in seen'
Drops == /\ batch' = Tail(batch) /\ pc' = "batch" /\ UNCHANGED seen
         /\ Head(batch).hash \in seen

LEMMA HandlesEffect ==
  ASSUME InHand, pc \in {"call", "deliver"} => Head(batch).hash \in seen, Handles
  PROVE  pc \in {"batch", "call", "deliver"} /\ batch # <<>> /\ (TakesOn \/ Drops)
<1>1. CASE Pick
  BY <1>1 DEF Pick, TakesOn, Drops
<1>2. CASE NotPending
  BY <1>2 DEF NotPending, Returns, TriesAgain, TakesOn, Drops, InHand, watchVars
<1>3. CASE Attested
  BY <1>3 DEF Attested, TakesOn, InHand, watchVars
<1>4. CASE CallFails
  BY <1>4 DEF CallFails, Returns, Drops, InHand, watchVars
<1>5. CASE Deliver \/ DeliveryFails
  BY <1>5 DEF Deliver, DeliveryFails, Returns, Drops, InHand, watchVars
<1> QED BY <1>1, <1>2, <1>3, <1>4, <1>5 DEF Handles

LEMMA TailInBatch ==
  ASSUME TypeOK, batch # <<>>, batch' = Tail(batch)
  PROVE  InBatch \subseteq InBatch' \cup {Head(batch).hash}
<1> SUFFICES ASSUME NEW j \in DOMAIN batch
             PROVE  batch[j].hash \in InBatch' \cup {Head(batch).hash}
  BY DEF InBatch
<1>1. batch \in Seq(Log) /\ Len(batch) \in Nat /\ j \in 1..Len(batch)
  BY DEF TypeOK
<1>2. CASE j = 1
  BY <1>1, <1>2
<1>3. CASE j # 1
  <2>1. j - 1 \in DOMAIN batch' /\ batch'[j - 1] = batch[j]
    BY <1>1, <1>3
  <2> QED BY <2>1 DEF InBatch
<1> QED BY <1>2, <1>3

LEMMA HandlesWatch == TypeOK /\ InHand /\ WatchInv /\ Handles => WatchInv'
<1> SUFFICES ASSUME TypeOK, InHand, WatchInv, Handles PROVE WatchInv'
  OBVIOUS
<1>0. UNCHANGED <<head, logs, from, to, begun>> /\ ChainInv
  BY DEF Handles, Pick, NotPending, Attested, CallFails, Deliver, DeliveryFails, chainVars, watchVars,
     WatchInv
<1>1. ChainInv'
  BY <1>0 DEF ChainInv
<1>2. RoundInv'
  <2>0. pc \in {"batch", "call", "deliver"} /\ pc' \in {"batch", "call", "deliver"}
    BY DEF Handles, Pick, NotPending, Attested, CallFails, Deliver, DeliveryFails, Returns, TriesAgain
  <2> SUFFICES ASSUME Followed PROVE RoundInv'
    BY <1>0, <2>0 DEF RoundInv, Followed
  <2>1. batch # <<>> /\ (TakesOn \/ Drops)
    BY HandlesEffect DEF WatchInv, RoundInv
  <2>2. seen \subseteq seen' /\ seen \cup InBatch \subseteq seen' \cup InBatch'
    BY <2>1, TailInBatch DEF TakesOn, Drops, InBatch
  <2>3. \A i \in LeftBehind' : logs'[i].block < begun' - Lookback
    BY <1>0, <2>2 DEF WatchInv, RoundInv, LeftBehind
  <2>4. \A i \in DOMAIN logs' : from' <= logs'[i].block /\ logs'[i].block <= to' =>
          logs'[i].hash \in seen' \cup InBatch'
    BY <1>0, <2>0, <2>2 DEF WatchInv, RoundInv
  <2>5. pc' \in {"call", "deliver"} => Head(batch').hash \in seen'
    BY <2>1 DEF TakesOn, Drops
  <2> QED BY <1>0, <2>3, <2>4, <2>5 DEF WatchInv, RoundInv
<1> QED BY <1>1, <1>2 DEF WatchInv

\* No event since the block at which the watch began is passed over by
\* runWatch, whatever is mined while a round is handled.
THEOREM EventsAreFollowed == Spec => []NoEventSkipped
<1>1. Init => WatchInv
  BY BridgeAssumption DEF Init, WatchInv, ChainInv, RoundInv, Followed
<1>2. TypeOK /\ InHand /\ WatchInv /\ [Next]_vars => WatchInv'
  <2>1. WatchInv /\ UNCHANGED vars => WatchInv'
    BY DEF vars, chainVars, watchVars, WatchInv, ChainInv, RoundInv, Followed, LeftBehind, InBatch
  <2> QED BY <2>1, Cases, EnvironmentWatch, MovesWatch, HandlesWatch
<1>3. WatchInv => NoEventSkipped
  BY DEF WatchInv, RoundInv, Followed, NoEventSkipped
<1> QED BY <1>1, <1>2, <1>3, TypeCorrect, PTL DEF Spec

-----------------------------------------------------------------------------
(* What is written was anchored and answered.                              *)

Named == {<<logs[i].wallet, logs[i].hash>> : i \in DOMAIN logs}

DeliveryInv ==
  /\ \A j \in DOMAIN batch : <<batch[j].wallet, batch[j].hash>> \in Named
  /\ pc = "deliver" => Head(batch).hash \in answered
  /\ \A a \in written : a.hash \in answered /\ <<a.wallet, a.hash>> \in Named

LEMMA RecordsGrow ==
  TypeOK /\ [Next]_vars => answered \subseteq answered' /\ Named \subseteq Named'
<1> SUFFICES ASSUME TypeOK, [Next]_vars PROVE answered \subseteq answered' /\ Named \subseteq Named'
  OBVIOUS
<1>1. CASE Environment
  BY <1>1, ChainGrows DEF Environment, Block, Anchor, PostSealed, EnclaveRestarts, enclaveVars, Named
<1>2. CASE Moves
  BY <1>2, ChainGrows DEF Moves, Boot, Crash, Poll, EndRound, enclaveVars, Named
<1>3. CASE Handles
  BY <1>3, ChainGrows DEF Handles, Pick, NotPending, Attested, CallFails, Deliver, DeliveryFails,
     enclaveVars, Named
<1>4. CASE UNCHANGED vars
  BY <1>4 DEF vars, enclaveVars, chainVars, Named
<1> QED BY <1>1, <1>2, <1>3, <1>4, Cases

LEMMA BatchEffect ==
  TypeOK /\ InHand /\ [Next]_vars =>
    \/ batch' = batch \/ batch' = <<>> \/ Poll
    \/ batch # <<>> /\ batch' = Tail(batch)
<1> SUFFICES ASSUME TypeOK, InHand, [Next]_vars
             PROVE  \/ batch' = batch \/ batch' = <<>> \/ Poll
                    \/ batch # <<>> /\ batch' = Tail(batch)
  OBVIOUS
<1>1. CASE Environment
  BY <1>1 DEF Environment, Block, Anchor, PostSealed, EnclaveRestarts
<1>2. CASE Moves
  BY <1>2 DEF Moves, Boot, Crash, EndRound
<1>3. CASE Handles
  BY <1>3 DEF Handles, Pick, NotPending, Attested, CallFails, Deliver, DeliveryFails, Returns, TriesAgain, InHand
<1>4. CASE UNCHANGED vars
  BY <1>4 DEF vars
<1> QED BY <1>1, <1>2, <1>3, <1>4, Cases

LEMMA BatchStaysNamed == TypeOK /\ InHand /\ DeliveryInv /\ [Next]_vars =>
  \A j \in DOMAIN batch' : <<batch'[j].wallet, batch'[j].hash>> \in Named'
<1> SUFFICES ASSUME TypeOK, InHand, DeliveryInv, [Next]_vars, NEW j \in DOMAIN batch'
             PROVE  <<batch'[j].wallet, batch'[j].hash>> \in Named'
  OBVIOUS
<1>1. CASE batch' = batch
  BY <1>1, RecordsGrow DEF DeliveryInv
<1>2. CASE batch' = <<>>
  BY <1>2
<1>3. CASE batch # <<>> /\ batch' = Tail(batch)
  <2>1. j + 1 \in DOMAIN batch /\ batch'[j] = batch[j + 1]
    BY <1>3 DEF TypeOK
  <2> QED BY <2>1, RecordsGrow DEF DeliveryInv
<1>4. CASE Poll
  <2>1. PICK k \in 0..Len(logs) : batch' = SubSeq(logs, k + 1, Len(logs))
    BY <1>4 DEF Poll, Filter
  <2>2. logs \in Seq(Log) /\ Len(logs) \in Nat /\ logs' = logs
    BY <1>4 DEF TypeOK, Poll, chainVars
  <2>3. j + k \in DOMAIN logs /\ batch'[j] = logs[j + k]
    BY <2>1, <2>2
  <2> QED BY <2>2, <2>3 DEF Named
<1> QED BY <1>1, <1>2, <1>3, <1>4, BatchEffect

LEMMA DeliveryStays == TypeOK /\ InHand /\ DeliveryInv /\ [Next]_vars => DeliveryInv'
<1> SUFFICES ASSUME TypeOK, InHand, DeliveryInv, [Next]_vars PROVE DeliveryInv'
  OBVIOUS
<1>1. pc' = "deliver" => Head(batch').hash \in answered'
  <2>1. CASE Attested
    BY <2>1 DEF Attested, current
  <2>2. CASE pc = "deliver" /\ batch' = batch
    BY <2>2, RecordsGrow DEF DeliveryInv
  <2>3. pc' = "deliver" => Attested \/ (pc = "deliver" /\ batch' = batch)
    <3>1. CASE Environment
      BY <3>1 DEF Environment, Block, Anchor, PostSealed, EnclaveRestarts
    <3>2. CASE Moves
      BY <3>2 DEF Moves, Boot, Crash, Poll, EndRound
    <3>3. CASE Handles
      BY <3>3 DEF Handles, Pick, NotPending, CallFails, Deliver, DeliveryFails, Returns, TriesAgain
    <3>4. CASE UNCHANGED vars
      BY <3>4 DEF vars
    <3> QED BY <3>1, <3>2, <3>3, <3>4, Cases
  <2> QED BY <2>1, <2>2, <2>3
<1>2. \A a \in written' : a.hash \in answered' /\ <<a.wallet, a.hash>> \in Named'
  <2>1. CASE written' = written
    BY <2>1, RecordsGrow DEF DeliveryInv
  <2>2. CASE Deliver
    <3>1. current = batch[1] /\ 1 \in DOMAIN batch
      BY <2>2 DEF Deliver, InHand, TypeOK, current
    <3>2. current.hash \in answered /\ <<current.wallet, current.hash>> \in Named
      BY <2>2, <3>1 DEF Deliver, DeliveryInv, current
    <3>3. written' = written \cup {[wallet |-> current.wallet, hash |-> current.hash]}
      BY <2>2 DEF Deliver, Accepts
    <3>4. ASSUME NEW a \in written'
          PROVE  a.hash \in answered /\ <<a.wallet, a.hash>> \in Named
      BY <3>2, <3>3 DEF DeliveryInv
    <3> QED BY <3>4, RecordsGrow
  <2>3. written' = written \/ Deliver
    <3>1. CASE Environment
      BY <3>1 DEF Environment, Block, Anchor, PostSealed, EnclaveRestarts, chainVars
    <3>2. CASE Moves
      BY <3>2 DEF Moves, Boot, Crash, Poll, EndRound, chainVars
    <3>3. CASE Handles
      BY <3>3 DEF Handles, Pick, NotPending, Attested, CallFails, DeliveryFails, chainVars
    <3>4. CASE UNCHANGED vars
      BY <3>4 DEF vars, chainVars
    <3> QED BY <3>1, <3>2, <3>3, <3>4, Cases
  <2> QED BY <2>1, <2>2, <2>3
<1> QED BY <1>1, <1>2, BatchStaysNamed DEF DeliveryInv

\* What deliver writes names a wallet and a hash that one event named
\* together, and the enclave had answered for that hash.
THEOREM DeliveriesAreAnchored == Spec => []WrittenAsAnchored
<1>1. Init => DeliveryInv
  BY DEF Init, DeliveryInv
<1>2. DeliveryInv => WrittenAsAnchored
  BY DEF DeliveryInv, Named, WrittenAsAnchored
<1> QED BY <1>1, <1>2, DeliveryStays, TypeCorrect, PTL DEF Spec

=============================================================================
