------------------------------ MODULE DemoBridge ------------------------------
(***************************************************************************)
(* cmd/demo-bridge/main.go in watch mode: one process that polls the       *)
(* sender's RequestSubmitted events, drives each new request through the   *)
(* enclave and writes the answer on chain.  It keeps everything in memory  *)
(* and handles requests one at a time.                                     *)
(*                                                                         *)
(* The chain, the browser that posts ciphertexts, and the enclave behind   *)
(* its /action endpoint are the environment.  The process is cut at its    *)
(* calls to them, any of which may fail, or fail after having taken        *)
(* effect.                                                                 *)
(***************************************************************************)
EXTENDS Integers, Sequences, FiniteSets, SequencesExt

CONSTANTS Wallet, Hash,
          Lookback,     \* blocks before the head at which a watch begins
          WordSize,     \* 2^64 in the code, where block numbers are uint64
          MaxAttempts,  \* calls for one request while its ciphertext is awaited
          MaxRange,     \* blocks the node looks through in one eth_getLogs; 30 on Coston2
          MaxHead,      \* bound on blocks
          MaxEvents,    \* bound on RequestSubmitted events
          MaxBoots      \* bound on starts of the process

ASSUME BridgeAssumption ==
  /\ Lookback \in Nat
  /\ MaxAttempts \in Nat \ {0}
  /\ MaxRange \in Nat \ {0}
  /\ MaxHead \in Nat /\ MaxEvents \in Nat
  /\ WordSize \in Nat /\ WordSize > MaxHead + Lookback + 1
  /\ MaxBoots \in Nat

VARIABLES
  head,      \* chain: number of the last block
  logs,      \* chain: RequestSubmitted events in order
  written,   \* chain: attestations, [wallet, hash]; the hash is the nonce
  pending,   \* enclave: hashes whose ciphertext it holds
  answered,  \* history: hashes the enclave attested
  boots,
  pc,        \* where the process is
  from,      \* first block not looked at
  to,        \* head of this round
  batch,     \* events of this round not yet dealt with; the first is in hand
  seen,
  attempt,
  begun      \* history: head when the watch began

chainVars == <<head, logs, written>>
enclaveVars == <<pending, answered>>
watchVars == <<from, to, seen, begun>>
vars == <<chainVars, enclaveVars, boots, pc, watchVars, batch, attempt>>

Log == [wallet : Wallet, hash : Hash, block : 0..MaxHead]

Anchored(h) == \E i \in DOMAIN logs : logs[i].hash = h

TypeOK ==
  /\ head \in 0..MaxHead
  /\ logs \in Seq(Log)
  /\ written \subseteq [wallet : Wallet, hash : Hash]
  /\ pending \subseteq Hash
  /\ answered \subseteq Hash
  /\ boots \in 0..MaxBoots
  /\ pc \in {"down", "poll", "batch", "call", "deliver"}
  /\ from \in 0..(WordSize - 1)
  /\ to \in 0..MaxHead
  /\ batch \in Seq(Log)
  /\ seen \subseteq Hash
  /\ attempt \in 1..MaxAttempts
  /\ begun \in 0..MaxHead

Init ==
  /\ head \in 0..MaxHead
  /\ logs = <<>> /\ written = {}
  /\ pending = {} /\ answered = {}
  /\ boots = 0 /\ pc = "down"
  /\ from = 0 /\ to = 0 /\ batch = <<>> /\ seen = {} /\ attempt = 1
  /\ begun = 0

-----------------------------------------------------------------------------
\* The environment.

Block(events) ==
  /\ head < MaxHead /\ Len(logs \o events) <= MaxEvents
  /\ head' = head + 1
  /\ logs' = logs \o events
  /\ UNCHANGED <<written, enclaveVars, boots, pc, watchVars, batch, attempt>>

Anchor(w, h) == Block(<<[wallet |-> w, hash |-> h, block |-> head + 1]>>)

\* The browser posts a ciphertext after its anchor, at once or later or never.
PostSealed(h) ==
  /\ Anchored(h) /\ h \notin pending
  /\ pending' = pending \cup {h}
  /\ UNCHANGED <<chainVars, answered, boots, pc, watchVars, batch, attempt>>

EnclaveRestarts ==
  /\ pending # {}
  /\ pending' = {}
  /\ UNCHANGED <<chainVars, answered, boots, pc, watchVars, batch, attempt>>

-----------------------------------------------------------------------------
\* runWatch: head - Lookback is a difference of uint64s.

Boot ==
  /\ pc = "down"
  /\ boots < MaxBoots
  /\ boots' = boots + 1
  /\ pc' = "poll"
  /\ from' = (head - Lookback) % WordSize
  /\ begun' = head
  /\ UNCHANGED <<chainVars, enclaveVars, to, batch, seen, attempt>>

\* The process keeps nothing.
Crash ==
  /\ pc # "down"
  /\ pc' = "down"
  /\ from' = 0 /\ to' = 0 /\ batch' = <<>> /\ seen' = {} /\ attempt' = 1 /\ begun' = 0
  /\ UNCHANGED <<chainVars, enclaveVars, boots>>

\* The events of the blocks not looked at: blocks only rise along logs, so
\* they are its end.
Filter(first) ==
  \E k \in 0..Len(logs) :
    /\ \A i \in DOMAIN logs : logs[i].block >= first <=> i > k
    /\ batch' = SubSeq(logs, k + 1, Len(logs))

\* The head is read and the events up to it are fetched; blocks that arrive
\* between the two reads are not asked for.  Either read may fail: the loop
\* sleeps and comes back to ask from the same block.  The node answers for at
\* most MaxRange blocks, which is how the repository's other programs know the
\* Coston2 node (flare-lending/utils.ts:280, utils/smart-accounts.ts:519).
Poll ==
  /\ pc = "poll"
  /\ head >= from
  /\ head - from < MaxRange
  /\ to' = head
  /\ Filter(from)
  /\ pc' = "batch"
  /\ UNCHANGED <<chainVars, enclaveVars, boots, from, seen, attempt, begun>>

Pick ==
  /\ pc = "batch" /\ batch # <<>>
  /\ IF Head(batch).hash \in seen
     THEN /\ batch' = Tail(batch)
          /\ UNCHANGED <<pc, seen, attempt>>
     ELSE /\ seen' = seen \cup {Head(batch).hash}
          /\ attempt' = 1
          /\ pc' = "call"
          /\ UNCHANGED batch
  /\ UNCHANGED <<chainVars, enclaveVars, boots, from, to, begun>>

\* Variant: the next round begins after the head of now, not of this round.
EndRound_FreshHead ==
  /\ pc = "batch" /\ batch = <<>>
  /\ from' = head + 1
  /\ pc' = "poll"
  /\ UNCHANGED <<chainVars, enclaveVars, boots, to, batch, seen, attempt, begun>>

EndRound ==
  /\ pc = "batch" /\ batch = <<>>
  /\ from' = to + 1
  /\ pc' = "poll"
  /\ UNCHANGED <<chainVars, enclaveVars, boots, to, batch, seen, attempt, begun>>

-----------------------------------------------------------------------------
\* handle: the call to the enclave.  Whatever the outcome, the loop goes on to
\* the next event.

current == Head(batch)

Returns == pc' = "batch" /\ batch' = Tail(batch) /\ UNCHANGED attempt
TriesAgain == attempt' = attempt + 1 /\ UNCHANGED <<pc, batch>>

\* The enclave answers that it holds no ciphertext for this hash.  Variant: no
\* limit on the calls.
NotPending_Forever ==
  /\ pc = "call" /\ current.hash \notin pending
  /\ UNCHANGED vars

NotPending ==
  /\ pc = "call" /\ current.hash \notin pending
  /\ IF attempt >= MaxAttempts THEN Returns ELSE TriesAgain
  /\ UNCHANGED <<chainVars, enclaveVars, boots, watchVars>>

\* The enclave takes the ciphertext and attests it, and the answer arrives.
Attested ==
  /\ pc = "call" /\ current.hash \in pending
  /\ pending' = pending \ {current.hash}
  /\ answered' = answered \cup {current.hash}
  /\ pc' = "deliver"
  /\ UNCHANGED <<chainVars, boots, watchVars, batch, attempt>>

\* The call fails before or after the ciphertext was taken, or after it was
\* attested, or the enclave refuses for another reason.
CallFails ==
  /\ pc = "call"
  /\ \/ UNCHANGED enclaveVars
     \/ /\ current.hash \in pending
        /\ pending' = pending \ {current.hash}
        /\ answered' \in {answered, answered \cup {current.hash}}
  /\ Returns
  /\ UNCHANGED <<chainVars, boots, watchVars>>

\* deliver: the executor's transaction.  The registry takes a nonce once, and
\* may refuse for reasons of its own.
Accepts(att) ==
  /\ \A w \in written : w.hash # att.hash
  /\ written' = written \cup {att}

\* Variant: the wallet of the newest event.
Deliver_NewestWallet ==
  /\ pc = "deliver"
  /\ Accepts([wallet |-> Last(logs).wallet, hash |-> current.hash])
  /\ Returns
  /\ UNCHANGED <<head, logs, enclaveVars, boots, watchVars>>

\* Mined; the same when the answer of the node is lost and handle fails.
Deliver ==
  /\ pc = "deliver"
  /\ Accepts([wallet |-> current.wallet, hash |-> current.hash])
  /\ Returns
  /\ UNCHANGED <<head, logs, enclaveVars, boots, watchVars>>

DeliveryFails ==
  /\ pc = "deliver"
  /\ Returns
  /\ UNCHANGED <<chainVars, enclaveVars, boots, watchVars>>

Answers == NotPending \/ Attested
Settles == Deliver \/ DeliveryFails

Environment ==
  \/ Block(<<>>)
  \/ \E w \in Wallet, h \in Hash : Anchor(w, h)
  \/ \E h \in Hash : PostSealed(h)
  \/ EnclaveRestarts

Next == Environment \/ Boot \/ Crash \/ Poll \/ Pick \/ EndRound \/ Answers \/ CallFails \/ Settles

Spec == Init /\ [][Next]_vars

\* The loop of a running process goes on: its reads are retried until one
\* succeeds, if the node takes their range at all; the enclave answers, and a
\* transaction is mined or refused.  Calls may fail but need not, and nothing
\* is assumed of anybody else.
FairSpec ==
  Spec /\ WF_vars(Poll) /\ WF_vars(Pick) /\ WF_vars(EndRound) /\ WF_vars(Answers) /\ WF_vars(Settles)

-----------------------------------------------------------------------------

LeftBehind == {i \in DOMAIN logs : logs[i].block < from /\ logs[i].hash \notin seen}

(***************************************************************************)
(* runWatch, "handles each new request once" (main.go:235): no event since *)
(* the block the watch began with is passed over unhandled, also when      *)
(* blocks arrived while a round was being handled.  (On a chain at least   *)
(* Lookback blocks long: on a shorter one from wraps around, see Boot, and *)
(* the watch handles nothing.)                                             *)
(***************************************************************************)
NoEventSkipped ==
  pc # "down" /\ begun >= Lookback =>
    \A i \in LeftBehind : logs[i].block < begun - Lookback

(***************************************************************************)
(* main.go:287-288 and 180: what is written names a wallet and a hash that *)
(* one event named together, and the enclave spent that ciphertext for it. *)
(***************************************************************************)
WrittenAsAnchored ==
  \A a \in written :
    /\ a.hash \in answered
    /\ \E i \in DOMAIN logs : logs[i].wallet = a.wallet /\ logs[i].hash = a.hash

\* More blocks than the node looks through at once: every later read asks for
\* as many or more.
RangeTooLong == pc = "poll" /\ head >= from /\ head - from >= MaxRange

AnchoredInWatch(h) ==
  /\ pc # "down" /\ begun >= Lookback
  /\ \E i \in DOMAIN logs : logs[i].hash = h /\ logs[i].block > begun

(***************************************************************************)
(* A request anchored while the process watches comes to be handled unless *)
(* the process stops or a round took so long that the node refuses what is *)
(* left to read: no earlier request, whose ciphertext may never come,      *)
(* holds the queue up for good (main.go:141-153).                          *)
(***************************************************************************)
EventsAreHandled ==
  \A h \in Hash : AnchoredInWatch(h) ~> (pc = "down" \/ h \in seen \/ RangeTooLong)

(***************************************************************************)
(* "runWatch polls RequestSubmitted and handles each new request once"     *)
(* (main.go:235), without the exception.  It does not: the whole interval  *)
(* is asked for in one call, and from moves only when that succeeds        *)
(* (main.go:271-281).                                                      *)
(***************************************************************************)
EachRequestIsHandled ==
  \A h \in Hash : AnchoredInWatch(h) ~> (pc = "down" \/ h \in seen)

=============================================================================
