--------------------------- MODULE StarterProofs ---------------------------
(***************************************************************************)
(* The scripts of reference/flare-viem-starter, for every set of runs,     *)
(* programs that their types accept, faults and rivals, and the preflight  *)
(* of direct-minting-limits.ts, for every set of windows, sizes, caps,     *)
(* thresholds and mints.                                                   *)
(*                                                                         *)
(* A script is right when its locals are about the payment it names at     *)
(* every step, which is what its type says, and when the chain's marks and *)
(* events exist only for memos that ran.  Both are invariants: a step      *)
(* changes the ledger for all runs and the locals of one.                  *)
(*                                                                         *)
(* A payout of MPT is backed by what the script did before it, so the      *)
(* invariant says of each run how far it is on that way and counts the     *)
(* runs that paid against the operations that bridged.                     *)
(*                                                                         *)
(* The replay of the preflight divides the idle time by the window; the    *)
(* limiter slides one window at a time.  The invariant is that both are at *)
(* the same place; what the script concludes from the state is then        *)
(* arithmetic.                                                             *)
(***************************************************************************)
EXTENDS LendingPayouts, DirectMintingLimits, SequenceTheorems, FiniteSetTheorems, TLAPS

-----------------------------------------------------------------------------
(* Sequences.                                                              *)

IsSequence(s) == Len(s) \in Nat /\ s = [i \in 1 .. Len(s) |-> s[i]]

LEMMA SequenceFromFunction ==
  ASSUME NEW s, NEW n \in Nat, s = [i \in 1 .. n |-> s[i]]
  PROVE  Len(s) = n /\ DOMAIN s = 1 .. n /\ IsSequence(s)
<1> DEFINE S == {s[i] : i \in 1 .. n}
<1>1. s \in [1 .. n -> S]
  OBVIOUS
<1>2. s \in Seq(S)
  BY <1>1, SeqDef
<1>3. Len(s) = n
  BY <1>1, <1>2, LenProperties
<1> QED
  BY <1>1, <1>3 DEF IsSequence

LEMMA AppendToSequence ==
  ASSUME NEW s, IsSequence(s), NEW x
  PROVE  LET t == Append(s, x) IN
         /\ IsSequence(t)
         /\ Len(t) = Len(s) + 1
         /\ DOMAIN t = 1 .. Len(s) + 1
         /\ \A i \in 1 .. Len(s) : t[i] = s[i]
         /\ t[Len(s) + 1] = x
<1> DEFINE S == {s[i] : i \in 1 .. Len(s)} \union {x}
           t == Append(s, x)
<1>1. s \in Seq(S)
  <2>1. s \in [1 .. Len(s) -> S]
    BY DEF IsSequence
  <2> QED
    BY <2>1, SeqDef DEF IsSequence
<1>2. /\ t \in Seq(S) /\ Len(t) = Len(s) + 1
      /\ \A i \in 1 .. Len(s) : t[i] = s[i]
      /\ t[Len(s) + 1] = x
  BY <1>1, AppendProperties
<1>3. t \in [1 .. Len(t) -> S]
  BY <1>2, LenProperties
<1>4. Len(s) + 1 \in Nat
  BY DEF IsSequence
<1> HIDE DEF t
<1>5. DOMAIN t = 1 .. Len(s) + 1 /\ t = [i \in 1 .. Len(t) |-> t[i]]
  BY <1>2, <1>3
<1>6. IsSequence(t)
  BY <1>2, <1>4, <1>5 DEF IsSequence
<1>7. QED
  BY <1>2, <1>5, <1>6 DEF t

-----------------------------------------------------------------------------
(* Payments and events.                                                    *)

LogEntry == [ev : Events, id : Nat, key : Nat]

\* What the sender of a payment fixed.
SamePayment(t, p) ==
  /\ t.by = p.by /\ t.kind = p.kind /\ t.nonce = p.nonce /\ t.op = p.op
  /\ t.target = p.target /\ t.net = p.net /\ t.sent = p.sent

LEMMA MintMarked ==
  ASSUME NEW p, IsPayment(p), NEW m \in Statuses
  PROVE  LET t == [p EXCEPT !.mint = m] IN
         IsPayment(t) /\ SamePayment(t, p) /\ t.mint = m /\ t.ignored = p.ignored
BY DEF IsPayment, SamePayment

\* What appending to the log leaves there.
Extended(s, es, t) ==
  /\ t \in Seq(LogEntry)
  /\ \A i \in 1 .. Len(t) :
       \/ i \in 1 .. Len(s) /\ t[i] = s[i]
       \/ \E j \in 1 .. Len(es) : t[i] = es[j]

LEMMA LogExtended == \A s, es \in Seq(LogEntry) : Extended(s, es, s \o es)
<1> SUFFICES ASSUME NEW s \in Seq(LogEntry), NEW es \in Seq(LogEntry), NEW t, t = s \o es
             PROVE  Extended(s, es, t)
  OBVIOUS
<1>1. /\ t \in Seq(LogEntry) /\ Len(t) = Len(s) + Len(es)
      /\ \A i \in 1 .. Len(t) : t[i] = IF i <= Len(s) THEN s[i] ELSE es[i - Len(s)]
  BY ConcatProperties
<1>2. Len(s) \in Nat /\ Len(es) \in Nat
  BY LenProperties
<1> SUFFICES ASSUME NEW i \in 1 .. Len(t), ~(i \in 1 .. Len(s))
             PROVE  \E j \in 1 .. Len(es) : t[i] = es[j]
  BY <1>1 DEF Extended
<1>3. i - Len(s) \in 1 .. Len(es) /\ t[i] = es[i - Len(s)]
  BY <1>1, <1>2
<1> QED
  BY <1>3

LEMMA LogAppended ==
  ASSUME NEW s \in Seq(LogEntry), NEW e \in LogEntry, NEW t, t = Append(s, e)
  PROVE  /\ t \in Seq(LogEntry)
         /\ \A i \in 1 .. Len(t) : (i \in 1 .. Len(s) /\ t[i] = s[i]) \/ t[i] = e
<1>1. /\ t \in Seq(LogEntry) /\ Len(t) = Len(s) + 1
      /\ \A i \in 1 .. Len(s) : t[i] = s[i]
      /\ t[Len(s) + 1] = e
  BY AppendProperties
<1>2. Len(s) \in Nat
  BY LenProperties
<1> QED
  BY <1>1, <1>2

LEMMA EmittedTyped ==
  ASSUME NEW op, IsOp(op), NEW p \in Nat
  PROVE  /\ Emitted(op, p) \in Seq(LogEntry)
         /\ \A j \in 1 .. Len(Emitted(op, p)) : Emitted(op, p)[j].ev = op.emits
<1>1. CASE op.emits = "none"
  <2>1. Emitted(op, p) = << >>
    BY <1>1 DEF Emitted
  <2> QED
    BY <2>1, EmptySeq
<1>2. CASE op.emits # "none"
  <2> DEFINE e == [ev |-> op.emits, id |-> p, key |-> 0]
  <2>1. e \in LogEntry
    BY DEF LogEntry, IsOp
  <2>2. Emitted(op, p) = <<e>>
    BY <1>2 DEF Emitted
  <2> QED
    BY <2>1, <2>2
<1> QED
  BY <1>1, <1>2

-----------------------------------------------------------------------------
(* What the chain keeps.                                                   *)

ChainTyped ==
  /\ nonce \in Nat
  /\ IsSequence(ledger) /\ \A p \in Ids : IsPayment(ledger[p])
  /\ log \in Seq(LogEntry)
  /\ holds \in Holdings

PaymentTold(p) ==
  /\ ledger[p].op.emits # "UserOp"
  /\ ledger[p].kind = "E0" => ledger[p].target \in Ids
  /\ ledger[p].kind = "E0" /\ ledger[p].mint = "ran" => ledger[ledger[p].target].ignored
  /\ ledger[p].kind = "E1" /\ ledger[p].mint = "ran" => nonce >= ledger[p].target
\* An E0 that ran has set the mark it is for, an E1 that ran has raised the
\* nonce, and a user operation is announced only if it ran.
LedgerTold ==
  /\ \A p \in Ids : PaymentTold(p)
  /\ \A i \in 1 .. Len(log) : log[i].ev = "UserOp" => NonceRan(log[i].key)
ChainInv == ChainTyped /\ LedgerTold

\* Payments stay, what was minted stays minted as it was, marks stay set.
Grows ==
  /\ Ids \subseteq Ids' /\ nonce' >= nonce
  /\ \A p \in Ids :
       /\ SamePayment(ledger'[p], ledger[p])
       /\ Final(p) => ledger'[p].mint = ledger[p].mint
       /\ ledger[p].ignored => ledger'[p].ignored

LEMMA IdsAre ==
  ASSUME ChainTyped
  PROVE  Len(ledger) \in Nat /\ Ids = 1 .. Len(ledger) /\ Ids \subseteq Nat
BY DEF ChainTyped, IsSequence, Ids

LEMMA QuietChain ==
  ASSUME ChainInv, UNCHANGED chain
  PROVE  ChainInv' /\ Grows
<1>1. nonce' = nonce /\ ledger' = ledger /\ log' = log /\ holds' = holds
  BY DEF chain
<1>2. ChainTyped'
  BY <1>1 DEF ChainInv, ChainTyped, Ids
<1>3. LedgerTold'
  BY <1>1 DEF ChainInv, LedgerTold, PaymentTold, Ids, NonceRan
<1>4. Grows
  BY <1>1 DEF Grows, Ids, Final, SamePayment, ChainInv, ChainTyped
<1> QED
  BY <1>2, <1>3, <1>4 DEF ChainInv

\* The events of operations that already ran stay true.
LEMMA NonceStaysRan ==
  ASSUME Grows, NEW n, NonceRan(n)
  PROVE  NonceRan(n)'
<1>1. PICK q \in Ids : ledger[q].kind \in UserOps /\ ledger[q].nonce = n /\ ledger[q].mint = "ran"
  BY DEF NonceRan
<1>2. /\ q \in Ids'
      /\ ledger'[q].kind \in UserOps /\ ledger'[q].nonce = n /\ ledger'[q].mint = "ran"
  BY <1>1 DEF Grows, SamePayment, Final
<1> QED
  BY <1>2 DEF NonceRan, Ids

\* What a step of the chain has to show for LedgerTold to survive it.
LEMMA ToldAgain ==
  ASSUME ChainInv, Grows, Ids' = Ids,
         \A p \in Ids : ledger'[p].mint = "ran" /\ ledger[p].mint # "ran" =>
            /\ ledger[p].kind = "E0" => ledger'[ledger[p].target].ignored
            /\ ledger[p].kind = "E1" => nonce' >= ledger[p].target,
         nonce' \in Nat,
         \A i \in 1 .. Len(log') : log'[i].ev = "UserOp" =>
            (i \in 1 .. Len(log) /\ log'[i] = log[i]) \/ NonceRan(log[i].key)'
  PROVE  LedgerTold'
<1>1. ASSUME NEW p \in Ids PROVE PaymentTold(p)'
  <2>1. SamePayment(ledger'[p], ledger[p]) /\ PaymentTold(p) /\ IsPayment(ledger[p])
    BY DEF Grows, ChainInv, LedgerTold, ChainTyped
  <2>2. ledger'[p].op.emits # "UserOp"
    BY <2>1 DEF SamePayment, PaymentTold
  <2>3. ledger'[p].kind = "E0" => ledger'[p].target \in Ids'
    BY <2>1 DEF SamePayment, PaymentTold
  <2>4. ledger'[p].kind = "E0" /\ ledger'[p].mint = "ran" => ledger'[ledger'[p].target].ignored
    BY <2>1 DEF SamePayment, PaymentTold, Grows
  <2>5. ledger'[p].kind = "E1" /\ ledger'[p].mint = "ran" => nonce' >= ledger'[p].target
    BY <2>1 DEF SamePayment, PaymentTold, Grows, ChainInv, ChainTyped, IsPayment
  <2> QED
    BY <2>2, <2>3, <2>4, <2>5 DEF PaymentTold, Ids
<1>2. ASSUME NEW i \in 1 .. Len(log'), log'[i].ev = "UserOp"
      PROVE  NonceRan(log[i].key)'
  <2>1. CASE i \in 1 .. Len(log) /\ log'[i] = log[i]
    <3>1. NonceRan(log[i].key)
      BY <1>2, <2>1 DEF ChainInv, LedgerTold
    <3>2. PICK n : n = log[i].key
      OBVIOUS
    <3>3. NonceRan(n)'
      BY <3>1, <3>2, NonceStaysRan
    <3> QED
      BY <2>1, <3>2, <3>3
  <2> QED
    BY <1>2, <2>1
<1> QED
  BY <1>1, <1>2 DEF LedgerTold, Ids
-----------------------------------------------------------------------------
(* Every step of the chain keeps it.                                       *)

LEMMA AppliedTyped ==
  ASSUME NEW h \in Holdings, NEW op, IsOp(op), Affords(h, op)
  PROVE  Applied(h, op) \in Holdings
<1>1. ASSUME NEW a \in Assets PROVE Left(h, op, a) \in Nat
  BY DEF Holdings, IsOp, Affords, Left
<1> QED
  BY <1>1 DEF Holdings, Applied

LEMMA CreditedTyped ==
  ASSUME ChainTyped, NEW p \in Ids
  PROVE  Credited(p) \in Holdings
BY AssetsAssumption DEF ChainTyped, Holdings, Credited, IsPayment

\* A step that marks payments and sends none.
LEMMA Remarked ==
  ASSUME ChainTyped,
         ledger' = [q \in Ids |-> ledger'[q]],
         \A q \in Ids : IsPayment(ledger'[q])
  PROVE  Ids' = Ids /\ IsSequence(ledger)' /\ \A q \in Ids' : IsPayment(ledger[q])'
<1>1. PICK n \in Nat : n = Len(ledger)
  BY IdsAre
<1>2. PICK l : l = ledger'
  OBVIOUS
<1>3. l = [i \in 1 .. n |-> l[i]]
  BY <1>1, <1>2, IdsAre
<1>4. IsSequence(l) /\ DOMAIN l = 1 .. n
  BY <1>3, SequenceFromFunction
<1>5. Ids' = Ids
  BY <1>1, <1>2, <1>4, IdsAre DEF Ids
<1> QED
  BY <1>2, <1>4, <1>5 DEF IsSequence

LEMMA MintEventsTyped ==
  ASSUME ChainInv, NEW p \in Ids
  PROVE  /\ MintEvents(p) \in Seq(LogEntry)
         /\ \A j \in 1 .. Len(MintEvents(p)) : MintEvents(p)[j].ev = "UserOp" =>
              RunsOp(p) /\ MintEvents(p)[j].key = ledger[p].nonce
<1>1. IsPayment(ledger[p]) /\ p \in Nat /\ ledger[p].op.emits # "UserOp"
  BY IdsAre DEF ChainInv, ChainTyped, LedgerTold, PaymentTold
<1>2. CASE RunsOp(p)
  <2> DEFINE e == [ev |-> "UserOp", id |-> p, key |-> ledger[p].nonce]
             rest == Emitted(ledger[p].op, p)
  <2>1. e \in LogEntry
    BY <1>1, EventsAssumption DEF LogEntry, IsPayment
  <2>2. <<e>> \in Seq(LogEntry) /\ Len(<<e>>) = 1 /\ <<e>>[1] = e
    BY <2>1
  <2>3. IsOp(ledger[p].op)
    BY <1>1 DEF IsPayment
  <2>4. rest \in Seq(LogEntry) /\ \A j \in 1 .. Len(rest) : rest[j].ev # "UserOp"
    BY <1>1, <2>3, EmittedTyped
  <2>5. MintEvents(p) = <<e>> \o rest
    BY <1>2 DEF MintEvents, RunsOp, UserOps
  <2>6. e.key = ledger[p].nonce
    OBVIOUS
  <2> HIDE DEF e, rest
  <2>7. Extended(<<e>>, rest, MintEvents(p))
    BY <2>2, <2>4, <2>5, LogExtended
  <2> QED
    BY <1>2, <2>2, <2>4, <2>6, <2>7 DEF Extended
<1>3. CASE ~RunsOp(p) /\ ledger[p].kind = "mint"
  <2> DEFINE e == [ev |-> "DirectMinted", id |-> p, key |-> 0]
  <2>1. e \in LogEntry /\ e.ev # "UserOp"
    BY <1>1, EventsAssumption DEF LogEntry
  <2>2. MintEvents(p) = <<e>>
    BY <1>3 DEF MintEvents
  <2> QED
    BY <2>1, <2>2
<1>4. CASE ~RunsOp(p) /\ ledger[p].kind # "mint"
  <2>1. MintEvents(p) = << >>
    BY <1>4 DEF MintEvents
  <2> QED
    BY <2>1, EmptySeq
<1> QED
  BY <1>2, <1>3, <1>4

LEMMA SettleKeeps ==
  ASSUME ChainInv, NEW p \in Ids, Settle(p)
  PROVE  /\ ChainInv' /\ Grows /\ Ids' = Ids
         /\ ledger'[p].mint = Outcome(p) /\ Outcome(p) \in {"ran", "skipped"}
<1>1. /\ ChainTyped /\ LedgerTold /\ IsPayment(ledger[p]) /\ CanSettle(p)
  BY DEF ChainInv, ChainTyped, Settle
<1>2. Outcome(p) \in {"ran", "skipped"} /\ Outcome(p) \in Statuses
  BY DEF Outcome, Statuses
<1>3. ASSUME NEW q \in Ids
      PROVE  /\ IsPayment(ledger'[q]) /\ SamePayment(ledger'[q], ledger[q])
             /\ ledger'[q].mint = IF q = p THEN Outcome(p) ELSE ledger[q].mint
             /\ ledger'[q].ignored = (ledger[q].ignored \/ Skips(p, q))
  <2>1. IsPayment(ledger[q])
    BY <1>1 DEF ChainTyped
  <2> DEFINE m == IF q = p THEN Outcome(p) ELSE ledger[q].mint
             g == ledger[q].ignored \/ Skips(p, q)
  <2>2. m \in Statuses
    BY <1>2, <2>1 DEF IsPayment
  <2>3. g \in BOOLEAN
    OBVIOUS
  <2>4. ledger'[q] = [ledger[q] EXCEPT !.mint = m, !.ignored = g]
    BY DEF Settle
  <2> HIDE DEF m, g
  <2>7. PICK t : t = ledger'[q]
    OBVIOUS
  <2>6. IsPayment(t) /\ SamePayment(t, ledger[q]) /\ t.mint = m /\ t.ignored = g
    BY <2>1, <2>2, <2>3, <2>4, <2>7 DEF IsPayment, SamePayment
  <2>5. /\ IsPayment(ledger'[q]) /\ SamePayment(ledger'[q], ledger[q])
        /\ ledger'[q].mint = m /\ ledger'[q].ignored = g
    BY <2>6, <2>7
  <2> QED
    BY <2>5 DEF m, g
<1>4. ledger' = [q \in Ids |-> ledger'[q]]
  BY DEF Settle
<1>5. Ids' = Ids /\ IsSequence(ledger)' /\ \A q \in Ids' : IsPayment(ledger[q])'
  BY <1>1, <1>3, <1>4, Remarked
<1>6. nonce' \in Nat /\ nonce' >= nonce
  <2>1. nonce \in Nat /\ ledger[p].target \in Nat
    BY <1>1 DEF ChainTyped, IsPayment
  <2>2. nonce' \in {nonce, nonce + 1} \/ (nonce' = ledger[p].target /\ ledger[p].target > nonce)
    BY <1>1 DEF Settle, CanSettle
  <2> QED
    BY <2>1, <2>2
<1>7. holds' \in Holdings
  <2>1. Credited(p) \in Holdings
    BY <1>1, CreditedTyped
  <2>2. RunsOp(p) => Applied(Credited(p), ledger[p].op) \in Holdings
    BY <1>1, <2>1, AppliedTyped DEF CanSettle, IsPayment
  <2> QED
    BY <2>1, <2>2 DEF Settle
<1>8. /\ log' \in Seq(LogEntry)
      /\ \A i \in 1 .. Len(log') :
           \/ i \in 1 .. Len(log) /\ log'[i] = log[i]
           \/ \E j \in 1 .. Len(MintEvents(p)) : log'[i] = MintEvents(p)[j]
  <2>1. MintEvents(p) \in Seq(LogEntry) /\ log \in Seq(LogEntry)
    BY <1>1, MintEventsTyped DEF ChainTyped
  <2>2. log' = log \o MintEvents(p)
    BY DEF Settle
  <2>3. Extended(log, MintEvents(p), log')
    BY <2>1, <2>2, LogExtended
  <2> QED
    BY <2>3 DEF Extended
<1>9. Grows
  BY <1>1, <1>3, <1>5, <1>6 DEF Grows, Final, CanSettle
<1>10. ASSUME NEW q \in Ids, ledger'[q].mint = "ran", ledger[q].mint # "ran"
       PROVE  /\ ledger[q].kind = "E0" => ledger'[ledger[q].target].ignored
              /\ ledger[q].kind = "E1" => nonce' >= ledger[q].target
  <2>1. q = p
    BY <1>3, <1>10
  <2>2. ledger[p].kind = "E0" => ledger'[ledger[p].target].ignored
    <3> SUFFICES ASSUME ledger[p].kind = "E0" PROVE ledger'[ledger[p].target].ignored
      OBVIOUS
    <3>1. ledger[p].target \in Ids
      BY <1>1 DEF LedgerTold, PaymentTold
    <3> QED
      BY <1>3, <3>1 DEF Skips
  <2>3. ledger[p].kind = "E1" => nonce' = ledger[p].target
    BY DEF Settle, RunsOp, UserOps
  <2> QED
    BY <1>6, <2>1, <2>2, <2>3
<1>11. ASSUME NEW i \in 1 .. Len(log'), log'[i].ev = "UserOp"
       PROVE  (i \in 1 .. Len(log) /\ log'[i] = log[i]) \/ NonceRan(log[i].key)'
  <2> SUFFICES ASSUME NEW j \in 1 .. Len(MintEvents(p)), log'[i] = MintEvents(p)[j]
               PROVE  NonceRan(log[i].key)'
    BY <1>8
  <2>1. RunsOp(p) /\ log'[i].key = ledger[p].nonce
    BY <1>11, MintEventsTyped
  <2>2. /\ ledger'[p].kind \in UserOps /\ ledger'[p].nonce = log'[i].key
        /\ ledger'[p].mint = "ran"
    BY <1>3, <2>1 DEF RunsOp, Outcome, SamePayment
  <2> QED
    BY <1>5, <2>2 DEF NonceRan
<1>12. LedgerTold'
  BY <1>5, <1>6, <1>9, <1>10, <1>11, ToldAgain
<1>13. ChainTyped'
  BY <1>5, <1>6, <1>7, <1>8 DEF ChainTyped
<1> QED
  BY <1>2, <1>3, <1>5, <1>9, <1>12, <1>13 DEF ChainInv

LEMMA MarksOne ==
  ASSUME ChainTyped, NEW p \in Ids, NEW m \in Statuses,
         ledger' = [ledger EXCEPT ![p].mint = m]
  PROVE  /\ Ids' = Ids /\ IsSequence(ledger)' /\ \A q \in Ids' : IsPayment(ledger[q])'
         /\ \A q \in Ids : /\ SamePayment(ledger'[q], ledger[q])
                           /\ ledger'[q].mint = IF q = p THEN m ELSE ledger[q].mint
                           /\ ledger'[q].ignored = ledger[q].ignored
<1>1. ASSUME NEW q \in Ids
      PROVE  /\ IsPayment(ledger'[q]) /\ SamePayment(ledger'[q], ledger[q])
             /\ ledger'[q].mint = IF q = p THEN m ELSE ledger[q].mint
             /\ ledger'[q].ignored = ledger[q].ignored
  <2>1. IsPayment(ledger[q])
    BY DEF ChainTyped
  <2>2. CASE q = p
    BY <2>1, <2>2, MintMarked DEF Ids
  <2>3. CASE q # p
    <3>1. ledger'[q] = ledger[q]
      BY <2>3 DEF Ids
    <3> QED
      BY <2>1, <2>3, <3>1 DEF SamePayment
  <2> QED
    BY <2>2, <2>3
<1>2. ledger' = [q \in Ids |-> ledger'[q]]
  <2>1. ledger = [i \in 1 .. Len(ledger) |-> ledger[i]]
    BY DEF ChainTyped, IsSequence
  <2> QED
    BY <2>1 DEF Ids
<1>3. Ids' = Ids /\ IsSequence(ledger)' /\ \A q \in Ids' : IsPayment(ledger[q])'
  BY <1>1, <1>2, Remarked
<1> QED
  BY <1>1, <1>3

\* A step that marks one payment, not as a minted E0 or E1, and appends to the
\* log no user operation.
LEMMA OneMarkKeeps ==
  ASSUME ChainInv, NEW p \in Ids, NEW m \in Statuses,
         ledger' = [ledger EXCEPT ![p].mint = m], nonce' = nonce,
         ~Final(p), ledger[p].kind \in {"E0", "E1"} => m # "ran",
         holds' \in Holdings, log' \in Seq(LogEntry),
         \A i \in 1 .. Len(log') :
            (i \in 1 .. Len(log) /\ log'[i] = log[i]) \/ log'[i].ev # "UserOp"
  PROVE  ChainInv' /\ Grows
<1>1. ChainTyped
  BY DEF ChainInv
<1>2. /\ Ids' = Ids /\ IsSequence(ledger)' /\ \A q \in Ids' : IsPayment(ledger[q])'
      /\ \A q \in Ids : /\ SamePayment(ledger'[q], ledger[q])
                        /\ ledger'[q].mint = IF q = p THEN m ELSE ledger[q].mint
                        /\ ledger'[q].ignored = ledger[q].ignored
  BY <1>1, MarksOne
<1>3. Grows
  BY <1>1, <1>2 DEF Grows, Final, ChainTyped
<1>4. ChainTyped'
  BY <1>1, <1>2 DEF ChainTyped
<1>5. \A q \in Ids : ledger'[q].mint = "ran" /\ ledger[q].mint # "ran" =>
        ledger[q].kind \notin {"E0", "E1"}
  BY <1>2
<1>6. LedgerTold'
  BY <1>1, <1>2, <1>3, <1>5, ToldAgain DEF ChainTyped
<1> QED
  BY <1>3, <1>4, <1>6 DEF ChainInv

LEMMA DelayKeeps ==
  ASSUME ChainInv, NEW p \in Ids, Delay(p)
  PROVE  ChainInv' /\ Grows
BY OneMarkKeeps DEF Delay, ChainInv, ChainTyped, Statuses, Final

\* Carrying out what a payment orders, outside of a mint.
LEMMA OrderKeeps ==
  ASSUME ChainInv, NEW p \in Ids, Affords(holds, ledger[p].op), ~Final(p),
         ledger[p].kind \notin {"E0", "E1"},
         ledger' = [ledger EXCEPT ![p].mint = "ran"], nonce' = nonce,
         holds' = Applied(holds, ledger[p].op),
         log' = log \o Emitted(ledger[p].op, p)
  PROVE  ChainInv' /\ Grows
<1>1. /\ ChainTyped /\ IsOp(ledger[p].op) /\ ledger[p].op.emits # "UserOp"
      /\ p \in Nat /\ "ran" \in Statuses
  BY IdsAre DEF ChainInv, ChainTyped, IsPayment, LedgerTold, PaymentTold, Statuses
<1>2. holds' \in Holdings
  BY <1>1, AppliedTyped DEF ChainTyped
<1>3. /\ Emitted(ledger[p].op, p) \in Seq(LogEntry)
      /\ \A j \in 1 .. Len(Emitted(ledger[p].op, p)) : Emitted(ledger[p].op, p)[j].ev # "UserOp"
  BY <1>1, EmittedTyped
<1>4. /\ log' \in Seq(LogEntry)
      /\ \A i \in 1 .. Len(log') :
            (i \in 1 .. Len(log) /\ log'[i] = log[i]) \/ log'[i].ev # "UserOp"
  <2>1. log \in Seq(LogEntry)
    BY <1>1 DEF ChainTyped
  <2> DEFINE es == Emitted(ledger[p].op, p)
  <2>2. es \in Seq(LogEntry) /\ \A j \in 1 .. Len(es) : es[j].ev # "UserOp"
    BY <1>3
  <2> HIDE DEF es
  <2>3. Extended(log, es, log')
    BY <2>1, <2>2, LogExtended DEF es
  <2> QED
    BY <2>2, <2>3 DEF Extended
<1> QED
  BY <1>1, <1>2, <1>4, OneMarkKeeps

LEMMA OperateKeeps ==
  ASSUME ChainInv, NEW p \in Ids, Operate(p)
  PROVE  ChainInv' /\ Grows
<1>1. ~Final(p) /\ nonce' = nonce
  BY DEF Operate, Final
<1>2. CASE ledger[p].kind = "order"
  BY <1>1, <1>2, OrderKeeps DEF Operate
<1>3. CASE ledger[p].kind = "reserve"
  <2> DEFINE e == [ev |-> "Reserved", id |-> p, key |-> 0]
  <2>1. e \in LogEntry /\ e.ev # "UserOp"
    BY IdsAre, EventsAssumption DEF LogEntry, ChainInv
  <2>2. log \in Seq(LogEntry) /\ holds \in Holdings /\ "reserved" \in Statuses
    BY DEF ChainInv, ChainTyped, Statuses
  <2>3. /\ ledger' = [ledger EXCEPT ![p].mint = "reserved"] /\ log' = Append(log, e)
        /\ holds' = holds
    BY <1>3 DEF Operate
  <2> HIDE DEF e
  <2>4. /\ log' \in Seq(LogEntry)
        /\ \A i \in 1 .. Len(log') :
              (i \in 1 .. Len(log) /\ log'[i] = log[i]) \/ log'[i].ev # "UserOp"
    BY <2>1, <2>2, <2>3, LogAppended
  <2> QED
    BY <1>1, <2>2, <2>3, <2>4, OneMarkKeeps
<1> QED
  BY <1>2, <1>3 DEF Operate

LEMMA DepositKeeps ==
  ASSUME ChainInv, NEW p \in Ids, Deposit(p)
  PROVE  ChainInv' /\ Grows
BY OrderKeeps DEF Deposit, Final

LEMMA AgentKeeps ==
  ASSUME ChainInv, NEW q \in Ids, AgentMint(q)
  PROVE  ChainInv' /\ Grows
<1>1. /\ ChainTyped /\ IsPayment(ledger[q]) /\ nonce' = nonce
      /\ {"ran", "paid"} \subseteq Statuses
  BY DEF ChainInv, ChainTyped, AgentMint, Statuses
<1>2. ASSUME NEW p \in Ids
      PROVE  /\ IsPayment(ledger'[p]) /\ SamePayment(ledger'[p], ledger[p])
             /\ ledger'[p].mint = IF p = q THEN "ran"
                                  ELSE IF p = ledger[q].target THEN "paid" ELSE ledger[p].mint
             /\ ledger'[p].ignored = ledger[p].ignored
  <2>1. IsPayment(ledger[p])
    BY <1>1 DEF ChainTyped
  <2> DEFINE m == IF p = q THEN "ran" ELSE IF p = ledger[q].target THEN "paid" ELSE ledger[p].mint
  <2>2. m \in Statuses
    BY <1>1, <2>1 DEF IsPayment
  <2>3. ledger'[p] = [ledger[p] EXCEPT !.mint = m]
    <3>1. ledger[q].target # q
      BY DEF AgentMint, Reserves
    <3> QED
      BY <3>1 DEF AgentMint
  <2> HIDE DEF m
  <2>4. /\ IsPayment(ledger'[p]) /\ SamePayment(ledger'[p], ledger[p])
        /\ ledger'[p].mint = m /\ ledger'[p].ignored = ledger[p].ignored
    BY <2>1, <2>2, <2>3, MintMarked
  <2> QED
    BY <2>4 DEF m
<1>3. ledger' = [p \in Ids |-> ledger'[p]]
  BY DEF AgentMint
<1>4. Ids' = Ids /\ IsSequence(ledger)' /\ \A p \in Ids' : IsPayment(ledger[p])'
  BY <1>1, <1>2, <1>3, Remarked
<1>5. holds' \in Holdings
  BY <1>1, CreditedTyped DEF AgentMint, ChainTyped
<1> DEFINE e == [ev |-> "MintingExecuted", id |-> ledger[q].target, key |-> 0]
<1>6. e \in LogEntry /\ e.ev # "UserOp"
  BY <1>1, EventsAssumption DEF LogEntry, IsPayment
<1>7. log' = Append(log, e) /\ log \in Seq(LogEntry)
  BY <1>1 DEF AgentMint, ChainTyped
<1> HIDE DEF e
<1>8. /\ log' \in Seq(LogEntry)
      /\ \A i \in 1 .. Len(log') :
            (i \in 1 .. Len(log) /\ log'[i] = log[i]) \/ log'[i].ev # "UserOp"
  BY <1>6, <1>7, LogAppended
<1>9. Grows
  BY <1>1, <1>2, <1>4 DEF Grows, Final, ChainTyped, AgentMint, Reserves
<1>10. ChainTyped'
  BY <1>1, <1>4, <1>5, <1>8 DEF ChainTyped
<1>11. \A p \in Ids : ledger'[p].mint = "ran" /\ ledger[p].mint # "ran" =>
         ledger[p].kind \notin {"E0", "E1"}
  BY <1>2 DEF AgentMint
<1>12. LedgerTold'
  BY <1>1, <1>4, <1>8, <1>9, <1>11, ToldAgain DEF ChainTyped
<1> QED
  BY <1>9, <1>10, <1>12 DEF ChainInv

\* A step that only moves assets or appends to the log no user operation.
LEMMA SameLedgerKeeps ==
  ASSUME ChainInv, nonce' = nonce, ledger' = ledger, holds' \in Holdings,
         log' \in Seq(LogEntry),
         \A i \in 1 .. Len(log') :
            (i \in 1 .. Len(log) /\ log'[i] = log[i]) \/ log'[i].ev # "UserOp"
  PROVE  ChainInv' /\ Grows
<1>1. ChainTyped'
  BY DEF ChainInv, ChainTyped, Ids
<1>2. Grows /\ Ids' = Ids
  BY DEF Grows, Ids, Final, SamePayment, ChainInv, ChainTyped
<1>3. LedgerTold'
  BY <1>2, ToldAgain DEF ChainInv, ChainTyped
<1> QED
  BY <1>1, <1>2, <1>3 DEF ChainInv

LEMMA RivalKeeps ==
  ASSUME ChainInv, RivalReserves
  PROVE  ChainInv' /\ Grows
<1> DEFINE e == [ev |-> "Reserved", id |-> 0, key |-> 0]
<1>1. e \in LogEntry /\ e.ev # "UserOp"
  BY EventsAssumption DEF LogEntry
<1>2. log' = Append(log, e) /\ log \in Seq(LogEntry)
  BY DEF RivalReserves, ChainInv, ChainTyped
<1> HIDE DEF e
<1>3. /\ log' \in Seq(LogEntry)
      /\ \A i \in 1 .. Len(log') :
            (i \in 1 .. Len(log) /\ log'[i] = log[i]) \/ log'[i].ev # "UserOp"
  BY <1>1, <1>2, LogAppended
<1> QED
  BY <1>3, SameLedgerKeeps DEF RivalReserves, ChainInv, ChainTyped

LEMMA DeliverKeeps ==
  ASSUME ChainInv, NEW route \in Routes, Deliver(route)
  PROVE  ChainInv' /\ Grows
<1>1. route[1] \in Assets /\ route[2] \in Assets
  BY AssetsAssumption
<1>2. holds' \in Holdings
  BY <1>1 DEF Deliver, ChainInv, ChainTyped, Holdings
<1> QED
  BY <1>2, SameLedgerKeeps DEF Deliver, ChainInv, ChainTyped

LEMMA EnvironmentKeeps ==
  ASSUME ChainInv, Environment
  PROVE  ChainInv' /\ Grows
<1>1. ASSUME NEW p \in Ids, Relay(p) PROVE ChainInv' /\ Grows
  BY <1>1, SettleKeeps, DelayKeeps DEF Relay
<1> QED
  BY <1>1, OperateKeeps, AgentKeeps, DepositKeeps, RivalKeeps, DeliverKeeps DEF Environment

\* A payment is sent.
LEMMA SendKeeps ==
  ASSUME ChainInv, NEW x, IsPayment(x), x.op.emits # "UserOp", x.mint = "pending",
         x.kind = "E0" => x.target \in Ids,
         ledger' = Append(ledger, x), UNCHANGED <<nonce, log, holds>>
  PROVE  /\ ChainInv' /\ Grows
         /\ Len(ledger) + 1 \in Ids' /\ ledger'[Len(ledger) + 1] = x
<1>1. ChainTyped /\ LedgerTold
  BY DEF ChainInv
<1>2. PICK n \in Nat : n = Len(ledger)
  BY <1>1, IdsAre
<1>3. /\ IsSequence(ledger)' /\ DOMAIN ledger' = 1 .. n + 1
      /\ \A i \in 1 .. n : ledger'[i] = ledger[i]
      /\ ledger'[n + 1] = x
  BY <1>1, <1>2, AppendToSequence DEF ChainTyped, IsSequence
<1>4. /\ Ids = 1 .. n /\ Ids' = 1 .. n + 1
      /\ \A i \in Ids' : i \in Ids \/ i = n + 1
  BY <1>1, <1>2, <1>3, IdsAre DEF Ids
<1>5. ChainTyped'
  BY <1>1, <1>3, <1>4 DEF ChainTyped
<1>6. Grows
  BY <1>1, <1>3, <1>4 DEF Grows, SamePayment, ChainTyped
<1>7. ASSUME NEW p \in Ids' PROVE PaymentTold(p)'
  <2>1. CASE p \in Ids
    <3>1. PaymentTold(p) /\ ledger'[p] = ledger[p]
      BY <1>1, <1>3, <1>4, <2>1 DEF LedgerTold
    <3> QED
      BY <1>3, <1>4, <3>1 DEF PaymentTold
  <2>2. CASE p = n + 1
    BY <1>3, <1>4, <2>2 DEF PaymentTold
  <2> QED
    BY <1>4, <2>1, <2>2
<1>8. ASSUME NEW i \in 1 .. Len(log'), log'[i].ev = "UserOp" PROVE NonceRan(log[i].key)'
  <2>1. PICK k : k = log[i].key
    OBVIOUS
  <2>2. NonceRan(k)
    BY <1>1, <1>8, <2>1 DEF LedgerTold
  <2>3. NonceRan(k)'
    BY <1>6, <2>2, NonceStaysRan
  <2> QED
    BY <2>1, <2>3
<1> QED
  BY <1>2, <1>3, <1>4, <1>5, <1>6, <1>7, <1>8 DEF ChainInv, LedgerTold

-----------------------------------------------------------------------------
(* The runs: each has the type of the step it is at.                       *)

TypeAt(r) == Types[program[r]][pc[r]]
TypeNext(r) == Types[program[r]][pc[r] + 1]
RunOK(r) ==
  /\ IsLocals(loc[r])
  /\ pc[r] \in 1 .. Len(Code(r)) + 1
  /\ HasType(r, TypeAt(r))

ScriptTyped ==
  /\ funds \in Nat /\ faults \in 0 .. MaxFaults /\ rivals \in 0 .. MaxRivals
  /\ program \in [Runs -> DOMAIN Programs]
  /\ pc \in [Runs -> Nat \ {0}] /\ failed \in [Runs -> BOOLEAN]
  /\ DOMAIN loc = Runs /\ loc = [r \in Runs |-> loc[r]]
  /\ confirmed \subseteq Ids \X Confirmations

Inv ==
  /\ ChainInv /\ ScriptTyped
  /\ \A r \in Runs : RunOK(r)
  /\ ConfirmationsAreTrue

\* The run r moved and no other did; what it newly confirmed is so.
Moved(r) ==
  /\ ChainInv' /\ Grows /\ program' = program
  /\ funds' \in Nat /\ faults' \in 0 .. MaxFaults /\ rivals' \in 0 .. MaxRivals
  /\ pc' = [pc EXCEPT ![r] = pc'[r]]
  /\ failed' = [failed EXCEPT ![r] = failed'[r]] /\ failed'[r] \in BOOLEAN
  /\ loc' = [loc EXCEPT ![r] = loc'[r]]
  /\ RunOK(r)'
  /\ \A c \in confirmed' : c \in confirmed \/ (c \in Ids' \X Confirmations /\ Holds(c)')

\* What types speak of: all locals but the goal and the place in the log.
SameHand(r) ==
  /\ loc'[r].pay = loc[r].pay /\ loc'[r].stuck = loc[r].stuck
  /\ loc'[r].nonce = loc[r].nonce /\ loc'[r].seen = loc[r].seen
  /\ loc'[r].receipt = loc[r].receipt

LEMMA TypeSurvives ==
  ASSUME ChainTyped, Grows, NEW r, IsLocals(loc[r]), SameHand(r),
         NEW l, HasType(r, l)
  PROVE  HasType(r, l)'
<1>1. /\ loc[r].pay \in Ids \union {0} /\ loc[r].stuck \in Ids \union {0}
  BY DEF IsLocals
<1>2. ASSUME NEW p \in Ids
      PROVE  /\ p \in Ids' /\ ledger'[p].kind = ledger[p].kind /\ ledger'[p].nonce = ledger[p].nonce
             /\ Final(p) => Final(p)' /\ ledger'[p].mint = ledger[p].mint
  BY DEF Grows, SamePayment, Final
<1>3. ASSUME NEW p, TellsOf(r, p) PROVE TellsOf(r, p)'
  BY <1>2, <1>3 DEF TellsOf, Final, SameHand
<1> QED
  BY <1>1, <1>2, <1>3 DEF HasType, SameHand

LEMMA LocalsSurvive ==
  ASSUME Grows, NEW r, IsLocals(loc[r]), loc'[r] = loc[r]
  PROVE  IsLocals(loc[r])' /\ SameHand(r)
BY DEF Grows, IsLocals, SameHand

LEMMA Weakened ==
  ASSUME NEW r, NEW m, NEW l, Implies(m, l), HasType(r, m)'
  PROVE  HasType(r, l)'
BY DEF Implies, HasType

LEMMA StayedPut ==
  ASSUME ChainTyped, Grows, program' = program, NEW r, RunOK(r),
         loc'[r] = loc[r], pc'[r] = pc[r]
  PROVE  RunOK(r)'
<1>1. PICK l : l = TypeAt(r)
  OBVIOUS
<1>2. HasType(r, l)' /\ IsLocals(loc[r])'
  BY <1>1, TypeSurvives, LocalsSurvive DEF RunOK
<1>3. TypeAt(r)' = l
  BY <1>1 DEF TypeAt
<1> QED
  BY <1>2, <1>3 DEF RunOK, Code

LEMMA ConfirmedStays ==
  ASSUME ChainInv, ChainInv', Grows, NEW c \in Ids \X Confirmations, Holds(c)
  PROVE  Holds(c)'
<1>1. PICK p : p = c[1]
  OBVIOUS
<1>2. /\ p \in Ids /\ p \in Ids' /\ IsPayment(ledger[p]) /\ SamePayment(ledger'[p], ledger[p])
      /\ ledger[p].mint \in {"ran", "skipped"} => ledger'[p].mint = ledger[p].mint
      /\ PaymentTold(p)'
  BY <1>1 DEF ChainInv, ChainTyped, LedgerTold, Grows, Final
<1>3. c[2] \in Confirmations
  OBVIOUS
<1>4. CASE c[2] \in {"op", "ignore", "raise", "credit"}
  BY <1>1, <1>2, <1>4 DEF Holds, SamePayment, PaymentTold
<1>5. CASE c[2] = "watched"
  <2>1. ledger[p].kind \in UserOps => NonceRan(ledger[p].nonce)
    BY <1>1, <1>5 DEF Holds
  <2>2. PICK n : n = ledger[p].nonce
    OBVIOUS
  <2>3. ledger'[p].kind \in UserOps => NonceRan(n)'
    BY <1>2, <2>1, <2>2, NonceStaysRan DEF SamePayment
  <2>4. ledger'[p].nonce = n
    BY <1>2, <2>2 DEF SamePayment
  <2> QED
    BY <1>1, <1>5, <2>3, <2>4 DEF Holds
<1> QED
  BY <1>3, <1>4, <1>5 DEF Confirmations

LEMMA MovedKeeps ==
  ASSUME Inv, NEW r \in Runs, Moved(r)
  PROVE  Inv'
<1>1. ASSUME NEW q \in Runs PROVE RunOK(q)'
  <2>1. CASE q = r
    BY <2>1 DEF Moved
  <2>2. CASE q # r
    <3>1. loc'[q] = loc[q] /\ pc'[q] = pc[q]
      BY <2>2 DEF Moved, Inv, ScriptTyped
    <3> QED
      BY <3>1, StayedPut DEF Moved, Inv, ChainInv
  <2> QED
    BY <2>1, <2>2
<1>2. ASSUME NEW c \in confirmed' PROVE c \in Ids' \X Confirmations /\ Holds(c)'
  <2>1. CASE c \in confirmed
    <3>1. c \in Ids \X Confirmations /\ Holds(c)
      BY <2>1 DEF Inv, ScriptTyped, ConfirmationsAreTrue
    <3> QED
      BY <3>1, ConfirmedStays DEF Moved, Inv, Grows
  <2> QED
    BY <2>1 DEF Moved
<1>3. pc' \in [Runs -> Nat \ {0}]
  <2>1. pc'[r] \in Nat \ {0}
    BY DEF Moved, RunOK, IsLocals
  <2> QED
    BY <2>1 DEF Moved, Inv, ScriptTyped
<1>4. ScriptTyped'
  BY <1>2, <1>3 DEF ScriptTyped, Inv, Moved
<1> QED
  BY <1>1, <1>2, <1>4 DEF Inv, Moved, ConfirmationsAreTrue

-----------------------------------------------------------------------------
(* The verbs that leave the type as it is.                                 *)

LEMMA StepFacts ==
  ASSUME Inv, NEW r \in Runs, Live(r)
  PROVE  /\ Len(Code(r)) \in Nat /\ pc[r] \in 1 .. Len(Code(r))
         /\ IsStep(Step(r)) /\ TypeAt(r) \in Known /\ TypeNext(r) \in Known
         /\ Needs(Step(r), TypeAt(r))
         /\ Implies(After(Step(r), TypeAt(r), TypeNext(r).spare), TypeNext(r))
         /\ Jumps(Step(r)) =>
              LET to == JumpTo(Step(r), pc[r], Len(Code(r)) + 1) IN
              /\ to \in pc[r] + 1 .. Len(Code(r)) + 1
              /\ Implies(AfterJump(Step(r), TypeAt(r)), Types[program[r]][to])
<1>1. program[r] \in DOMAIN Programs
  BY DEF Inv, ScriptTyped
<1>2. /\ Len(Code(r)) \in Nat /\ DOMAIN Code(r) = 1 .. Len(Code(r))
      /\ \A i \in DOMAIN Code(r) : IsStep(Code(r)[i])
  BY <1>1, ScenariosAssumption DEF Code
<1>3. pc[r] \in 1 .. Len(Code(r))
  BY <1>2 DEF Live, Inv, RunOK
<1>4. TypedBy(Code(r), Types[program[r]])
  BY <1>1, TypesAssumption DEF Code
<1>5. TypeAt(r) \in Known /\ TypeNext(r) \in Known
  <2>1. Types[program[r]] \in [1 .. Len(Code(r)) + 1 -> Known]
    BY <1>4 DEF TypedBy
  <2>2. pc[r] \in 1 .. Len(Code(r)) + 1 /\ pc[r] + 1 \in 1 .. Len(Code(r)) + 1
    BY <1>2, <1>3
  <2> QED
    BY <2>1, <2>2 DEF TypeAt, TypeNext
<1>6. /\ Needs(Step(r), TypeAt(r))
      /\ Implies(After(Step(r), TypeAt(r), TypeNext(r).spare), TypeNext(r))
  BY <1>3, <1>4 DEF TypedBy, TypeAt, TypeNext, Step
<1>7. Jumps(Step(r)) =>
        LET to == JumpTo(Step(r), pc[r], Len(Code(r)) + 1) IN
        /\ to \in pc[r] + 1 .. Len(Code(r)) + 1
        /\ Implies(AfterJump(Step(r), TypeAt(r)), Types[program[r]][to])
  BY <1>3, <1>4 DEF TypedBy, TypeAt, Step
<1> QED
  BY <1>2, <1>3, <1>5, <1>6, <1>7 DEF Step

\* Nothing but the chain, the wallet and the counters moves with the script.
Around ==
  /\ ChainInv' /\ Grows /\ program' = program
  /\ funds' \in Nat /\ faults' \in 0 .. MaxFaults /\ rivals' \in 0 .. MaxRivals

LEMMA QuietAround ==
  ASSUME Inv, Quiet
  PROVE  Around
BY QuietChain DEF Inv, ScriptTyped, Quiet, Around

LEMMA Proceeds ==
  ASSUME Inv, NEW r \in Runs, Live(r), program' = program,
         pc' = [pc EXCEPT ![r] = @ + 1], IsLocals(loc[r])',
         NEW l, l = After(Step(r), TypeAt(r), TypeNext(r).spare), HasType(r, l)'
  PROVE  RunOK(r)' /\ pc' = [pc EXCEPT ![r] = pc'[r]]
<1>1. PICK m : m = TypeNext(r)
  OBVIOUS
<1>2. /\ Len(Code(r)) \in Nat /\ pc[r] \in 1 .. Len(Code(r)) /\ Implies(l, m)
  BY <1>1, StepFacts
<1>3. HasType(r, m)'
  BY <1>2, Weakened
<1>4. pc'[r] = pc[r] + 1
  BY DEF Inv, ScriptTyped
<1>5. TypeAt(r)' = m
  BY <1>1, <1>4 DEF TypeAt, TypeNext
<1>6. pc'[r] \in 1 .. Len(Code(r)) + 1
  BY <1>2, <1>4
<1>7. pc' = [pc EXCEPT ![r] = pc'[r]]
  BY <1>4
<1> QED
  BY <1>3, <1>5, <1>6, <1>7 DEF RunOK, Code

LEMMA JumpsAhead ==
  ASSUME Inv, NEW r \in Runs, Live(r), program' = program, Jumps(Step(r)),
         pc' = [pc EXCEPT ![r] = JumpTo(Step(r), pc[r], Len(Code(r)) + 1)],
         IsLocals(loc[r])',
         NEW l, l = AfterJump(Step(r), TypeAt(r)), HasType(r, l)'
  PROVE  RunOK(r)' /\ pc' = [pc EXCEPT ![r] = pc'[r]]
<1>1. PICK to : to = JumpTo(Step(r), pc[r], Len(Code(r)) + 1)
  OBVIOUS
<1>2. PICK m : m = Types[program[r]][to]
  OBVIOUS
<1>3. /\ Len(Code(r)) \in Nat /\ pc[r] \in 1 .. Len(Code(r))
      /\ to \in pc[r] + 1 .. Len(Code(r)) + 1 /\ Implies(l, m)
  BY <1>1, <1>2, StepFacts
<1>4. HasType(r, m)'
  BY <1>3, Weakened
<1>5. pc'[r] = to
  BY <1>1 DEF Inv, ScriptTyped
<1>6. TypeAt(r)' = m
  BY <1>2, <1>5 DEF TypeAt
<1>7. pc'[r] \in 1 .. Len(Code(r)) + 1
  BY <1>3, <1>5
<1>8. pc' = [pc EXCEPT ![r] = pc'[r]]
  BY <1>1, <1>5
<1> QED
  BY <1>4, <1>6, <1>7, <1>8 DEF RunOK, Code

LEMMA Throws ==
  ASSUME Inv, NEW r \in Runs, Around, Throw(r)
  PROVE  Moved(r)
<1>1. RunOK(r)'
  BY StayedPut DEF Throw, Around, Inv, ChainInv
<1>2. /\ failed' = [failed EXCEPT ![r] = failed'[r]] /\ failed'[r] \in BOOLEAN
      /\ pc' = [pc EXCEPT ![r] = pc'[r]] /\ loc' = [loc EXCEPT ![r] = loc'[r]]
      /\ confirmed' = confirmed
  BY DEF Throw, Inv, ScriptTyped
<1> QED
  BY <1>1, <1>2 DEF Moved, Around

PlainVerbs == {"NoteNonce", "SameNonce", "CheckXrp", "Watch", "Await",
               "AwaitReservation", "FindLatest", "Prove", "Used", "Diagnose", "SetGoal",
               "CheckGoal", "GoalReached", "Need", "IfHas", "IfLacks", "Tx", "Until"}

LEMMA PlainProceeds ==
  ASSUME Inv, NEW r \in Runs, Live(r), program' = program, Grows,
         pc' = [pc EXCEPT ![r] = @ + 1], IsLocals(loc[r])', SameHand(r),
         Step(r).do \in PlainVerbs \/ (Step(r).do = "Confirm" /\ Step(r).on = "pay")
  PROVE  RunOK(r)' /\ pc' = [pc EXCEPT ![r] = pc'[r]]
<1>1. PICK l : l = TypeAt(r)
  OBVIOUS
<1>2. After(Step(r), l, TypeNext(r).spare) = l
  BY DEF After, PlainVerbs
<1>3. HasType(r, l)'
  BY <1>1, TypeSurvives DEF Inv, ChainInv, RunOK
<1> QED
  BY <1>1, <1>2, <1>3, Proceeds

\* The run goes on to its next step, having confirmed nothing new.
LEMMA PlainMoves ==
  ASSUME Inv, NEW r \in Runs, Live(r), Around, Advance(r, 1), confirmed' = confirmed,
         loc' = [loc EXCEPT ![r] = loc'[r]], IsLocals(loc[r])', SameHand(r),
         Step(r).do \in PlainVerbs
  PROVE  Moved(r)
<1>1. RunOK(r)' /\ pc' = [pc EXCEPT ![r] = pc'[r]]
  BY PlainProceeds DEF Around, Advance
<1>2. failed' = [failed EXCEPT ![r] = failed'[r]] /\ failed'[r] \in BOOLEAN
  BY DEF Advance, Inv, ScriptTyped
<1> QED
  BY <1>1, <1>2 DEF Moved, Around

LEMMA PlainPasses ==
  ASSUME Inv, NEW r \in Runs, Live(r), Around, Advance(r, 1), UNCHANGED <<loc, confirmed>>,
         Step(r).do \in PlainVerbs
  PROVE  Moved(r)
<1>1. loc' = [loc EXCEPT ![r] = loc'[r]] /\ IsLocals(loc[r])' /\ SameHand(r)
  BY LocalsSurvive DEF Around, Inv, RunOK, ScriptTyped
<1> QED
  BY <1>1, PlainMoves

\* if (!guard) throw
LEMMA Asserts ==
  ASSUME Inv, NEW r \in Runs, Live(r), Step(r).do \in PlainVerbs, Quiet,
         (Advance(r, 1) /\ UNCHANGED <<loc, confirmed>>) \/ Throw(r)
  PROVE  Moved(r)
BY QuietAround, PlainPasses, Throws

LEMMA AssertVerbs ==
  ASSUME Inv, NEW r \in Runs,
         \/ SameNonce(r) \/ CheckXrp(r) \/ Prove(r) \/ CheckGoal(r) \/ GoalReached(r) \/ Need(r)
  PROVE  Moved(r)
BY Asserts DEF SameNonce, CheckXrp, Prove, CheckGoal, GoalReached, Need, At, Assert, PlainVerbs

LEMMA HandSurvives ==
  ASSUME Inv, NEW r \in Runs, Quiet, NEW x, loc' = [loc EXCEPT ![r] = x], IsLocals(x)
  PROVE  /\ loc'[r] = x /\ IsLocals(loc[r])'
         /\ loc' = [loc EXCEPT ![r] = loc'[r]]
<1>1. loc'[r] = x /\ loc' = [loc EXCEPT ![r] = loc'[r]]
  BY DEF Inv, ScriptTyped
<1>2. IsLocals(loc[r])'
  BY <1>1 DEF IsLocals, Quiet, chain, Ids
<1> QED
  BY <1>1, <1>2

LEMMA LetMoves ==
  ASSUME Inv, NEW r \in Runs, Live(r), Step(r).do \in PlainVerbs, Quiet, Advance(r, 1),
         NEW x, loc' = [loc EXCEPT ![r] = x], confirmed' = confirmed, IsLocals(x),
         /\ x.pay = loc[r].pay /\ x.stuck = loc[r].stuck /\ x.nonce = loc[r].nonce
         /\ x.seen = loc[r].seen /\ x.receipt = loc[r].receipt
  PROVE  Moved(r)
<1>1. /\ loc'[r] = x /\ IsLocals(loc[r])' /\ loc' = [loc EXCEPT ![r] = loc'[r]]
  BY HandSurvives
<1>2. SameHand(r) /\ Around
  BY <1>1, QuietAround DEF SameHand
<1> QED
  BY <1>1, <1>2, PlainMoves

LEMMA LocalsSet ==
  ASSUME Inv, NEW r \in Runs, NEW n \in Nat
  PROVE  /\ IsLocals([loc[r] EXCEPT !.goal = n])
         /\ IsLocals([loc[r] EXCEPT !.hit = n])
         /\ IsLocals([loc[r] EXCEPT !.from = n + 1])
BY DEF Inv, RunOK, IsLocals

LEMMA GoalSet ==
  ASSUME Inv, NEW r \in Runs, Live(r), Step(r).do \in PlainVerbs,
         NEW n \in Nat, Let(r, [loc[r] EXCEPT !.goal = n])
  PROVE  Moved(r)
<1>1. PICK x : x = [loc[r] EXCEPT !.goal = n]
  OBVIOUS
<1>2. /\ IsLocals(x) /\ x.pay = loc[r].pay /\ x.stuck = loc[r].stuck
      /\ x.nonce = loc[r].nonce /\ x.seen = loc[r].seen /\ x.receipt = loc[r].receipt
  BY <1>1, LocalsSet DEF Inv, RunOK, IsLocals
<1> QED
  BY <1>1, <1>2, LetMoves DEF Let

LEMMA HitSet ==
  ASSUME Inv, NEW r \in Runs, Live(r), Step(r).do \in PlainVerbs,
         NEW n \in Nat, Let(r, [loc[r] EXCEPT !.hit = n])
  PROVE  Moved(r)
<1>1. PICK x : x = [loc[r] EXCEPT !.hit = n]
  OBVIOUS
<1>2. /\ IsLocals(x) /\ x.pay = loc[r].pay /\ x.stuck = loc[r].stuck
      /\ x.nonce = loc[r].nonce /\ x.seen = loc[r].seen /\ x.receipt = loc[r].receipt
  BY <1>1, LocalsSet DEF Inv, RunOK, IsLocals
<1> QED
  BY <1>1, <1>2, LetMoves DEF Let

LEMMA LogTyped ==
  ASSUME Inv
  PROVE  /\ nonce \in Nat /\ Len(log) \in Nat /\ DOMAIN log = 1 .. Len(log)
         /\ \A i \in 1 .. Len(log) : log[i] \in LogEntry /\ log[i].id \in Nat
<1>1. log \in Seq(LogEntry) /\ nonce \in Nat
  BY DEF Inv, ChainInv, ChainTyped
<1>2. Len(log) \in Nat /\ DOMAIN log = 1 .. Len(log) /\ log \in [1 .. Len(log) -> LogEntry]
  BY <1>1, LenProperties
<1> QED
  BY <1>1, <1>2 DEF LogEntry

LEMMA GoalVerbs ==
  ASSUME Inv, NEW r \in Runs, NoteNonce(r) \/ SetGoal(r)
  PROVE  Moved(r)
<1>1. CASE NoteNonce(r)
  BY <1>1, GoalSet, LogTyped DEF NoteNonce, At, PlainVerbs
<1>2. CASE SetGoal(r)
  <2>1. Live(r) /\ Step(r).do \in PlainVerbs
    BY <1>2 DEF SetGoal, At, PlainVerbs
  <2>2. PICK goal \in {nonce + 1, nonce + Step(r).n} \union ({loc[r].goal} \ {0}) :
          Let(r, [loc[r] EXCEPT !.goal = goal])
    BY <1>2 DEF SetGoal
  <2>3. goal \in Nat
    BY <2>1, LogTyped, StepFacts DEF IsStep, Inv, RunOK, IsLocals
  <2> QED
    BY <2>1, <2>2, <2>3, GoalSet
<1> QED
  BY <1>1, <1>2

LEMMA HitVerbs ==
  ASSUME Inv, NEW r \in Runs, AwaitReservation(r) \/ FindLatest(r)
  PROVE  Moved(r)
<1>1. Live(r) /\ Step(r).do \in PlainVerbs
  BY DEF AwaitReservation, FindLatest, At, PlainVerbs
<1>2. CASE AwaitReservation(r)
  <2>1. PICK i \in loc[r].from .. Len(log) : \E j \in i .. Len(log) :
          Let(r, [loc[r] EXCEPT !.hit = log[j].id])
    BY <1>2 DEF AwaitReservation
  <2>2. PICK j \in i .. Len(log) : Let(r, [loc[r] EXCEPT !.hit = log[j].id])
    BY <2>1
  <2>3. j \in 1 .. Len(log)
    BY <2>1, <2>2, LogTyped DEF Inv, RunOK, IsLocals
  <2> QED
    BY <1>1, <2>2, <2>3, LogTyped, HitSet
<1>3. CASE FindLatest(r)
  <2>1. CASE \E i \in Last(Step(r).event) : Let(r, [loc[r] EXCEPT !.hit = log[i].id])
    <3>1. PICK i \in Last(Step(r).event) : Let(r, [loc[r] EXCEPT !.hit = log[i].id])
      BY <2>1
    <3>2. log[i].id \in Nat
      BY LogTyped DEF Last
    <3> QED
      BY <1>1, <3>1, <3>2, HitSet
  <2>2. CASE Assert(r, FALSE)
    BY <1>1, <2>2, Asserts DEF Assert
  <2> QED
    BY <1>3, <2>1, <2>2 DEF FindLatest
<1> QED
  BY <1>2, <1>3

LEMMA WatchMoves ==
  ASSUME Inv, NEW r \in Runs, Watch(r)
  PROVE  Moved(r)
<1>1. Live(r) /\ Step(r).do \in PlainVerbs /\ Let(r, [loc[r] EXCEPT !.from = Len(log) + 1])
  BY DEF Watch, At, PlainVerbs
<1>2. PICK x : x = [loc[r] EXCEPT !.from = Len(log) + 1]
  OBVIOUS
<1>3. /\ IsLocals(x) /\ x.pay = loc[r].pay /\ x.stuck = loc[r].stuck
      /\ x.nonce = loc[r].nonce /\ x.seen = loc[r].seen /\ x.receipt = loc[r].receipt
  BY <1>2, LocalsSet, LogTyped DEF Inv, RunOK, IsLocals
<1> QED
  BY <1>1, <1>2, <1>3, LetMoves DEF Let

LEMMA UntilMoves ==
  ASSUME Inv, NEW r \in Runs, Until(r)
  PROVE  Moved(r)
<1>1. Live(r) /\ Step(r).do \in PlainVerbs /\ Let(r, loc[r])
  BY DEF Until, At, PlainVerbs
<1>2. IsLocals(loc[r])
  BY DEF Inv, RunOK
<1> QED
  BY <1>1, <1>2, LetMoves DEF Let

LEMMA TxMoves ==
  ASSUME Inv, NEW r \in Runs, Tx(r)
  PROVE  Moved(r)
<1>1. Live(r) /\ Step(r).do \in PlainVerbs
  BY DEF Tx, At, PlainVerbs
<1>2. CASE Affords(holds, Step(r).op)
  <2>1. IsOp(Step(r).op) /\ holds \in Holdings
    BY <1>1, StepFacts DEF IsStep, Inv, ChainInv, ChainTyped
  <2>2. holds' \in Holdings
    BY <1>2, <2>1, AppliedTyped DEF Tx
  <2>3. ChainInv' /\ Grows
    BY <1>2, <2>2, SameLedgerKeeps DEF Tx, Inv, ChainInv, ChainTyped
  <2>4. Around
    BY <1>2, <2>3 DEF Around, Tx, Inv, ScriptTyped
  <2> QED
    BY <1>1, <1>2, <2>4, PlainPasses DEF Tx
<1>3. CASE ~Affords(holds, Step(r).op)
  BY <1>1, <1>3, Asserts DEF Tx, Assert
<1> QED
  BY <1>2, <1>3

-----------------------------------------------------------------------------
(* The verbs that confirm something.                                       *)

LEMMA Confirms ==
  ASSUME Inv, NEW r \in Runs, Quiet, Advance(r, 1), UNCHANGED loc,
         NEW c \in Ids \X Confirmations, Holds(c), confirmed' = confirmed \union {c},
         RunOK(r)', pc' = [pc EXCEPT ![r] = pc'[r]]
  PROVE  Moved(r)
<1>1. Around
  BY QuietAround
<1>2. c \in Ids' \X Confirmations /\ Holds(c)'
  BY <1>1, ConfirmedStays DEF Around, Inv, Grows
<1>3. /\ failed' = [failed EXCEPT ![r] = failed'[r]] /\ failed'[r] \in BOOLEAN
      /\ loc' = [loc EXCEPT ![r] = loc'[r]]
  BY DEF Advance, Inv, ScriptTyped
<1> QED
  BY <1>1, <1>2, <1>3 DEF Moved, Around

LEMMA AwaitMoves ==
  ASSUME Inv, NEW r \in Runs, Await(r)
  PROVE  Moved(r)
<1>1. Live(r) /\ Step(r).do = "Await" /\ Quiet /\ Advance(r, 1) /\ UNCHANGED loc
  BY DEF Await, At
<1>2. PICK l : l = TypeAt(r)
  OBVIOUS
<1>3. /\ l.pay # NoKind /\ (l.pay \in UserOps => Step(r).event = "UserOp" /\ l.fresh)
      /\ HasType(r, l)
  BY <1>1, <1>2, StepFacts DEF Needs, Inv, RunOK
<1>4. PICK p : p = loc[r].pay
  OBVIOUS
<1>5. /\ p \in Ids /\ ledger[p].kind = l.pay
      /\ l.pay \in UserOps => ledger[p].nonce = loc[r].nonce
  BY <1>3, <1>4 DEF HasType
<1>6. PICK i \in loc[r].from .. Len(log) : Matches(r, log[i])
  BY DEF Await
<1>7. i \in 1 .. Len(log)
  BY <1>6, LogTyped DEF Inv, RunOK, IsLocals
<1>8. l.pay \in UserOps => NonceRan(ledger[p].nonce)
  BY <1>3, <1>5, <1>6, <1>7 DEF Matches, Inv, ChainInv, LedgerTold
<1>9. Holds(<<p, "watched">>)
  BY <1>5, <1>8 DEF Holds
<1>10. confirmed' = confirmed \union {<<p, "watched">>}
  BY <1>4 DEF Await
<1>11. <<p, "watched">> \in Ids \X Confirmations
  BY <1>5 DEF Confirmations
<1>12. Around /\ IsLocals(loc[r])' /\ SameHand(r)
  BY <1>1, QuietAround, LocalsSurvive DEF Around, Inv, RunOK
<1>13. RunOK(r)' /\ pc' = [pc EXCEPT ![r] = pc'[r]]
  BY <1>1, <1>12, PlainProceeds DEF Around, Advance, PlainVerbs
<1> QED
  BY <1>1, <1>9, <1>10, <1>11, <1>13, Confirms

LEMMA FoundHolds ==
  ASSUME Inv, NEW r \in Runs, At(r, "Confirm"), Found(r)
  PROVE  /\ <<Target(r), Step(r).what>> \in Ids \X Confirmations
         /\ Holds(<<Target(r), Step(r).what>>)
         /\ Final(Target(r))
<1>1. PICK l : l = TypeAt(r)
  OBVIOUS
<1>2. /\ Live(r) /\ Step(r).do = "Confirm" /\ IsStep(Step(r)) /\ l \in Known
      /\ Needs(Step(r), l) /\ HasType(r, l)
  BY <1>1, StepFacts DEF At, Inv, RunOK
<1>3. PICK p, w : p = Target(r) /\ w = Step(r).what
  OBVIOUS
<1>4. /\ l.about = Step(r).on /\ w \in {"op", "ignore", "raise", "credit"}
      /\ w # "credit" => Step(r).on = "pay"
      /\ w = "op" => l.pay \in UserOps
      /\ w = "ignore" => l.pay = "E0"
      /\ w = "raise" => l.pay = "E1"
  BY <1>2, <1>3 DEF Needs, IsStep, Confirmations
<1>5. Step(r).on \in {"pay", "stuck"}
  BY <1>2 DEF IsStep
<1>6. TellsOf(r, p)
  BY <1>2, <1>3, <1>4, <1>5 DEF HasType, Target
<1>7. loc[r].receipt \in {"ran", "skipped"} /\ (w # "credit" => loc[r].receipt = "ran")
  BY <1>3, <1>4 DEF Found
<1>8. p \in Ids /\ ledger[p].mint = loc[r].receipt
  BY <1>6, <1>7 DEF TellsOf
<1>9. w # "credit" => ledger[p].kind = l.pay
  <2> SUFFICES ASSUME w # "credit" PROVE ledger[p].kind = l.pay
    OBVIOUS
  <2>1. p = loc[r].pay
    BY <1>3, <1>4 DEF Target
  <2>2. Step(r).on = "pay" /\ l.pay # NoKind
    BY <1>2, <1>4 DEF Needs, Knows
  <2> QED
    BY <1>2, <2>1, <2>2 DEF HasType
<1>10. PaymentTold(p)
  BY <1>8 DEF Inv, ChainInv, LedgerTold
<1>11. Holds(<<p, w>>)
  BY <1>4, <1>7, <1>8, <1>9, <1>10 DEF Holds, PaymentTold
<1>12. w \in Confirmations /\ Final(p)
  BY <1>4, <1>7, <1>8 DEF Confirmations, Final
<1> QED
  BY <1>3, <1>8, <1>11, <1>12

LEMMA ConfirmMoves ==
  ASSUME Inv, NEW r \in Runs, Confirm(r)
  PROVE  Moved(r)
<1>1. At(r, "Confirm") /\ Live(r) /\ Step(r).do = "Confirm" /\ Quiet
  BY DEF Confirm, At
<1>2. Around
  BY <1>1, QuietAround
<1>3. CASE ~Found(r)
  BY <1>2, <1>3, Throws DEF Confirm
<1>4. CASE Found(r)
  <2>1. PICK c : c = <<Target(r), Step(r).what>>
    OBVIOUS
  <2>2. c \in Ids \X Confirmations /\ Holds(c) /\ Final(Target(r))
    BY <1>1, <1>4, <2>1, FoundHolds
  <2>3. Advance(r, 1) /\ UNCHANGED loc /\ confirmed' = confirmed \union {c}
    BY <1>4, <2>1 DEF Confirm
  <2>4. IsLocals(loc[r])' /\ SameHand(r)
    BY <1>2, <2>3, LocalsSurvive DEF Around, Inv, RunOK
  <2>5. RunOK(r)' /\ pc' = [pc EXCEPT ![r] = pc'[r]]
    <3>1. CASE Step(r).on = "pay"
      BY <1>1, <1>2, <2>3, <2>4, <3>1, PlainProceeds DEF Around, Advance
    <3>2. CASE Step(r).on = "stuck"
      <4>1. PICK l : l = TypeAt(r)
        OBVIOUS
      <4>2. PICK m : m = After(Step(r), l, TypeNext(r).spare)
        OBVIOUS
      <4>3. l \in Known /\ HasType(r, l)
        BY <1>1, <4>1, StepFacts DEF Inv, RunOK
      <4>4. m = [l EXCEPT !.safe = TRUE]
        BY <1>1, <3>2, <4>2 DEF After
      <4>5. HasType(r, m)
        <5>1. Final(loc[r].stuck)
          BY <2>2, <3>2 DEF Target
        <5> QED
          BY <4>3, <4>4, <5>1 DEF HasType, Known
      <4>6. HasType(r, m)'
        BY <1>2, <2>4, <4>5, TypeSurvives DEF Around, Inv, ChainInv, RunOK
      <4> QED
        BY <1>1, <1>2, <2>3, <2>4, <4>1, <4>2, <4>6, Proceeds DEF Around, Advance
    <3> QED
      BY <1>1, <3>1, <3>2, StepFacts DEF IsStep
  <2> QED
    BY <1>1, <2>2, <2>3, <2>5, Confirms
<1> QED
  BY <1>3, <1>4

-----------------------------------------------------------------------------
(* The verbs that change what the locals mean.                             *)

LEMMA Turns ==
  ASSUME Inv, NEW r \in Runs, Live(r), Quiet, Advance(r, 1), confirmed' = confirmed,
         NEW x, loc' = [loc EXCEPT ![r] = x], IsLocals(x),
         NEW m, m = After(Step(r), TypeAt(r), TypeNext(r).spare), HasType(r, m)'
  PROVE  Moved(r)
<1>1. loc' = [loc EXCEPT ![r] = loc'[r]] /\ IsLocals(loc[r])'
  BY HandSurvives
<1>2. Around
  BY QuietAround
<1>3. RunOK(r)' /\ pc' = [pc EXCEPT ![r] = pc'[r]]
  BY <1>1, <1>2, Proceeds DEF Around, Advance
<1>4. failed' = [failed EXCEPT ![r] = failed'[r]] /\ failed'[r] \in BOOLEAN
  BY DEF Advance, Inv, ScriptTyped
<1> QED
  BY <1>1, <1>2, <1>3, <1>4 DEF Moved, Around

\* What a run at r, its type and its locals are before a step of that verb.
LEMMA Before ==
  ASSUME Inv, NEW r \in Runs, NEW verb, At(r, verb), NEW l, l = TypeAt(r)
  PROVE  /\ Live(r) /\ Step(r).do = verb /\ IsStep(Step(r)) /\ l \in Known
         /\ Needs(Step(r), l) /\ HasType(r, l) /\ IsLocals(loc[r])
BY StepFacts DEF At, Inv, RunOK

LEMMA ReadNonceMoves ==
  ASSUME Inv, NEW r \in Runs, ReadNonce(r)
  PROVE  Moved(r)
<1>1. At(r, "ReadNonce") /\ Quiet /\ Advance(r, 1) /\ confirmed' = confirmed
  BY DEF ReadNonce, Let
<1>2. PICK l : l = TypeAt(r)
  OBVIOUS
<1>3. /\ Live(r) /\ Step(r).do = "ReadNonce" /\ l \in Known /\ HasType(r, l)
      /\ IsLocals(loc[r])
  BY <1>1, <1>2, Before
<1>4. PICK x : x = [loc[r] EXCEPT !.nonce = nonce]
  OBVIOUS
<1>5. PICK m : m = After(Step(r), l, TypeNext(r).spare)
  OBVIOUS
<1>6. m = [l EXCEPT !.fresh = FALSE]
  BY <1>3, <1>5 DEF After
<1>7. IsLocals(x) /\ loc' = [loc EXCEPT ![r] = x]
  BY <1>3, <1>4, LogTyped DEF IsLocals, ReadNonce, Let
<1>8. loc'[r] = x
  BY <1>1, <1>7, HandSurvives
<1>9. HasType(r, m)'
  <2>1. /\ m.pay = l.pay /\ ~m.fresh /\ m.spare = l.spare /\ m.stuck = l.stuck
        /\ m.about = l.about /\ m.safe = l.safe /\ m.read = l.read
    BY <1>3, <1>6 DEF Known
  <2>2. /\ x.pay = loc[r].pay /\ x.stuck = loc[r].stuck /\ x.seen = loc[r].seen
        /\ x.receipt = loc[r].receipt
    BY <1>3, <1>4 DEF IsLocals
  <2>3. ledger' = ledger
    BY <1>1 DEF Quiet, chain
  <2> QED
    BY <1>3, <1>8, <2>1, <2>2, <2>3 DEF HasType, TellsOf, Final, Ids
<1> QED
  BY <1>1, <1>2, <1>3, <1>5, <1>7, <1>9, Turns

LEMMA StageMoves ==
  ASSUME Inv, NEW r \in Runs, Stage(r)
  PROVE  Moved(r)
<1>1. At(r, "Stage") /\ Quiet /\ Advance(r, 1) /\ confirmed' = confirmed
  BY DEF Stage, Let
<1>2. PICK l : l = TypeAt(r)
  OBVIOUS
<1>3. /\ Live(r) /\ Step(r).do = "Stage" /\ l \in Known /\ HasType(r, l)
      /\ IsLocals(loc[r])
  BY <1>1, <1>2, Before
<1>4. PICK x : x = [loc[r] EXCEPT !.pay = 0]
  OBVIOUS
<1>5. PICK m, k : m = After(Step(r), l, TypeNext(r).spare) /\ k = TypeNext(r).spare
  OBVIOUS
<1>6. m = [l EXCEPT !.pay = NoKind, !.fresh = FALSE, !.spare = k, !.about = "none"]
  BY <1>3, <1>5 DEF After
<1>7. IsLocals(x) /\ loc' = [loc EXCEPT ![r] = x]
  BY <1>3, <1>4 DEF IsLocals, Stage, Let
<1>8. loc'[r] = x
  BY <1>1, <1>7, HandSurvives
<1>9. HasType(r, m)'
  <2>1. /\ m.pay = NoKind /\ m.stuck = l.stuck
        /\ m.about = "none" /\ m.safe = l.safe /\ m.read = l.read
    BY <1>3, <1>6 DEF Known
  <2>2. x.pay = 0 /\ x.stuck = loc[r].stuck /\ x.seen = loc[r].seen
    BY <1>3, <1>4 DEF IsLocals
  <2>3. ledger' = ledger
    BY <1>1 DEF Quiet, chain
  <2> QED
    BY <1>3, <1>8, <2>1, <2>2, <2>3 DEF HasType, Final, Ids
<1> QED
  BY <1>1, <1>2, <1>3, <1>5, <1>7, <1>9, Turns

\* A stuck payment is chosen.
LEMMA StuckSet ==
  ASSUME Inv, NEW r \in Runs, NEW verb \in {"PickStuck", "OwnStuck"}, At(r, verb),
         NEW p \in Ids, Let(r, [loc[r] EXCEPT !.stuck = p])
  PROVE  Moved(r)
<1>1. Quiet /\ Advance(r, 1) /\ confirmed' = confirmed
  BY DEF Let
<1>2. PICK l : l = TypeAt(r)
  OBVIOUS
<1>3. /\ Live(r) /\ Step(r).do = verb /\ l \in Known /\ HasType(r, l)
      /\ IsLocals(loc[r])
  BY <1>2, Before
<1>4. PICK x : x = [loc[r] EXCEPT !.stuck = p]
  OBVIOUS
<1>5. PICK m : m = After(Step(r), l, TypeNext(r).spare)
  OBVIOUS
<1>6. m = [l EXCEPT !.stuck = TRUE, !.safe = FALSE,
                    !.about = IF @ = "stuck" THEN "none" ELSE @]
  BY <1>3, <1>5 DEF After
<1>7. IsLocals(x) /\ loc' = [loc EXCEPT ![r] = x]
  BY <1>3, <1>4 DEF IsLocals, Let
<1>8. loc'[r] = x
  BY <1>1, <1>7, HandSurvives
<1>9. HasType(r, m)'
  <2>1. /\ m.pay = l.pay /\ m.fresh = l.fresh /\ m.spare = l.spare /\ ~m.safe
        /\ m.about \in {"none", "pay"} /\ (m.about = "pay" => l.about = "pay")
        /\ m.read = l.read
    BY <1>3, <1>6 DEF Known
  <2>2. /\ x.pay = loc[r].pay /\ x.stuck = p /\ x.seen = loc[r].seen
        /\ x.receipt = loc[r].receipt /\ x.nonce = loc[r].nonce
    BY <1>3, <1>4 DEF IsLocals
  <2>3. ledger' = ledger
    BY <1>1 DEF Quiet, chain
  <2> QED
    BY <1>3, <1>8, <2>1, <2>2, <2>3 DEF HasType, TellsOf, Ids
<1> QED
  BY <1>1, <1>2, <1>3, <1>5, <1>7, <1>9, Turns

LEMMA StuckVerbs ==
  ASSUME Inv, NEW r \in Runs, PickStuck(r) \/ OwnStuck(r)
  PROVE  Moved(r)
<1>1. CASE PickStuck(r)
  BY <1>1, StuckSet DEF PickStuck
<1>2. CASE OwnStuck(r)
  <2>1. PICK l : l = TypeAt(r)
    OBVIOUS
  <2>2. At(r, "OwnStuck") /\ Let(r, [loc[r] EXCEPT !.stuck = loc[r].pay])
    BY <1>2 DEF OwnStuck
  <2>3. loc[r].pay \in Ids
    BY <2>1, <2>2, Before DEF Needs, HasType
  <2> QED
    BY <2>2, <2>3, StuckSet
<1> QED
  BY <1>1, <1>2

LEMMA ReadMoves ==
  ASSUME Inv, NEW r \in Runs, Read(r)
  PROVE  Moved(r)
<1>1. At(r, "Read") /\ Quiet /\ Advance(r, 1) /\ confirmed' = confirmed
  BY DEF Read, Let
<1>2. PICK l : l = TypeAt(r)
  OBVIOUS
<1>3. /\ Live(r) /\ Step(r).do = "Read" /\ l \in Known /\ HasType(r, l)
      /\ IsLocals(loc[r]) /\ IsStep(Step(r))
  BY <1>1, <1>2, Before
<1>4. PICK x : x = [loc[r] EXCEPT !.seen = [a \in Step(r).about |-> holds[a]]]
  OBVIOUS
<1>5. PICK m : m = After(Step(r), l, TypeNext(r).spare)
  OBVIOUS
<1>6. m = [l EXCEPT !.read = Step(r).about]
  BY <1>3, <1>5 DEF After
<1>7. \A a \in Step(r).about : holds[a] \in Nat
  BY <1>3 DEF IsStep, Inv, ChainInv, ChainTyped, Holdings
<1>8. /\ x.pay = loc[r].pay /\ x.stuck = loc[r].stuck /\ x.nonce = loc[r].nonce
      /\ x.receipt = loc[r].receipt /\ x.seen = [a \in Step(r).about |-> holds[a]]
  BY <1>3, <1>4 DEF IsLocals
<1>9. IsLocals(x)
  <2>1. /\ DOMAIN x = DOMAIN loc[r] /\ x.goal = loc[r].goal /\ x.from = loc[r].from
        /\ x.hit = loc[r].hit
    BY <1>3, <1>4 DEF IsLocals
  <2> QED
    BY <1>3, <1>7, <1>8, <2>1 DEF IsLocals
<1>10. loc' = [loc EXCEPT ![r] = x] /\ loc'[r] = x
  <2>1. loc' = [loc EXCEPT ![r] = x]
    BY <1>4 DEF Read, Let
  <2> QED
    BY <1>1, <1>9, <2>1, HandSurvives
<1>11. HasType(r, m)'
  <2>1. /\ m.pay = l.pay /\ m.fresh = l.fresh /\ m.spare = l.spare /\ m.stuck = l.stuck
        /\ m.about = l.about /\ m.safe = l.safe /\ m.read = Step(r).about
    BY <1>3, <1>6 DEF Known
  <2>2. ledger' = ledger
    BY <1>1 DEF Quiet, chain
  <2>3. DOMAIN x.seen = Step(r).about
    BY <1>8
  <2> QED
    BY <1>3, <1>8, <1>10, <2>1, <2>2, <2>3 DEF HasType, TellsOf, Final, Ids
<1> QED
  BY <1>1, <1>2, <1>3, <1>5, <1>9, <1>10, <1>11, Turns

-----------------------------------------------------------------------------
(* The verbs that jump.                                                    *)

LEMMA JumpMoves ==
  ASSUME Inv, NEW r \in Runs, Live(r), Jumps(Step(r)), Quiet,
         UNCHANGED <<failed, confirmed>>,
         pc' = [pc EXCEPT ![r] = JumpTo(Step(r), pc[r], Len(Code(r)) + 1)],
         loc' = [loc EXCEPT ![r] = loc'[r]], IsLocals(loc[r])',
         NEW m, m = AfterJump(Step(r), TypeAt(r)), HasType(r, m)'
  PROVE  Moved(r)
<1>1. Around
  BY QuietAround
<1>2. RunOK(r)' /\ pc' = [pc EXCEPT ![r] = pc'[r]]
  BY <1>1, JumpsAhead DEF Around
<1>3. failed' = [failed EXCEPT ![r] = failed'[r]] /\ failed'[r] \in BOOLEAN
  BY DEF Inv, ScriptTyped
<1> QED
  BY <1>1, <1>2, <1>3 DEF Moved, Around

LEMMA SameLocals ==
  ASSUME Inv, NEW r \in Runs, UNCHANGED loc, Grows
  PROVE  loc' = [loc EXCEPT ![r] = loc'[r]] /\ IsLocals(loc[r])' /\ SameHand(r)
BY LocalsSurvive DEF Inv, RunOK, ScriptTyped

LEMMA BranchMoves ==
  ASSUME Inv, NEW r \in Runs, IfHas(r) \/ IfLacks(r)
  PROVE  Moved(r)
<1>1. /\ Live(r) /\ Step(r).do \in {"IfHas", "IfLacks"}
      /\ Quiet /\ UNCHANGED <<failed, loc, confirmed>>
      /\ \/ pc' = [pc EXCEPT ![r] = @ + 1]
         \/ pc' = [pc EXCEPT ![r] = IF Step(r).n = 0 THEN Len(Code(r)) + 1 ELSE @ + Step(r).n]
  BY DEF IfHas, IfLacks, At, Jump
<1>2. Around
  BY <1>1, QuietAround
<1>3. CASE pc' = [pc EXCEPT ![r] = @ + 1]
  BY <1>1, <1>2, <1>3, PlainPasses DEF Advance, PlainVerbs
<1>4. CASE pc' = [pc EXCEPT ![r] = IF Step(r).n = 0 THEN Len(Code(r)) + 1 ELSE @ + Step(r).n]
  <2>1. pc' = [pc EXCEPT ![r] = JumpTo(Step(r), pc[r], Len(Code(r)) + 1)]
    BY <1>1, <1>4 DEF JumpTo
  <2>2. PICK m : m = TypeAt(r)
    OBVIOUS
  <2>3. m = AfterJump(Step(r), TypeAt(r)) /\ Jumps(Step(r))
    BY <1>1, <2>2 DEF AfterJump, Jumps
  <2>4. /\ loc' = [loc EXCEPT ![r] = loc'[r]] /\ IsLocals(loc[r])' /\ SameHand(r)
    BY <1>1, <1>2, SameLocals DEF Around
  <2>5. HasType(r, m)'
    BY <1>2, <2>2, <2>4, TypeSurvives DEF Around, Inv, ChainInv, RunOK
  <2> QED
    BY <1>1, <2>1, <2>3, <2>4, <2>5, JumpMoves
<1> QED
  BY <1>1, <1>3, <1>4

LEMMA DiagnoseMoves ==
  ASSUME Inv, NEW r \in Runs, Diagnose(r)
  PROVE  Moved(r)
<1>1. At(r, "Diagnose") /\ Live(r) /\ Step(r).do = "Diagnose"
  BY DEF Diagnose, At
<1>2. CASE Final(loc[r].stuck) /\ Step(r).n > 0
  <2>1. Quiet /\ Advance(r, Step(r).n) /\ UNCHANGED <<loc, confirmed>>
    BY <1>2 DEF Diagnose
  <2>2. pc' = [pc EXCEPT ![r] = JumpTo(Step(r), pc[r], Len(Code(r)) + 1)] /\ UNCHANGED failed
    BY <1>1, <2>1 DEF JumpTo, Advance
  <2>3. PICK l, m : l = TypeAt(r) /\ m = AfterJump(Step(r), TypeAt(r))
    OBVIOUS
  <2>4. m = [l EXCEPT !.safe = TRUE] /\ Jumps(Step(r))
    BY <1>1, <1>2, <2>3 DEF AfterJump, Jumps
  <2>5. Around
    BY <2>1, QuietAround
  <2>6. loc' = [loc EXCEPT ![r] = loc'[r]] /\ IsLocals(loc[r])' /\ SameHand(r)
    BY <2>1, <2>5, SameLocals DEF Around
  <2>7. l \in Known /\ HasType(r, l) /\ IsLocals(loc[r])
    BY <1>1, <2>3, Before
  <2>8. HasType(r, m)
    BY <1>2, <2>4, <2>7 DEF HasType, Known
  <2>9. HasType(r, m)'
    BY <2>5, <2>6, <2>7, <2>8, TypeSurvives DEF Around, Inv, ChainInv
  <2> QED
    BY <1>1, <2>1, <2>2, <2>3, <2>4, <2>6, <2>9, JumpMoves
<1>3. CASE ~(Final(loc[r].stuck) /\ Step(r).n > 0)
  BY <1>1, <1>3, Asserts DEF Diagnose, Assert, PlainVerbs
<1> QED
  BY <1>2, <1>3

\* A receipt comes into hand, that of what the step is about.
ReceiptIs(r, receipt) ==
  /\ loc' = [loc EXCEPT ![r].receipt = receipt]
  /\ receipt \in {"pending", "delayed", "ran", "skipped"}

LEMMA ReceiptTyped ==
  ASSUME Inv, Grows, NEW r \in Runs, NEW receipt, ReceiptIs(r, receipt)
  PROVE  /\ loc' = [loc EXCEPT ![r] = loc'[r]] /\ IsLocals(loc[r])'
         /\ loc'[r].pay = loc[r].pay /\ loc'[r].stuck = loc[r].stuck
         /\ loc'[r].nonce = loc[r].nonce /\ loc'[r].seen = loc[r].seen
         /\ loc'[r].receipt = receipt
<1>1. PICK x : x = [loc[r] EXCEPT !.receipt = receipt]
  OBVIOUS
<1>2. loc' = [loc EXCEPT ![r] = x] /\ loc'[r] = x
  BY <1>1 DEF ReceiptIs, Inv, ScriptTyped
<1>3. IsLocals(loc[r])
  BY DEF Inv, RunOK
<1>4. /\ DOMAIN x = DOMAIN loc[r] /\ x.receipt = receipt
      /\ x.pay = loc[r].pay /\ x.stuck = loc[r].stuck /\ x.nonce = loc[r].nonce
      /\ x.seen = loc[r].seen /\ x.goal = loc[r].goal /\ x.from = loc[r].from
      /\ x.hit = loc[r].hit
  BY <1>1, <1>3 DEF IsLocals
<1>5. IsLocals(loc[r])'
  BY <1>2, <1>3, <1>4 DEF IsLocals, Grows, ReceiptIs
<1> QED
  BY <1>2, <1>4, <1>5

LEMMA Receives ==
  ASSUME Inv, Grows, NEW r \in Runs, NEW receipt, ReceiptIs(r, receipt),
         NEW l, HasType(r, l), NEW m,
         /\ m.pay = l.pay /\ m.fresh = l.fresh /\ m.spare = l.spare /\ m.stuck = l.stuck
         /\ m.read = l.read /\ m.about = Step(r).on,
         m.safe => l.safe \/ Final(loc[r].stuck)',
         Step(r).on \in {"pay", "stuck"},
         NEW p, p = Target(r), p \in Ids', receipt \in {"ran", "skipped"} => ledger'[p].mint = receipt
  PROVE  HasType(r, m)'
<1>1. /\ loc'[r].pay = loc[r].pay /\ loc'[r].stuck = loc[r].stuck
      /\ loc'[r].nonce = loc[r].nonce /\ loc'[r].seen = loc[r].seen
      /\ loc'[r].receipt = receipt
  BY ReceiptTyped
<1>2. /\ loc[r].pay \in Ids \union {0} /\ loc[r].stuck \in Ids \union {0}
  BY DEF Inv, RunOK, IsLocals
<1>3. ASSUME NEW q \in Ids
      PROVE  /\ q \in Ids' /\ ledger'[q].kind = ledger[q].kind /\ ledger'[q].nonce = ledger[q].nonce
             /\ Final(q) => Final(q)'
  BY DEF Grows, SamePayment, Final
<1>4. TellsOf(r, p)'
  BY <1>1 DEF TellsOf
<1>5. (m.about = "pay" => p = loc'[r].pay) /\ (m.about = "stuck" => p = loc'[r].stuck)
  BY <1>1 DEF Target
<1>6. m.safe => loc'[r].stuck = 0 \/ Final(loc[r].stuck)'
  BY <1>1, <1>2, <1>3 DEF HasType, Final
<1> QED
  BY <1>1, <1>2, <1>3, <1>4, <1>5, <1>6 DEF HasType

LEMMA TargetIs ==
  ASSUME Inv, NEW r \in Runs, NEW verb \in {"Prove", "Mint", "Used", "Confirm"}, At(r, verb)
  PROVE  Target(r) \in Ids /\ Step(r).on \in {"pay", "stuck"}
<1>1. PICK l : l = TypeAt(r)
  OBVIOUS
<1>2. /\ Step(r).do = verb /\ IsStep(Step(r)) /\ Needs(Step(r), l) /\ HasType(r, l)
  BY <1>1, Before
<1> QED
  BY <1>2 DEF IsStep, Needs, Knows, HasType, Target

LEMMA UsedMoves ==
  ASSUME Inv, NEW r \in Runs, Used(r)
  PROVE  Moved(r)
<1>1. At(r, "Used") /\ Live(r) /\ Step(r).do = "Used" /\ Quiet /\ confirmed' = confirmed
  BY DEF Used, At
<1>2. Around
  BY <1>1, QuietAround
<1>3. CASE ~Final(Target(r))
  BY <1>1, <1>2, <1>3, PlainPasses DEF Used, PlainVerbs
<1>4. CASE Final(Target(r))
  <2>1. PICK p : p = Target(r)
    OBVIOUS
  <2>2. PICK receipt : receipt = ledger[p].mint
    OBVIOUS
  <2>3. p \in Ids /\ Step(r).on \in {"pay", "stuck"} /\ ledger' = ledger
    BY <1>1, <2>1, TargetIs DEF Quiet, chain
  <2>4. Advance(r, Step(r).n) /\ ReceiptIs(r, receipt) /\ receipt \in {"ran", "skipped"}
    BY <1>4, <2>1, <2>2 DEF Used, ReceiptIs, Final
  <2>5. pc' = [pc EXCEPT ![r] = JumpTo(Step(r), pc[r], Len(Code(r)) + 1)] /\ UNCHANGED failed
    BY <1>1, <2>4 DEF JumpTo, Advance
  <2>6. PICK l, m : l = TypeAt(r) /\ m = AfterJump(Step(r), TypeAt(r))
    OBVIOUS
  <2>7. m = [l EXCEPT !.about = Step(r).on, !.safe = @ \/ Step(r).on = "stuck"]
        /\ Jumps(Step(r))
    BY <1>1, <2>6 DEF AfterJump, Jumps
  <2>8. l \in Known /\ HasType(r, l)
    BY <1>1, <2>6, Before
  <2>9. /\ m.pay = l.pay /\ m.fresh = l.fresh /\ m.spare = l.spare /\ m.stuck = l.stuck
        /\ m.read = l.read /\ m.about = Step(r).on
        /\ m.safe => l.safe \/ Step(r).on = "stuck"
    BY <2>7, <2>8 DEF Known
  <2>10. Step(r).on = "stuck" => Final(loc[r].stuck)'
    <3>1. Step(r).on = "stuck" => loc[r].stuck = p /\ loc'[r].stuck = p
      BY <1>2, <2>1, <2>4, ReceiptTyped DEF Target, Around
    <3> QED
      BY <1>4, <2>1, <2>3, <3>1 DEF Final
  <2>11. HasType(r, m)'
    BY <1>2, <2>1, <2>2, <2>3, <2>4, <2>8, <2>9, <2>10, Receives DEF Around, Ids
  <2>12. loc' = [loc EXCEPT ![r] = loc'[r]] /\ IsLocals(loc[r])'
    BY <1>2, <2>4, ReceiptTyped DEF Around
  <2> QED
    BY <1>1, <2>5, <2>6, <2>7, <2>11, <2>12, JumpMoves
<1> QED
  BY <1>3, <1>4

-----------------------------------------------------------------------------
(* Minting and paying.                                                     *)

LEMMA MintReceives ==
  ASSUME Inv, NEW r \in Runs, At(r, "Mint"), Around, NEW receipt, Received(r, receipt),
         receipt \in {"delayed", "ran", "skipped"},
         receipt # "delayed" => ledger'[Target(r)].mint = receipt
  PROVE  Moved(r)
<1>1. PICK p : p = Target(r)
  OBVIOUS
<1>2. p \in Ids /\ p \in Ids' /\ Step(r).on \in {"pay", "stuck"}
  BY <1>1, TargetIs DEF Around, Grows
<1>3. PICK l, m : l = TypeAt(r) /\ m = After(Step(r), TypeAt(r), TypeNext(r).spare)
  OBVIOUS
<1>4. Live(r) /\ Step(r).do = "Mint" /\ l \in Known /\ HasType(r, l)
  BY <1>3, Before
<1>5. m = [l EXCEPT !.about = Step(r).on]
  BY <1>3, <1>4 DEF After
<1>6. /\ m.pay = l.pay /\ m.fresh = l.fresh /\ m.spare = l.spare /\ m.stuck = l.stuck
      /\ m.read = l.read /\ m.about = Step(r).on /\ (m.safe => l.safe)
  BY <1>4, <1>5 DEF Known
<1>7. Advance(r, 1) /\ ReceiptIs(r, receipt) /\ confirmed' = confirmed
  BY DEF Received, ReceiptIs
<1>8. HasType(r, m)'
  BY <1>1, <1>2, <1>4, <1>6, <1>7, Receives DEF Around
<1>9. loc' = [loc EXCEPT ![r] = loc'[r]] /\ IsLocals(loc[r])'
  BY <1>7, ReceiptTyped DEF Around
<1>10. RunOK(r)' /\ pc' = [pc EXCEPT ![r] = pc'[r]]
  BY <1>3, <1>4, <1>7, <1>8, <1>9, Proceeds DEF Around, Advance
<1>11. failed' = [failed EXCEPT ![r] = failed'[r]] /\ failed'[r] \in BOOLEAN
  BY <1>7 DEF Advance, Inv, ScriptTyped
<1> QED
  BY <1>7, <1>9, <1>10, <1>11 DEF Moved, Around

LEMMA MintMoves ==
  ASSUME Inv, NEW r \in Runs, Mint(r)
  PROVE  Moved(r)
<1>1. At(r, "Mint")
  BY DEF Mint
<1>2. PICK p : p = Target(r)
  OBVIOUS
<1>3. p \in Ids
  BY <1>1, <1>2, TargetIs
<1>4. CASE Settle(p) /\ UNCHANGED faults /\ Received(r, Outcome(p))
  <2>1. ChainInv' /\ Grows /\ ledger'[p].mint = Outcome(p) /\ Outcome(p) \in {"ran", "skipped"}
    BY <1>3, <1>4, SettleKeeps DEF Inv
  <2>2. Around
    BY <1>4, <2>1 DEF Around, Received, Inv, ScriptTyped
  <2>3. PICK receipt : receipt = Outcome(p)
    OBVIOUS
  <2> QED
    BY <1>1, <1>2, <1>4, <2>1, <2>2, <2>3, MintReceives
<1>5. CASE Delay(p) /\ Received(r, "delayed")
  <2>1. ChainInv' /\ Grows
    BY <1>3, <1>5, DelayKeeps DEF Inv
  <2>2. faults' \in 0 .. MaxFaults
    BY <1>5, BoundsAssumption DEF Delay, Inv, ScriptTyped
  <2>3. Around
    BY <1>5, <2>1, <2>2 DEF Around, Received, Inv, ScriptTyped
  <2> QED
    BY <1>1, <1>5, <2>3, MintReceives
<1>6. CASE Final(p) /\ UNCHANGED <<chain, faults>> /\ Received(r, ledger[p].mint)
  <2>1. ChainInv' /\ Grows /\ ledger' = ledger
    BY <1>6, QuietChain DEF Inv, chain
  <2>2. Around
    BY <1>6, <2>1 DEF Around, Received, Inv, ScriptTyped
  <2>3. PICK receipt : receipt = ledger[p].mint
    OBVIOUS
  <2>4. receipt \in {"ran", "skipped"}
    BY <1>6, <2>3 DEF Final
  <2> QED
    BY <1>1, <1>2, <1>6, <2>1, <2>2, <2>3, <2>4, MintReceives
<1>7. CASE Assert(r, FALSE)
  BY <1>7, QuietAround, Throws DEF Assert
<1> QED
  BY <1>2, <1>4, <1>5, <1>6, <1>7 DEF Mint

LEMMA PayGoesOn ==
  ASSUME Inv, NEW r \in Runs, Live(r), Around, Advance(r, 1), confirmed' = confirmed,
         loc' = [loc EXCEPT ![r] = loc'[r]], IsLocals(loc[r])',
         NEW m, m = After(Step(r), TypeAt(r), TypeNext(r).spare), HasType(r, m)'
  PROVE  Moved(r)
<1>1. RunOK(r)' /\ pc' = [pc EXCEPT ![r] = pc'[r]]
  BY Proceeds DEF Around, Advance
<1>2. failed' = [failed EXCEPT ![r] = failed'[r]] /\ failed'[r] \in BOOLEAN
  BY DEF Advance, Inv, ScriptTyped
<1> QED
  BY <1>1, <1>2 DEF Moved, Around

LEMMA PaymentTyped ==
  ASSUME Inv, NEW r \in Runs, At(r, "Pay")
  PROVE  /\ IsPayment(Payment(r)) /\ Payment(r).op.emits # "UserOp"
         /\ Payment(r).mint = "pending" /\ Payment(r).kind = Step(r).kind
         /\ Payment(r).nonce = loc[r].nonce
         /\ Payment(r).kind = "E0" => Payment(r).target \in Ids
<1>1. PICK l : l = TypeAt(r)
  OBVIOUS
<1>2. /\ IsStep(Step(r)) /\ Needs(Step(r), l) /\ HasType(r, l) /\ IsLocals(loc[r])
      /\ Step(r).do = "Pay"
  BY <1>1, Before
<1>3. /\ Step(r).about \subseteq DOMAIN loc[r].seen /\ Step(r).op.emits # "UserOp"
      /\ Step(r).kind = "E0" => loc[r].stuck \in Ids
  BY <1>2 DEF Needs, HasType
<1>4. PICK op : op = Measured(r, Step(r).op)
  OBVIOUS
<1>5. IsOp(op) /\ op.emits = Step(r).op.emits
  <2>1. IsOp(Step(r).op) /\ Step(r).about \subseteq Assets
    BY <1>2 DEF IsStep
  <2>2. \A a \in Step(r).about : loc[r].seen[a] \in Nat
    BY <1>2, <1>3 DEF IsLocals
  <2> DEFINE takes == [a \in DOMAIN Step(r).op.takes \union Step(r).about |->
                         IF a \in Step(r).about THEN loc[r].seen[a] ELSE Step(r).op.takes[a]]
  <2>3. /\ DOMAIN takes \subseteq Assets /\ \A a \in DOMAIN takes : takes[a] \in Nat
    BY <2>1, <2>2 DEF IsOp
  <2>4. op = [Step(r).op EXCEPT !.takes = takes]
    BY <1>4, <2>1 DEF Measured, IsOp
  <2> HIDE DEF takes
  <2> QED
    BY <2>1, <2>3, <2>4 DEF IsOp
<1>6. PICK t : t = CASE Step(r).kind = "E0" -> loc[r].stuck
                     [] Step(r).kind = "E1" -> loc[r].goal
                     [] OTHER -> loc[r].hit
  OBVIOUS
<1>7. t \in Nat /\ (Step(r).kind = "E0" => t \in Ids)
  <2>1. loc[r].goal \in Nat /\ loc[r].hit \in Nat
    BY <1>2 DEF IsLocals
  <2>2. Ids \subseteq Nat
    BY IdsAre DEF Inv, ChainInv
  <2> QED
    BY <1>3, <1>6, <2>1, <2>2
<1>9. Payment(r) = [by |-> r, kind |-> Step(r).kind, nonce |-> loc[r].nonce, op |-> op,
                    target |-> t, net |-> Step(r).n, sent |-> funds > 0, mint |-> "pending",
                    ignored |-> FALSE]
  BY <1>4, <1>6 DEF Payment
<1>10. Step(r).kind \in Kinds /\ loc[r].nonce \in Nat /\ Step(r).n \in Nat
  BY <1>2 DEF IsStep, IsLocals
<1>11. IsPayment(Payment(r))
  BY <1>5, <1>7, <1>9, <1>10 DEF IsPayment, Statuses
<1> QED
  BY <1>3, <1>5, <1>7, <1>9, <1>11

LEMMA PayMoves ==
  ASSUME Inv, NEW r \in Runs, Pay(r)
  PROVE  Moved(r)
<1>1. At(r, "Pay") /\ Live(r) /\ Advance(r, 1) /\ confirmed' = confirmed
  BY DEF Pay, At
<1>2. PICK l, m : l = TypeAt(r) /\ m = After(Step(r), TypeAt(r), TypeNext(r).spare)
  OBVIOUS
<1>3. /\ Step(r).do = "Pay" /\ l \in Known /\ HasType(r, l) /\ Needs(Step(r), l)
      /\ IsLocals(loc[r])
  BY <1>1, <1>2, Before
<1>4. m = [l EXCEPT !.pay = Step(r).kind, !.fresh = Step(r).kind \notin {"E0", "E1"},
                    !.spare = IF l.spare = Step(r).kind THEN @ ELSE NoKind,
                    !.about = IF @ = "pay" THEN "none" ELSE @]
  BY <1>2, <1>3 DEF After
<1>5. /\ m.pay = Step(r).kind /\ (m.fresh => Step(r).kind \notin {"E0", "E1"})
      /\ (m.spare # NoKind => m.spare = Step(r).kind) /\ m.stuck = l.stuck
      /\ m.about # "pay" /\ (m.about = "stuck" => l.about = "stuck")
      /\ m.safe = l.safe /\ m.read = l.read
  BY <1>3, <1>4 DEF Known
<1>6. CASE Resumed(r)
  <2>1. Quiet /\ UNCHANGED loc
    BY <1>6 DEF Pay
  <2>2. Around
    BY <2>1, QuietAround
  <2>3. loc' = [loc EXCEPT ![r] = loc'[r]] /\ IsLocals(loc[r])' /\ SameHand(r)
    BY <2>1, <2>2, SameLocals DEF Around
  <2>4. l.spare = Step(r).kind /\ loc[r].pay # 0 /\ Step(r).kind \in {"E0", "E1"}
        /\ Step(r).kind # NoKind
    BY <1>3, <1>6 DEF Resumed, Needs
  <2>5. loc[r].pay \in Ids /\ ledger[loc[r].pay].kind = Step(r).kind
    BY <1>3, <2>4 DEF HasType, IsLocals
  <2>6. HasType(r, m)
    BY <1>3, <1>5, <2>4, <2>5 DEF HasType
  <2>7. HasType(r, m)'
    BY <1>3, <2>2, <2>3, <2>6, TypeSurvives DEF Around, Inv, ChainInv
  <2> QED
    BY <1>1, <1>2, <2>2, <2>3, <2>7, PayGoesOn
<1>7. CASE ~Resumed(r)
  <2>1. /\ ledger' = Append(ledger, Payment(r)) /\ funds' = Spend
        /\ loc' = [loc EXCEPT ![r].pay = Len(ledger) + 1]
        /\ UNCHANGED <<nonce, log, holds, faults, rivals, program>>
    BY <1>7 DEF Pay
  <2>2. PICK k, t : k = Len(ledger) + 1 /\ t = Payment(r)
    OBVIOUS
  <2>3. /\ IsPayment(t) /\ t.op.emits # "UserOp" /\ t.mint = "pending"
        /\ t.kind = Step(r).kind /\ t.nonce = loc[r].nonce
        /\ t.kind = "E0" => t.target \in Ids
    BY <1>1, <2>2, PaymentTyped
  <2>4. ChainInv' /\ Grows /\ k \in Ids' /\ ledger'[k] = t
    BY <2>1, <2>2, <2>3, SendKeeps DEF Inv
  <2>5. funds' \in Nat
    BY <2>1 DEF Spend, Inv, ScriptTyped
  <2>6. Around
    BY <2>1, <2>4, <2>5 DEF Around, Inv, ScriptTyped
  <2>7. PICK x : x = [loc[r] EXCEPT !.pay = k]
    OBVIOUS
  <2>8. loc' = [loc EXCEPT ![r] = x] /\ loc'[r] = x
    BY <2>1, <2>2, <2>7 DEF Inv, ScriptTyped
  <2>9. /\ DOMAIN x = DOMAIN loc[r] /\ x.pay = k
        /\ x.stuck = loc[r].stuck /\ x.nonce = loc[r].nonce /\ x.receipt = loc[r].receipt
        /\ x.seen = loc[r].seen /\ x.goal = loc[r].goal /\ x.from = loc[r].from
        /\ x.hit = loc[r].hit
    BY <1>3, <2>7 DEF IsLocals
  <2>10. IsLocals(loc[r])'
    BY <1>3, <2>4, <2>8, <2>9 DEF IsLocals, Grows
  <2>11. HasType(r, m)'
    <3>1. loc[r].stuck \in Ids \union {0}
      BY <1>3 DEF IsLocals
    <3>2. ASSUME NEW q \in Ids
          PROVE  q \in Ids' /\ (Final(q) => Final(q)' /\ ledger'[q].mint = ledger[q].mint)
      BY <2>4 DEF Grows, Final
    <3>8. PICK q : q = loc[r].stuck /\ loc'[r].stuck = q
      BY <2>8, <2>9
    <3>3. l.about = "stuck" => TellsOf(r, loc[r].stuck)'
      <4> SUFFICES ASSUME l.about = "stuck" PROVE TellsOf(r, loc[r].stuck)'
        OBVIOUS
      <4>1. TellsOf(r, q)
        BY <1>3, <3>8 DEF HasType
      <4>2. q \in Ids' /\ (loc'[r].receipt \in {"ran", "skipped"} => ledger'[q].mint = loc'[r].receipt)
        BY <2>8, <2>9, <3>2, <4>1 DEF TellsOf, Final
      <4> QED
        BY <3>8, <4>2 DEF TellsOf
    <3>4. l.safe => loc'[r].stuck = 0 \/ Final(loc[r].stuck)'
      <4> SUFFICES ASSUME l.safe, q # 0 PROVE Final(loc[r].stuck)'
        BY <3>8
      <4>1. q \in Ids /\ Final(q)
        BY <1>3, <3>1, <3>8 DEF HasType
      <4>2. Final(q)'
        BY <3>2, <4>1
      <4> QED
        BY <3>8, <4>2 DEF Final
    <3>5. l.stuck => loc'[r].stuck \in Ids'
      BY <1>3, <2>8, <2>9, <3>2 DEF HasType
    <3>6. ledger'[loc'[r].pay].kind = m.pay /\ ledger'[loc'[r].pay].nonce = loc'[r].nonce
          /\ loc'[r].pay \in Ids'
      BY <1>5, <2>3, <2>4, <2>8, <2>9
    <3>7. l.read \subseteq DOMAIN loc'[r].seen
      BY <1>3, <2>8, <2>9 DEF HasType
    <3> QED
      BY <1>5, <3>3, <3>4, <3>5, <3>6, <3>7 DEF HasType, Known
  <2>12. loc' = [loc EXCEPT ![r] = loc'[r]]
    BY <2>8
  <2> QED
    BY <1>1, <1>2, <2>6, <2>10, <2>11, <2>12, PayGoesOn
<1> QED
  BY <1>6, <1>7

-----------------------------------------------------------------------------
(* Failing and starting again.                                             *)

LEMMA CrashMoves ==
  ASSUME Inv, NEW r \in Runs, Crash(r)
  PROVE  Moved(r)
<1>1. ChainInv' /\ Grows
  BY QuietChain DEF Crash, Inv
<1>2. faults' \in 0 .. MaxFaults
  BY BoundsAssumption DEF Crash, Inv, ScriptTyped
<1>3. Around
  BY <1>1, <1>2 DEF Around, Crash, Inv, ScriptTyped
<1> QED
  BY <1>3, Throws DEF Crash

\* A run taken up at its last stage has that stage's type: it holds no payment
\* or one of the kind the stage sends, and what was known stays known.
LEMMA ResumeMoves ==
  ASSUME Inv, NEW r \in Runs, Resume(r)
  PROVE  Moved(r)
<1>1. PICK i \in Passed(r) :
        /\ \A j \in Passed(r) : j <= i
        /\ pc' = [pc EXCEPT ![r] = i + 1]
        /\ loc' = [loc EXCEPT ![r].pay = IF @ # 0 /\ ledger[@].sent THEN @ ELSE 0]
  BY DEF Resume
<1>2. /\ UNCHANGED <<chain, funds, faults, rivals, program, confirmed>>
      /\ failed' = [failed EXCEPT ![r] = FALSE]
  BY DEF Resume
<1>3. Around
  BY <1>2, QuietChain DEF Around, Inv, ScriptTyped
<1>4. /\ program[r] \in DOMAIN Programs /\ pc[r] \in 1 .. Len(Code(r)) + 1
      /\ IsLocals(loc[r]) /\ HasType(r, TypeAt(r))
  BY DEF Inv, ScriptTyped, RunOK
<1>5. Len(Code(r)) \in Nat /\ TypedBy(Code(r), Types[program[r]])
  BY <1>4, ScenariosAssumption, TypesAssumption DEF Code
<1>6. /\ i \in 1 .. Len(Code(r)) /\ i < pc[r] /\ Code(r)[i].do = "Stage"
      /\ \A k \in i + 1 .. pc[r] - 1 : Code(r)[k].do # "Stage"
  <2>1. i \in 1 .. pc[r] - 1 /\ Code(r)[i].do = "Stage"
    BY DEF Passed
  <2>2. ASSUME NEW k \in i + 1 .. pc[r] - 1, Code(r)[k].do = "Stage" PROVE FALSE
    <3>1. k \in 1 .. pc[r] - 1 /\ ~(k <= i)
      BY <1>4, <2>1
    <3> QED
      BY <1>1, <2>2, <3>1 DEF Passed
  <2> QED
    BY <1>4, <1>5, <2>1, <2>2
<1>7. PICK l, m : l = Types[program[r]][i + 1] /\ m = TypeAt(r)
  OBVIOUS
<1>8. l \in Known /\ m \in Known /\ Resumable(l, m) /\ l.pay = NoKind /\ l.about = "none"
  <2>1. Types[program[r]] \in [1 .. Len(Code(r)) + 1 -> Known]
    BY <1>5 DEF TypedBy
  <2>2. i + 1 \in 1 .. Len(Code(r)) + 1 /\ pc[r] \in i + 1 .. Len(Code(r)) + 1
    BY <1>4, <1>5, <1>6
  <2>3. l \in Known /\ m \in Known
    BY <1>4, <1>7, <2>1, <2>2 DEF TypeAt
  <2>4. Resumable(l, m)
    BY <1>5, <1>6, <1>7, <2>2 DEF TypedBy, TypeAt
  <2>5. PICK n : n = After(Code(r)[i], Types[program[r]][i], l.spare)
    OBVIOUS
  <2>6. Implies(n, l)
    BY <1>5, <1>6, <1>7, <2>5 DEF TypedBy
  <2>7. Types[program[r]][i] \in Known
    BY <1>5, <1>6, <2>1
  <2>8. n.pay = NoKind /\ n.about = "none"
    BY <1>6, <2>5, <2>7 DEF After, Known
  <2> QED
    BY <2>3, <2>4, <2>6, <2>8 DEF Implies
<1>9. PICK x : x = [loc[r] EXCEPT !.pay = IF @ # 0 /\ ledger[@].sent THEN @ ELSE 0]
  OBVIOUS
<1>10. /\ DOMAIN x = DOMAIN loc[r] /\ x.pay \in {0, loc[r].pay}
       /\ x.stuck = loc[r].stuck /\ x.nonce = loc[r].nonce /\ x.receipt = loc[r].receipt
       /\ x.seen = loc[r].seen /\ x.goal = loc[r].goal /\ x.from = loc[r].from
       /\ x.hit = loc[r].hit
  BY <1>4, <1>9 DEF IsLocals
<1>11. loc' = [loc EXCEPT ![r] = x] /\ loc'[r] = x /\ ledger' = ledger
  BY <1>1, <1>2, <1>9 DEF Inv, ScriptTyped, chain
<1>12. IsLocals(loc[r])'
  BY <1>4, <1>10, <1>11 DEF IsLocals, Ids
<1>13. HasType(r, l)'
  BY <1>4, <1>7, <1>8, <1>10, <1>11 DEF HasType, Resumable, Final, Ids
<1>14. pc'[r] = i + 1 /\ pc' = [pc EXCEPT ![r] = pc'[r]]
  BY <1>1 DEF Inv, ScriptTyped
<1>15. RunOK(r)'
  <2>1. TypeAt(r)' = l
    BY <1>2, <1>7, <1>14 DEF TypeAt
  <2>2. i + 1 \in 1 .. Len(Code(r)) + 1
    BY <1>5, <1>6
  <2> QED
    BY <1>2, <1>12, <1>13, <1>14, <2>1, <2>2 DEF RunOK, Code
<1>16. /\ loc' = [loc EXCEPT ![r] = loc'[r]] /\ failed' = [failed EXCEPT ![r] = failed'[r]]
       /\ failed'[r] \in BOOLEAN
  BY <1>2, <1>11 DEF Inv, ScriptTyped
<1> QED
  BY <1>2, <1>3, <1>14, <1>15, <1>16 DEF Moved, Around

-----------------------------------------------------------------------------
(* The invariant.                                                          *)

LEMMA InvInit ==
  ASSUME Init
  PROVE  Inv
<1>1. /\ nonce = 0 /\ ledger = << >> /\ log = << >> /\ rivals = 0 /\ faults = 0
      /\ pc = [r \in Runs |-> 1] /\ failed = [r \in Runs |-> FALSE]
      /\ loc = [r \in Runs |-> Blank] /\ confirmed = {}
  BY DEF Init
<1>2. /\ program \in [Runs -> DOMAIN Programs] /\ funds \in Nat /\ holds \in Holdings
  BY ScenariosAssumption DEF Init
<1>3. Len(ledger) = 0 /\ IsSequence(ledger) /\ Ids = {}
  <2>1. Len(ledger) = 0
    BY <1>1, EmptySeq
  <2>2. ledger = [i \in 1 .. 0 |-> ledger[i]]
    BY <1>1
  <2> QED
    BY <2>1, <2>2 DEF IsSequence, Ids
<1>4. log \in Seq(LogEntry) /\ Len(log) = 0
  BY <1>1, EmptySeq
<1>5. ChainInv
  BY <1>1, <1>2, <1>3, <1>4 DEF ChainInv, ChainTyped, LedgerTold
<1>6. ScriptTyped
  BY <1>1, <1>2, BoundsAssumption DEF ScriptTyped
<1>7. ASSUME NEW r \in Runs PROVE RunOK(r)
  <2>1. Len(Code(r)) \in Nat /\ TypedBy(Code(r), Types[program[r]])
    BY <1>2, ScenariosAssumption, TypesAssumption DEF Code
  <2>2. PICK l : l = TypeAt(r)
    OBVIOUS
  <2>3. Implies(Nothing, l)
    BY <1>1, <2>1, <2>2 DEF TypedBy, TypeAt
  <2>4. /\ l.pay = NoKind /\ l.spare = NoKind /\ l.about = "none" /\ l.read = {}
        /\ ~l.stuck
    BY <2>3 DEF Implies, Nothing
  <2>5. loc[r] = Blank
    BY <1>1
  <2>6. HasType(r, l)
    BY <2>4, <2>5 DEF HasType, Blank
  <2>7. IsLocals(loc[r])
    BY <2>5 DEF IsLocals, Blank
  <2>8. pc[r] \in 1 .. Len(Code(r)) + 1
    BY <1>1, <2>1
  <2> QED
    BY <2>2, <2>6, <2>7, <2>8 DEF RunOK
<1> QED
  BY <1>1, <1>5, <1>6, <1>7 DEF Inv, ConfirmationsAreTrue

LEMMA ScriptStepMoves ==
  ASSUME Inv, NEW r \in Runs, ScriptStep(r)
  PROVE  Moved(r)
BY AssertVerbs, GoalVerbs, HitVerbs, WatchMoves, UntilMoves, TxMoves, AwaitMoves,
   ConfirmMoves, ReadNonceMoves, StageMoves, StuckVerbs, ReadMoves, BranchMoves,
   DiagnoseMoves, UsedMoves, MintMoves, PayMoves
   DEF ScriptStep

LEMMA EnvironmentMoves ==
  ASSUME Inv, Environment
  PROVE  Inv'
<1>1. ChainInv' /\ Grows
  BY EnvironmentKeeps DEF Inv
<1>2. UNCHANGED <<funds, program, script>>
  BY DEF Environment, Relay, Operate, AgentMint, Deposit, RivalReserves, Deliver
<1>3. faults' \in 0 .. MaxFaults /\ rivals' \in 0 .. MaxRivals
  <2>1. ASSUME NEW p \in Ids, Relay(p) PROVE faults' \in 0 .. MaxFaults /\ rivals' = rivals
    BY <2>1, BoundsAssumption DEF Relay, Delay, Inv, ScriptTyped
  <2>2. CASE RivalReserves
    BY <2>2, BoundsAssumption DEF RivalReserves, Inv, ScriptTyped
  <2> QED
    BY <2>1, <2>2 DEF Environment, Operate, AgentMint, Deposit, Deliver, Inv, ScriptTyped
<1>4. \A r \in Runs : RunOK(r)'
  BY <1>1, <1>2, StayedPut DEF Inv, ChainInv, script
<1>5. \A c \in confirmed' : c \in Ids' \X Confirmations /\ Holds(c)'
  <2> SUFFICES ASSUME NEW c \in confirmed PROVE c \in Ids' \X Confirmations /\ Holds(c)'
    BY <1>2 DEF script
  <2>1. c \in Ids \X Confirmations /\ Holds(c)
    BY DEF Inv, ScriptTyped, ConfirmationsAreTrue
  <2> QED
    BY <1>1, <2>1, ConfirmedStays DEF Inv, Grows
<1>6. ScriptTyped'
  BY <1>2, <1>3, <1>5 DEF ScriptTyped, Inv, script
<1> QED
  BY <1>1, <1>4, <1>5, <1>6 DEF Inv, ConfirmationsAreTrue

LEMMA InvStep ==
  ASSUME Inv, [Next]_vars
  PROVE  Inv'
<1>1. CASE Environment
  BY <1>1, EnvironmentMoves
<1>2. ASSUME NEW r \in Runs, ScriptStep(r) \/ Crash(r) \/ Resume(r) PROVE Inv'
  BY <1>2, ScriptStepMoves, CrashMoves, ResumeMoves, MovedKeeps
<1>3. CASE UNCHANGED vars
  <2>1. ChainInv' /\ Grows
    BY <1>3, QuietChain DEF Inv, vars, chain
  <2>2. UNCHANGED <<funds, faults, rivals, program, script>>
    BY <1>3 DEF vars, script
  <2>3. \A r \in Runs : RunOK(r)'
    BY <2>1, <2>2, StayedPut DEF Inv, ChainInv, script
  <2>4. \A c \in confirmed' : c \in Ids' \X Confirmations /\ Holds(c)'
    <3> SUFFICES ASSUME NEW c \in confirmed PROVE c \in Ids' \X Confirmations /\ Holds(c)'
      BY <2>2 DEF script
    <3>1. c \in Ids \X Confirmations /\ Holds(c)
      BY DEF Inv, ScriptTyped, ConfirmationsAreTrue
    <3> QED
      BY <2>1, <3>1, ConfirmedStays DEF Inv, Grows
  <2>5. ScriptTyped'
    BY <2>2, <2>4 DEF ScriptTyped, Inv, script
  <2> QED
    BY <2>1, <2>3, <2>4, <2>5 DEF Inv, ConfirmationsAreTrue
<1> QED
  BY <1>1, <1>2, <1>3 DEF Next

\* The inductive invariant: the ledger is a chain of typed payments, what is
\* recorded of each is what happened to it, and each run's locals are what its
\* type says, in every interleaving of scripts, executors and faults.
THEOREM InvHolds == Spec => []Inv
<1>1. Init => Inv
  BY InvInit
<1>2. Inv /\ [Next]_vars => Inv'
  BY InvStep
<1> QED
  BY <1>1, <1>2, PTL DEF Spec

\* Whatever fails, is resumed or is minted by somebody else between two steps,
\* each run's payment, receipt, nonce and readings are what its script takes
\* them for, and the state keeps its type (smart-accounts.ts, xrpl.ts).
THEOREM ScriptsStayTyped == Spec => [](TypeOK /\ RunsHaveTypes)
<1>1. Inv => TypeOK /\ RunsHaveTypes
  <2> SUFFICES ASSUME Inv PROVE TypeOK /\ RunsHaveTypes
    OBVIOUS
  <2>1. Len(ledger) \in Nat /\ Ids = 1 .. Len(ledger)
    BY IdsAre DEF Inv, ChainInv
  <2>2. TypeOK
    BY <2>1 DEF TypeOK, Inv, ChainInv, ChainTyped, ScriptTyped, RunOK, LogEntry
  <2>3. RunsHaveTypes
    BY DEF RunsHaveTypes, Inv, RunOK, TypeAt
  <2> QED
    BY <2>2, <2>3
<1> QED
  BY <1>1, InvHolds, PTL

\* What a script reports from a receipt happened to the payment it names: the
\* receipt of another payment, a delayed mint or a skipped memo never passes for
\* an executed operation (findUserOperationExecuted and the other checks of the
\* receipt's logs, smart-accounts.ts:806-929).  A watched user operation is only
\* known by its nonce: some payment that carried it ran.
THEOREM ConfirmationsHold == Spec => []ConfirmationsAreTrue
<1>1. Inv => ConfirmationsAreTrue
  BY DEF Inv
<1> QED
  BY <1>1, InvHolds, PTL

\* A recovery that ends leaves no payment unminted, whichever branch it took and
\* wherever it was resumed (recover-direct-mint-transaction.ts).
THEOREM RecoveriesMint == Spec => []RecoveredIsMinted
<1>1. Inv => RecoveredIsMinted
  <2> SUFFICES ASSUME Inv, NEW r \in Runs, Done(r), loc[r].stuck # 0
               PROVE  Final(loc[r].stuck)
    BY DEF RecoveredIsMinted
  <2>1. /\ program[r] \in DOMAIN Programs /\ pc[r] \in 1 .. Len(Code(r)) + 1
        /\ HasType(r, TypeAt(r)) /\ ~(pc[r] <= Len(Code(r)))
    BY DEF Inv, ScriptTyped, RunOK, Done
  <2>2. Len(Code(r)) \in Nat /\ TypedBy(Code(r), Types[program[r]])
    BY <2>1, ScenariosAssumption, TypesAssumption DEF Code
  <2>3. pc[r] = Len(Code(r)) + 1
    BY <2>1, <2>2
  <2>4. TypeAt(r).safe
    BY <2>2, <2>3 DEF TypedBy, TypeAt
  <2> QED
    BY <2>1, <2>4 DEF HasType
<1> QED
  BY <1>1, InvHolds, PTL

-----------------------------------------------------------------------------
(* Payouts: what each step does to the balance of MPT and bridged loans.   *)

LEMMA AppliedSpares ==
  ASSUME NEW h \in Holdings, NEW op, IsOp(op),
         "mpt" \notin op.gives \union op.sets, "bridged" \notin DOMAIN op.takes \union op.sets
  PROVE  /\ Applied(h, op)["mpt"] <= h["mpt"]
         /\ Applied(h, op)["bridged"] = IF Bridges(op) THEN h["bridged"] + 1 ELSE h["bridged"]
<1>1. "mpt" \in Assets /\ "bridged" \in Assets
  BY PayoutAssumption
<1>2. h["mpt"] \in Nat /\ h["bridged"] \in Nat
  BY <1>1 DEF Holdings
<1>3. Applied(h, op)["mpt"] = Left(h, op, "mpt")
  BY <1>1 DEF Applied
<1>4. Applied(h, op)["bridged"] = IF Bridges(op) THEN Left(h, op, "bridged") + 1
                                  ELSE Left(h, op, "bridged")
  BY <1>1 DEF Applied, Bridges
<1>5. Left(h, op, "bridged") = h["bridged"]
  BY DEF Left
<1>6. Left(h, op, "mpt") <= h["mpt"]
  BY <1>2 DEF Left, IsOp
<1> QED
  BY <1>3, <1>4, <1>5, <1>6

LEMMA HeldAre ==
  ASSUME NEW h \in Holdings
  PROVE  h["mpt"] \in Nat /\ h["bridged"] \in Nat
BY PayoutAssumption DEF Holdings

LEMMA CreditedSpares ==
  ASSUME ChainTyped, NEW p \in Ids
  PROVE  Credited(p)["mpt"] = holds["mpt"] /\ Credited(p)["bridged"] = holds["bridged"]
BY PayoutAssumption DEF ChainTyped, Holdings, Credited

LEMMA BridgingOpsFinite ==
  ASSUME ChainTyped
  PROVE  IsFiniteSet(BridgingOps) /\ Cardinality(BridgingOps) \in Nat
<1>1. IsFiniteSet(Ids)
  <2>1. Len(ledger) \in Int /\ Ids = 1 .. Len(ledger)
    BY IdsAre
  <2> QED
    BY <2>1, FS_Interval
<1>2. BridgingOps \in SUBSET Ids
  BY DEF BridgingOps
<1> QED
  BY <1>1, <1>2, FS_Subset, FS_CardinalityType

LEMMA BridgingOpsNext ==
  ASSUME ChainTyped'
  PROVE  Cardinality(BridgingOps)' \in Nat
<1>1. Len(ledger') \in Int /\ Ids' = 1 .. Len(ledger')
  BY DEF ChainTyped, IsSequence, Ids
<1>2. IsFiniteSet(Ids')
  BY <1>1, FS_Interval
<1>3. BridgingOps' \in SUBSET Ids'
  BY DEF BridgingOps, Ids
<1> QED
  BY <1>2, <1>3, FS_Subset, FS_CardinalityType

\* What a step has to keep of the payments and of the balance: it pays out at
\* most extra MPT for which nothing was bridged.
Spared(extra) ==
  /\ \A p \in Ids' : PaymentSpares(p)'
  /\ holds'["mpt"] + Cardinality(BridgingOps)' + holds["bridged"]
       <= holds["mpt"] + Cardinality(BridgingOps) + holds'["bridged"] + extra

\* No user operation ran.
LEMMA NothingRan ==
  ASSUME ChainInv, ChainInv', Grows, Ids' = Ids, \A p \in Ids : PaymentSpares(p),
         \A p \in Ids : ledger[p].kind \in UserOps /\ ledger'[p].mint = "ran" => ledger[p].mint = "ran",
         NEW extra \in Nat, holds'["mpt"] <= holds["mpt"] + extra, holds'["bridged"] >= holds["bridged"]
  PROVE  Spared(extra)
<1>1. ASSUME NEW p \in Ids
      PROVE  /\ ledger'[p].kind = ledger[p].kind /\ ledger'[p].op = ledger[p].op
             /\ ledger'[p].nonce = ledger[p].nonce /\ ledger[p].nonce \in Nat
             /\ ledger[p].mint = "ran" => ledger'[p].mint = "ran"
  BY DEF Grows, SamePayment, Final, ChainInv, ChainTyped, IsPayment
<1>2. nonce' >= nonce /\ nonce \in Nat /\ nonce' \in Nat
  BY DEF Grows, ChainInv, ChainTyped
<1>3. ASSUME NEW p \in Ids PROVE PaymentSpares(p)'
  BY <1>1, <1>2 DEF PaymentSpares
<1>4. BridgingOps' = BridgingOps
  <2>1. BridgingOps' = {p \in Ids : /\ ledger'[p].kind \in UserOps /\ ledger'[p].mint = "ran"
                                     /\ Bridges(ledger'[p].op)}
    BY DEF BridgingOps, Ids
  <2> QED
    BY <1>1, <2>1 DEF BridgingOps
<1>5. Cardinality(BridgingOps) \in Nat
  BY BridgingOpsFinite DEF ChainInv
<1>6. /\ holds["mpt"] \in Nat /\ holds["bridged"] \in Nat
      /\ holds'["mpt"] \in Nat /\ holds'["bridged"] \in Nat
  BY HeldAre DEF ChainInv, ChainTyped
<1>7. PICK c \in Nat : Cardinality(BridgingOps)' = c /\ Cardinality(BridgingOps) = c
  BY <1>4, <1>5
<1> QED
  BY <1>3, <1>6, <1>7 DEF Spared

LEMMA SettleSpares ==
  ASSUME ChainInv, NEW p \in Ids, Settle(p), \A q \in Ids : PaymentSpares(q)
  PROVE  Spared(0) /\ Ids' = Ids
<1>1. /\ ChainInv' /\ Grows /\ Ids' = Ids
      /\ ledger'[p].mint = Outcome(p)
  BY SettleKeeps
<1>2. /\ ChainTyped /\ IsPayment(ledger[p]) /\ ledger[p].mint \in {"pending", "delayed"}
      /\ holds \in Holdings /\ Credited(p) \in Holdings /\ holds' \in Holdings
  BY <1>1, CreditedTyped DEF ChainInv, ChainTyped, Settle, CanSettle
<1>3. ASSUME NEW q \in Ids, q # p PROVE ledger'[q].mint = ledger[q].mint
  <2>1. ledger'[q] = [ledger[q] EXCEPT !.mint = ledger[q].mint, !.ignored = ledger[q].ignored \/ Skips(p, q)]
    BY <1>3 DEF Settle
  <2>2. DOMAIN ledger[q] = {"by", "kind", "nonce", "op", "target", "net", "sent", "mint", "ignored"}
    BY <1>2 DEF ChainTyped, IsPayment
  <2> QED
    BY <2>1, <2>2
<1>4. CASE ~RunsOp(p)
  <2>1. ledger[p].kind \in UserOps => Outcome(p) = "skipped"
    BY <1>4, <1>2 DEF RunsOp, Outcome, IsPayment
  <2>2. holds'["mpt"] = holds["mpt"] /\ holds'["bridged"] = holds["bridged"]
    BY <1>2, <1>4, CreditedSpares DEF Settle
  <2>3. holds["mpt"] \in Nat /\ holds["bridged"] \in Nat
    BY <1>2, HeldAre
  <2>4. ASSUME NEW q \in Ids, ledger[q].kind \in UserOps, ledger'[q].mint = "ran"
        PROVE  ledger[q].mint = "ran"
    BY <1>1, <1>3, <2>1, <2>4
  <2>5. holds'["mpt"] <= holds["mpt"] + 0 /\ holds'["bridged"] >= holds["bridged"]
    BY <2>2, <2>3
  <2> QED
    BY <1>1, <2>4, <2>5, NothingRan
<1>5. CASE RunsOp(p)
  <2>1. /\ ledger[p].kind \in UserOps /\ Outcome(p) = "ran" /\ nonce' = nonce + 1
        /\ ledger[p].nonce = nonce /\ holds' = Applied(Credited(p), ledger[p].op)
    BY <1>5 DEF RunsOp, Outcome, Settle, CanSettle
  <2>2. nonce \in Nat
    BY <1>2 DEF ChainTyped
  <2>3. ASSUME NEW q \in Ids
        PROVE  /\ ledger'[q].kind = ledger[q].kind /\ ledger'[q].op = ledger[q].op
               /\ ledger'[q].nonce = ledger[q].nonce /\ ledger[q].nonce \in Nat
               /\ ledger'[q].mint = IF q = p THEN "ran" ELSE ledger[q].mint
    BY <1>1, <1>2, <1>3, <2>1 DEF Grows, SamePayment, ChainTyped, IsPayment
  <2>4. ASSUME NEW q \in Ids PROVE PaymentSpares(q)'
    <3>1. PaymentSpares(q)
      OBVIOUS
    <3>2. CASE q = p
      BY <2>1, <2>2, <2>3, <3>1, <3>2 DEF PaymentSpares
    <3>3. CASE q # p
      BY <2>1, <2>2, <2>3, <3>1, <3>3 DEF PaymentSpares
    <3> QED
      BY <3>2, <3>3
  <2>5. BridgingOps' = IF Bridges(ledger[p].op) THEN BridgingOps \cup {p} ELSE BridgingOps
    <3>1. BridgingOps' = {q \in Ids : /\ ledger'[q].kind \in UserOps /\ ledger'[q].mint = "ran"
                                       /\ Bridges(ledger'[q].op)}
      BY <1>1 DEF BridgingOps, Ids
    <3> QED
      BY <2>1, <2>3, <3>1 DEF BridgingOps
  <2>6. p \notin BridgingOps
    BY <1>2 DEF BridgingOps
  <2>7. PICK c \in Nat : c = Cardinality(BridgingOps)
    BY <1>2, BridgingOpsFinite
  <2>8. Cardinality(BridgingOps)' = IF Bridges(ledger[p].op) THEN c + 1 ELSE c
    <3>1. IsFiniteSet(BridgingOps)
      BY <1>2, BridgingOpsFinite
    <3>2. Cardinality(BridgingOps \cup {p}) = c + 1
      BY <2>6, <2>7, <3>1, FS_AddElement
    <3> QED
      BY <2>5, <2>7, <3>2
  <2>9. /\ holds'["mpt"] <= holds["mpt"]
        /\ holds'["bridged"] = IF Bridges(ledger[p].op) THEN holds["bridged"] + 1 ELSE holds["bridged"]
    <3>1. IsOp(ledger[p].op) /\ PaymentSpares(p)
      BY <1>2 DEF IsPayment
    <3>2. /\ Applied(Credited(p), ledger[p].op)["mpt"] <= Credited(p)["mpt"]
          /\ Applied(Credited(p), ledger[p].op)["bridged"] =
               IF Bridges(ledger[p].op) THEN Credited(p)["bridged"] + 1 ELSE Credited(p)["bridged"]
      BY <1>2, <3>1, AppliedSpares DEF PaymentSpares
    <3> QED
      BY <1>2, <2>1, <3>2, CreditedSpares
  <2>10. /\ holds["mpt"] \in Nat /\ holds["bridged"] \in Nat
         /\ holds'["mpt"] \in Nat /\ holds'["bridged"] \in Nat
    BY <1>2, HeldAre
  <2>11. holds'["mpt"] + Cardinality(BridgingOps)' + holds["bridged"]
           <= holds["mpt"] + c + holds'["bridged"] + 0
    BY <2>8, <2>9, <2>10
  <2> QED
    BY <1>1, <2>4, <2>7, <2>11 DEF Spared
<1> QED
  BY <1>1, <1>4, <1>5

\* A step that marks one payment, not as a user operation that ran.
LEMMA MarkSpares ==
  ASSUME ChainInv, ChainInv', Grows, NEW p \in Ids, NEW m \in Statuses,
         ledger' = [ledger EXCEPT ![p].mint = m], ledger[p].kind \in UserOps => m # "ran",
         \A q \in Ids : PaymentSpares(q),
         holds'["mpt"] <= holds["mpt"], holds'["bridged"] >= holds["bridged"]
  PROVE  Spared(0) /\ Ids' = Ids
<1>1. Ids' = Ids /\ \A q \in Ids : ledger'[q].mint = IF q = p THEN m ELSE ledger[q].mint
  BY MarksOne DEF ChainInv
<1>2. \A q \in Ids : ledger[q].kind \in UserOps /\ ledger'[q].mint = "ran" => ledger[q].mint = "ran"
  BY <1>1
<1>3. holds["mpt"] \in Nat /\ holds'["mpt"] <= holds["mpt"] + 0
  BY HeldAre DEF ChainInv, ChainTyped
<1> QED
  BY <1>1, <1>2, <1>3, NothingRan

LEMMA DelaySpares ==
  ASSUME ChainInv, NEW p \in Ids, Delay(p), \A q \in Ids : PaymentSpares(q)
  PROVE  Spared(0) /\ Ids' = Ids
<1>1. ChainInv' /\ Grows
  BY DelayKeeps
<1>2. /\ ledger' = [ledger EXCEPT ![p].mint = "delayed"] /\ holds' = holds
      /\ "delayed" \in Statuses
  BY DEF Delay, Statuses
<1>3. holds["mpt"] \in Nat /\ holds["bridged"] \in Nat
  BY HeldAre DEF ChainInv, ChainTyped
<1>4. holds'["mpt"] <= holds["mpt"] /\ holds'["bridged"] >= holds["bridged"]
  BY <1>2, <1>3
<1> QED
  BY <1>1, <1>2, <1>4, MarkSpares

\* An operation that is carried out outside of a mint.
LEMMA OrderSpares ==
  ASSUME ChainInv, ChainInv', Grows, NEW p \in Ids, ledger[p].kind \notin UserOps,
         ledger' = [ledger EXCEPT ![p].mint = "ran"],
         holds' = Applied(holds, ledger[p].op), \A q \in Ids : PaymentSpares(q)
  PROVE  Spared(0) /\ Ids' = Ids
<1>1. IsOp(ledger[p].op) /\ holds \in Holdings /\ PaymentSpares(p) /\ "ran" \in Statuses
  BY DEF ChainInv, ChainTyped, IsPayment, Statuses
<1>2. /\ holds'["mpt"] <= holds["mpt"]
      /\ holds'["bridged"] = IF Bridges(ledger[p].op) THEN holds["bridged"] + 1 ELSE holds["bridged"]
  BY <1>1, AppliedSpares DEF PaymentSpares
<1>3. holds["bridged"] \in Nat
  BY <1>1, HeldAre
<1>4. holds'["bridged"] >= holds["bridged"]
  BY <1>2, <1>3
<1> QED
  BY <1>1, <1>2, <1>4, MarkSpares

LEMMA OperateSpares ==
  ASSUME ChainInv, NEW p \in Ids, Operate(p) \/ Deposit(p), \A q \in Ids : PaymentSpares(q)
  PROVE  Spared(0) /\ Ids' = Ids
<1>1. ChainInv' /\ Grows
  BY OperateKeeps, DepositKeeps
<1>2. CASE Operate(p) /\ ledger[p].kind = "reserve"
  <2>1. /\ ledger' = [ledger EXCEPT ![p].mint = "reserved"] /\ holds' = holds
        /\ "reserved" \in Statuses
    BY <1>2 DEF Operate, Statuses
  <2>2. holds["mpt"] \in Nat /\ holds["bridged"] \in Nat
    BY HeldAre DEF ChainInv, ChainTyped
  <2>3. holds'["mpt"] <= holds["mpt"] /\ holds'["bridged"] >= holds["bridged"]
    BY <2>1, <2>2
  <2> QED
    BY <1>1, <2>1, <2>3, MarkSpares
<1>3. CASE (Operate(p) /\ ledger[p].kind = "order") \/ Deposit(p)
  <2>1. /\ ledger[p].kind \notin UserOps
        /\ ledger' = [ledger EXCEPT ![p].mint = "ran"]
        /\ holds' = Applied(holds, ledger[p].op)
    BY <1>3 DEF Operate, Deposit, UserOps
  <2> QED
    BY <1>1, <2>1, OrderSpares
<1> QED
  BY <1>2, <1>3 DEF Operate

LEMMA AgentSpares ==
  ASSUME ChainInv, NEW p \in Ids, AgentMint(p), \A q \in Ids : PaymentSpares(q)
  PROVE  Spared(0) /\ Ids' = Ids
<1>1. ChainInv' /\ Grows
  BY AgentKeeps
<1>2. Ids' = Ids
  <2>1. DOMAIN ledger' = Ids
    BY DEF AgentMint
  <2> QED
    BY <2>1, <1>1, IdsAre DEF Ids
<1>3. \A q \in Ids : ledger[q].kind \in UserOps /\ ledger'[q].mint = "ran" => ledger[q].mint = "ran"
  <2> SUFFICES ASSUME NEW q \in Ids, ledger[q].kind \in UserOps, ledger'[q].mint = "ran"
               PROVE  ledger[q].mint = "ran"
    OBVIOUS
  <2>1. q # p
    BY DEF AgentMint, UserOps
  <2>2. ledger'[q] = [ledger[q] EXCEPT !.mint = IF q = ledger[p].target THEN "paid" ELSE @]
    BY <2>1 DEF AgentMint
  <2>3. "mint" \in DOMAIN ledger[q]
    BY DEF ChainInv, ChainTyped, IsPayment
  <2> QED
    BY <2>2, <2>3
<1>4. holds'["mpt"] = holds["mpt"] /\ holds'["bridged"] = holds["bridged"]
  BY CreditedSpares DEF AgentMint, ChainInv
<1>5. holds["mpt"] \in Nat /\ holds["bridged"] \in Nat
  BY HeldAre DEF ChainInv, ChainTyped
<1>6. holds'["mpt"] <= holds["mpt"] + 0 /\ holds'["bridged"] >= holds["bridged"]
  BY <1>4, <1>5
<1> QED
  BY <1>1, <1>2, <1>3, <1>6, NothingRan

\* A step that leaves the ledger as it is.
LEMMA SameLedgerSpares ==
  ASSUME ChainInv, ChainInv', Grows, ledger' = ledger, \A q \in Ids : PaymentSpares(q),
         NEW extra \in Nat, holds'["mpt"] <= holds["mpt"] + extra, holds'["bridged"] >= holds["bridged"]
  PROVE  Spared(extra) /\ Ids' = Ids
<1>1. Ids' = Ids
  BY DEF Ids
<1> QED
  BY <1>1, NothingRan

LEMMA QuietSpares ==
  ASSUME ChainInv, UNCHANGED chain, \A q \in Ids : PaymentSpares(q)
  PROVE  Spared(0) /\ Ids' = Ids
<1>1. ChainInv' /\ Grows /\ ledger' = ledger /\ holds' = holds
  BY QuietChain DEF chain
<1>2. holds["mpt"] \in Nat /\ holds["bridged"] \in Nat
  BY HeldAre DEF ChainInv, ChainTyped
<1>3. holds'["mpt"] <= holds["mpt"] + 0 /\ holds'["bridged"] >= holds["bridged"]
  BY <1>1, <1>2
<1> QED
  BY <1>1, <1>3, SameLedgerSpares

LEMMA EnvironmentSpares ==
  ASSUME ChainInv, Environment, \A q \in Ids : PaymentSpares(q)
  PROVE  Spared(0) /\ Ids' = Ids
<1>1. ChainInv' /\ Grows
  BY EnvironmentKeeps
<1>2. ASSUME NEW p \in Ids, Relay(p) PROVE Spared(0) /\ Ids' = Ids
  BY <1>2, SettleSpares, DelaySpares DEF Relay
<1>3. ASSUME NEW p \in Ids, Operate(p) \/ AgentMint(p) \/ Deposit(p) PROVE Spared(0) /\ Ids' = Ids
  BY <1>3, OperateSpares, AgentSpares
<1>4. /\ holds["mpt"] \in Nat /\ holds["bridged"] \in Nat /\ holds \in Holdings
      /\ "mpt" \in Assets /\ "bridged" \in Assets
  BY HeldAre, PayoutAssumption DEF ChainInv, ChainTyped
<1>5. CASE RivalReserves
  <2>1. ledger' = ledger /\ holds' = holds
    BY <1>5 DEF RivalReserves
  <2>2. holds'["mpt"] <= holds["mpt"] + 0 /\ holds'["bridged"] >= holds["bridged"]
    BY <1>4, <2>1
  <2> QED
    BY <1>1, <2>1, <2>2, SameLedgerSpares
<1>6. ASSUME NEW route \in Routes, Deliver(route) PROVE Spared(0) /\ Ids' = Ids
  <2>1. route[1] # "bridged" /\ route[2] # "mpt"
    BY PayoutAssumption
  <2>2. /\ holds'["mpt"] = IF "mpt" = route[1] THEN holds["mpt"] - 1 ELSE holds["mpt"]
        /\ holds'["bridged"] = IF "bridged" = route[2] THEN holds["bridged"] + 1 ELSE holds["bridged"]
    BY <1>4, <1>6, <2>1 DEF Deliver
  <2>3. holds'["mpt"] <= holds["mpt"] + 0 /\ holds'["bridged"] >= holds["bridged"]
    BY <1>4, <2>2
  <2>4. ledger' = ledger
    BY <1>6 DEF Deliver
  <2> QED
    BY <1>1, <2>3, <2>4, SameLedgerSpares
<1> QED
  BY <1>2, <1>3, <1>5, <1>6 DEF Environment

-----------------------------------------------------------------------------
(* Payouts: how a run goes through its phases.                             *)

SameClaim(r) == loc'[r].pay = loc[r].pay /\ loc'[r].nonce = loc[r].nonce
SendsNothing(r) == \A p \in Ids' : p \in Ids \/ ledger'[p].by # r

LEMMA TwinsStay ==
  ASSUME Grows, NoTwins'
  PROVE  NoTwins
<1> SUFFICES ASSUME NEW p \in Ids, NEW q \in Ids,
                    ledger[p].kind \in UserOps, ledger[q].kind \in UserOps,
                    ledger[p].nonce = ledger[q].nonce
             PROVE  ledger[p].by = ledger[q].by
  BY DEF NoTwins
<1>1. /\ p \in Ids' /\ SamePayment(ledger'[p], ledger[p])
      /\ q \in Ids' /\ SamePayment(ledger'[q], ledger[q])
  BY DEF Grows
<1> QED
  BY <1>1 DEF NoTwins, SamePayment, Ids

LEMMA OpsStay ==
  ASSUME Grows, NEW r, SendsNothing(r)
  PROVE  OpsOf(r)' = OpsOf(r) /\ BridgingOps \subseteq BridgingOps'
<1>1. ASSUME NEW p \in Ids
      PROVE  /\ p \in Ids' /\ SamePayment(ledger'[p], ledger[p])
             /\ ledger[p].mint = "ran" => ledger'[p].mint = "ran"
  BY DEF Grows, Final
<1>2. OpsOf(r)' = {p \in Ids' : ledger'[p].by = r /\ ledger'[p].kind \in UserOps}
  BY DEF OpsOf, Ids
<1>3. BridgingOps' = {p \in Ids' : /\ ledger'[p].kind \in UserOps /\ ledger'[p].mint = "ran"
                                    /\ Bridges(ledger'[p].op)}
  BY DEF BridgingOps, Ids
<1> QED
  BY <1>1, <1>2, <1>3 DEF OpsOf, BridgingOps, SamePayment, SendsNothing

LEMMA PhaseSurvives ==
  ASSUME ChainInv, ChainInv', Grows, NEW r, SendsNothing(r), SameClaim(r),
         NEW ph, HasPhase(r, ph)
  PROVE  HasPhase(r, ph)'
<1>1. OpsOf(r)' = OpsOf(r) /\ BridgingOps \subseteq BridgingOps'
  BY OpsStay
<1>2. ASSUME NEW p \in OpsOf(r)
      PROVE  ledger'[p].nonce = ledger[p].nonce /\ ledger'[p].op = ledger[p].op /\ ledger[p].nonce \in Nat
  BY DEF OpsOf, Grows, SamePayment, ChainInv, ChainTyped, IsPayment
<1>3. nonce \in Nat /\ nonce' \in Nat /\ nonce' >= nonce
  BY DEF ChainInv, ChainTyped, Grows
<1>4. CASE ph = "clear"
  BY <1>1, <1>2, <1>3, <1>4 DEF HasPhase
<1>5. CASE ph \in {"numbered", "sent"}
  BY <1>1, <1>2, <1>5 DEF HasPhase, SameClaim
<1>6. CASE ph = "bridging"
  BY <1>1, <1>2, <1>6 DEF HasPhase, SameClaim
<1>7. CASE ph \in {"backed", "paid"}
  BY <1>1, <1>7, TwinsStay DEF HasPhase
<1>8. CASE ph \notin {"clear", "numbered", "sent", "bridging", "backed", "paid"}
  BY <1>8 DEF HasPhase
<1> QED
  BY <1>4, <1>5, <1>6, <1>7, <1>8

LEMMA PhaseFacts ==
  ASSUME Inv, NEW r \in Runs, Live(r)
  PROVE  /\ PhaseOf(r) \in Phase /\ Spares(Step(r))
         /\ PaysOut(Step(r)) => PhaseOf(r) = "backed"
         /\ Weakens(PhaseAfter(Step(r), PhaseOf(r)), Phases[program[r]][pc[r] + 1])
         /\ Jumps(Step(r)) =>
              Weakens(PhaseOf(r), Phases[program[r]][JumpTo(Step(r), pc[r], Len(Code(r)) + 1)])
         /\ Step(r).do = "Stage" =>
              \A j \in 1 .. Len(Code(r)) + 1 : Phases[program[r]][j] = "any"
<1>1. program[r] \in DOMAIN Programs
  BY DEF Inv, ScriptTyped
<1>2. Len(Code(r)) \in Nat /\ pc[r] \in 1 .. Len(Code(r))
  BY StepFacts
<1>3. PhasedBy(Code(r), Phases[program[r]])
  BY <1>1, PhasesAssumption DEF Code
<1>4. PhaseOf(r) \in Phase
  BY <1>2, <1>3 DEF PhasedBy, PhaseOf
<1> QED
  BY <1>2, <1>3, <1>4 DEF PhasedBy, PhaseOf, Step

\* What the run r's step comes to: it pays out or not, and has what its phase
\* says.
Walks(r, extra) ==
  /\ Spared(extra)
  /\ \A p \in Ids' : p \in Ids \/ ledger'[p].by = r
  /\ HasPhase(r, PhaseOf(r))'
  /\ IF extra = 1 THEN PhaseOf(r) # "paid" /\ PhaseOf(r)' = "paid"
                  ELSE PhaseOf(r)' = "paid" <=> PhaseOf(r) = "paid"

LEMMA WalksStill ==
  ASSUME Inv, NEW r \in Runs, HasPhase(r, PhaseOf(r)), ChainInv', Grows, program' = program,
         Spared(0), Ids' = Ids, SameClaim(r), pc'[r] = pc[r]
  PROVE  Walks(r, 0)
<1>1. PICK ph : ph = PhaseOf(r)
  OBVIOUS
<1>2. PhaseOf(r)' = ph
  BY <1>1 DEF PhaseOf
<1>3. HasPhase(r, ph)'
  BY <1>1, PhaseSurvives DEF SendsNothing, Inv
<1> QED
  BY <1>1, <1>2, <1>3 DEF Walks

\* It comes to a step of phase l where what it leaves is m.
LEMMA WalksTo ==
  ASSUME NEW r \in Runs, program' = program, NEW extra \in {0, 1}, Spared(extra),
         \A p \in Ids' : p \in Ids \/ ledger'[p].by = r,
         NEW m, NEW l, Weakens(m, l), HasPhase(r, m)', l = Phases[program[r]][pc'[r]],
         IF extra = 1 THEN PhaseOf(r) # "paid" /\ m = "paid" ELSE m = "paid" <=> PhaseOf(r) = "paid"
  PROVE  Walks(r, extra)
<1>1. PhaseOf(r)' = l
  BY DEF PhaseOf
<1>4. PICK h : h = l
  OBVIOUS
<1>2. HasPhase(r, h)'
  <2>1. CASE h = m
    BY <2>1
  <2>2. CASE h = "any"
    BY <2>2 DEF HasPhase
  <2> QED
    BY <1>4, <2>1, <2>2 DEF Weakens
<1>3. l = "paid" <=> m = "paid"
  BY DEF Weakens
<1> QED
  BY <1>1, <1>2, <1>3, <1>4 DEF Walks

LEMMA WalksOn ==
  ASSUME Inv, NEW r \in Runs, Live(r), program' = program, NEW extra \in {0, 1}, Spared(extra),
         \A p \in Ids' : p \in Ids \/ ledger'[p].by = r, pc' = [pc EXCEPT ![r] = @ + 1],
         NEW m, m = PhaseAfter(Step(r), PhaseOf(r)), HasPhase(r, m)',
         IF extra = 1 THEN PhaseOf(r) # "paid" /\ m = "paid" ELSE m = "paid" <=> PhaseOf(r) = "paid"
  PROVE  Walks(r, extra)
<1>1. PICK l : l = Phases[program[r]][pc[r] + 1]
  OBVIOUS
<1>2. Weakens(m, l)
  BY <1>1, PhaseFacts
<1>3. l = Phases[program[r]][pc'[r]]
  BY <1>1 DEF Inv, ScriptTyped
<1> QED
  BY <1>2, <1>3, WalksTo

\* The phase is not about this step.
Aside(r) == PhaseAfter(Step(r), PhaseOf(r)) = PhaseOf(r)

LEMMA WalksPast ==
  ASSUME Inv, NEW r \in Runs, Live(r), HasPhase(r, PhaseOf(r)), ChainInv', Grows,
         program' = program, Spared(0), Ids' = Ids, SameClaim(r), Aside(r),
         pc' = [pc EXCEPT ![r] = @ + 1]
  PROVE  Walks(r, 0)
<1>1. PICK m : m = PhaseOf(r)
  OBVIOUS
<1>2. HasPhase(r, m)'
  BY <1>1, PhaseSurvives DEF SendsNothing, Inv
<1>3. m = PhaseAfter(Step(r), PhaseOf(r))
  BY <1>1 DEF Aside
<1>4. \A p \in Ids' : p \in Ids \/ ledger'[p].by = r
  OBVIOUS
<1>5. m = "paid" <=> PhaseOf(r) = "paid"
  BY <1>1
<1> QED
  <2>1. 0 \in {0, 1} /\ 0 # 1
    OBVIOUS
  <2>2. IF 0 = 1 THEN PhaseOf(r) # "paid" /\ m = "paid" ELSE m = "paid" <=> PhaseOf(r) = "paid"
    BY <1>5
  <2> QED
    BY ONLY Inv, r \in Runs, Live(r), program' = program, Spared(0), <1>2, <1>3, <1>4, <2>1, <2>2,
       pc' = [pc EXCEPT ![r] = @ + 1], WalksOn, Zenon

LEMMA WalksOver ==
  ASSUME Inv, NEW r \in Runs, Live(r), HasPhase(r, PhaseOf(r)), ChainInv', Grows,
         program' = program, Spared(0), Ids' = Ids, SameClaim(r), Jumps(Step(r)),
         pc' = [pc EXCEPT ![r] = JumpTo(Step(r), pc[r], Len(Code(r)) + 1)]
  PROVE  Walks(r, 0)
<1>1. PICK m, l : m = PhaseOf(r) /\ l = Phases[program[r]][JumpTo(Step(r), pc[r], Len(Code(r)) + 1)]
  OBVIOUS
<1>2. HasPhase(r, m)'
  BY <1>1, PhaseSurvives DEF SendsNothing, Inv
<1>3. Weakens(m, l)
  BY <1>1, PhaseFacts
<1>4. l = Phases[program[r]][pc'[r]]
  BY <1>1 DEF Inv, ScriptTyped
<1> QED
  BY <1>1, <1>2, <1>3, <1>4, WalksTo

\* The step is one that phases are not about.
OnAside(r) == Step(r).do \notin {"ReadNonce", "Pay", "Await", "Confirm", "Tx"}

LEMMA AsideIs ==
  ASSUME NEW r, OnAside(r)
  PROVE  Aside(r)
BY DEF OnAside, Aside, PhaseAfter, Announces, PaysOut

\* What the run knew for PayoutInv.
Ready(r) == Inv /\ HasPhase(r, PhaseOf(r)) /\ \A p \in Ids : PaymentSpares(p)

\* A step that changes nothing but locals that phases are not about: it goes
\* on, jumps or throws.
LEMMA QuietWalks ==
  ASSUME NEW r \in Runs, Ready(r), Live(r), Quiet, SameClaim(r),
         \/ pc' = [pc EXCEPT ![r] = @ + 1] /\ Aside(r)
         \/ pc' = [pc EXCEPT ![r] = JumpTo(Step(r), pc[r], Len(Code(r)) + 1)] /\ Jumps(Step(r))
         \/ pc' = pc
  PROVE  Walks(r, 0)
<1>1. /\ Inv /\ ChainInv /\ HasPhase(r, PhaseOf(r)) /\ \A p \in Ids : PaymentSpares(p)
  BY DEF Ready, Inv
<1>2. /\ ChainInv' /\ Grows /\ program' = program /\ Spared(0) /\ Ids' = Ids
  BY <1>1, QuietChain, QuietSpares DEF Quiet
<1>3. CASE pc' = pc
  BY <1>1, <1>2, <1>3, WalksStill
<1> QED
  BY <1>1, <1>2, <1>3, WalksPast, WalksOver

LEMMA AssertWalks ==
  ASSUME NEW r \in Runs, Ready(r), Live(r), OnAside(r), NEW guard \in BOOLEAN, Assert(r, guard)
  PROVE  Walks(r, 0)
<1>1. /\ Quiet /\ loc' = loc
      /\ pc' = [pc EXCEPT ![r] = @ + 1] \/ pc' = pc
  BY DEF Assert, Advance, Throw
<1>2. SameClaim(r)
  BY <1>1 DEF SameClaim
<1> QED
  BY <1>1, <1>2, QuietWalks, AsideIs

LEMMA LetWalks ==
  ASSUME NEW r \in Runs, Ready(r), Live(r), OnAside(r), NEW x, Let(r, x),
         x.pay = loc[r].pay, x.nonce = loc[r].nonce
  PROVE  Walks(r, 0)
<1>1. Quiet /\ loc'[r] = x /\ pc' = [pc EXCEPT ![r] = @ + 1]
  BY DEF Let, Advance, Ready, Inv, ScriptTyped
<1>2. SameClaim(r)
  BY <1>1 DEF SameClaim
<1> QED
  BY <1>1, <1>2, QuietWalks, AsideIs

LEMMA LocalsAre ==
  ASSUME Inv, NEW r \in Runs
  PROVE  DOMAIN loc[r] = {"pay", "stuck", "nonce", "goal", "seen", "from", "hit", "receipt"}
BY DEF Inv, RunOK, IsLocals

LEMMA AssertVerbsWalk ==
  ASSUME NEW r \in Runs, Ready(r),
         \/ SameNonce(r) \/ CheckXrp(r) \/ Prove(r) \/ CheckGoal(r) \/ GoalReached(r) \/ Need(r)
  PROVE  Walks(r, 0)
<1>1. /\ Live(r) /\ OnAside(r) /\ Quiet
      /\ (Advance(r, 1) /\ UNCHANGED <<loc, confirmed>>) \/ Throw(r)
  BY DEF SameNonce, CheckXrp, Prove, CheckGoal, GoalReached, Need, At, Assert, OnAside
<1>2. Assert(r, TRUE) \/ Assert(r, FALSE)
  BY <1>1 DEF Assert
<1> QED
  BY <1>1, <1>2, AssertWalks

LEMMA LetVerbsWalk ==
  ASSUME NEW r \in Runs, Ready(r),
         \/ NoteNonce(r) \/ Watch(r) \/ AwaitReservation(r) \/ FindLatest(r)
         \/ PickStuck(r) \/ OwnStuck(r) \/ SetGoal(r) \/ Read(r) \/ Until(r)
  PROVE  Walks(r, 0)
<1>1. DOMAIN loc[r] = {"pay", "stuck", "nonce", "goal", "seen", "from", "hit", "receipt"}
  BY LocalsAre DEF Ready
<1>2. Live(r) /\ OnAside(r)
  BY DEF NoteNonce, Watch, AwaitReservation, FindLatest, PickStuck, OwnStuck, SetGoal, Read,
         Until, At, OnAside
<1>3. \/ Assert(r, FALSE)
      \/ \E x : Let(r, x) /\ x.pay = loc[r].pay /\ x.nonce = loc[r].nonce
  <2> DEFINE Goes == \E x : Let(r, x) /\ x.pay = loc[r].pay /\ x.nonce = loc[r].nonce
  <2> SUFFICES Assert(r, FALSE) \/ Goes
    OBVIOUS
  <2>1. ASSUME NEW v, \/ Let(r, [loc[r] EXCEPT !.goal = v]) \/ Let(r, [loc[r] EXCEPT !.from = v])
                      \/ Let(r, [loc[r] EXCEPT !.hit = v]) \/ Let(r, [loc[r] EXCEPT !.stuck = v])
                      \/ Let(r, [loc[r] EXCEPT !.seen = v])
        PROVE  Goes
    <3>1. ASSUME NEW x, Let(r, x), x.pay = loc[r].pay, x.nonce = loc[r].nonce PROVE Goes
      BY <3>1
    <3>2. CASE Let(r, [loc[r] EXCEPT !.goal = v])
      BY <1>1, <3>1, <3>2
    <3>3. CASE Let(r, [loc[r] EXCEPT !.from = v])
      BY <1>1, <3>1, <3>3
    <3>4. CASE Let(r, [loc[r] EXCEPT !.hit = v])
      BY <1>1, <3>1, <3>4
    <3>5. CASE Let(r, [loc[r] EXCEPT !.stuck = v])
      BY <1>1, <3>1, <3>5
    <3>6. CASE Let(r, [loc[r] EXCEPT !.seen = v])
      BY <1>1, <3>1, <3>6
    <3> QED
      BY <2>1, <3>2, <3>3, <3>4, <3>5, <3>6
  <2>2. CASE NoteNonce(r)
    BY <2>1, <2>2 DEF NoteNonce
  <2>3. CASE Watch(r)
    BY <2>1, <2>3 DEF Watch
  <2>4. CASE AwaitReservation(r)
    BY <2>1, <2>4 DEF AwaitReservation
  <2>5. CASE FindLatest(r)
    BY <2>1, <2>5 DEF FindLatest
  <2>6. CASE PickStuck(r)
    BY <2>1, <2>6 DEF PickStuck
  <2>7. CASE OwnStuck(r)
    BY <2>1, <2>7 DEF OwnStuck
  <2>8. CASE SetGoal(r)
    BY <2>1, <2>8 DEF SetGoal
  <2>9. CASE Read(r)
    BY <2>1, <2>9 DEF Read
  <2>10. CASE Until(r)
    BY <2>10 DEF Until
  <2> HIDE DEF Goes
  <2> QED
    BY <2>2, <2>3, <2>4, <2>5, <2>6, <2>7, <2>8, <2>9, <2>10
<1> QED
  BY <1>2, <1>3, AssertWalks, LetWalks

LEMMA JumpVerbsWalk ==
  ASSUME NEW r \in Runs, Ready(r), IfHas(r) \/ IfLacks(r) \/ Used(r) \/ Diagnose(r)
  PROVE  Walks(r, 0)
<1>1. Live(r) /\ OnAside(r) /\ Quiet
  BY DEF IfHas, IfLacks, Used, Diagnose, At, OnAside, Jump, Assert
<1>2. Len(Code(r)) \in Nat /\ pc[r] \in Nat /\ IsStep(Step(r)) /\ Needs(Step(r), TypeAt(r))
  BY <1>1, StepFacts DEF Ready
<1>3. SameClaim(r)
  <2>1. DOMAIN loc[r] = {"pay", "stuck", "nonce", "goal", "seen", "from", "hit", "receipt"}
    BY LocalsAre DEF Ready
  <2>2. loc' = loc \/ \E v : loc' = [loc EXCEPT ![r].receipt = v]
    BY DEF IfHas, IfLacks, Used, Diagnose, Jump, Assert, Throw
  <2>3. CASE \E v : loc' = [loc EXCEPT ![r].receipt = v]
    <3>1. PICK v : loc' = [loc EXCEPT ![r].receipt = v]
      BY <2>3
    <3>2. loc'[r] = [loc[r] EXCEPT !.receipt = v]
      BY <3>1 DEF Ready, Inv, ScriptTyped
    <3> QED
      BY <2>1, <3>2 DEF SameClaim
  <2> QED
    BY <2>2, <2>3 DEF SameClaim
<1>4. \/ pc' = [pc EXCEPT ![r] = @ + 1]
      \/ pc' = [pc EXCEPT ![r] = JumpTo(Step(r), pc[r], Len(Code(r)) + 1)] /\ Jumps(Step(r))
      \/ pc' = pc
  <2>1. CASE IfHas(r) \/ IfLacks(r)
    <3>1. Step(r).do \in {"IfHas", "IfLacks"} /\ Jumps(Step(r))
      BY <2>1 DEF IfHas, IfLacks, At, Jumps
    <3>2. \/ pc' = [pc EXCEPT ![r] = @ + 1]
          \/ Step(r).n = 0 /\ pc' = [pc EXCEPT ![r] = Len(Code(r)) + 1]
          \/ Step(r).n # 0 /\ pc' = [pc EXCEPT ![r] = @ + Step(r).n]
      BY <2>1 DEF IfHas, IfLacks, Jump
    <3> QED
      BY <3>1, <3>2 DEF JumpTo
  <2>2. CASE Used(r)
    <3>1. Step(r).do = "Used" /\ Jumps(Step(r))
      BY <2>2 DEF Used, At, Jumps
    <3>2. pc' = [pc EXCEPT ![r] = @ + 1] \/ pc' = [pc EXCEPT ![r] = @ + Step(r).n]
      BY <2>2 DEF Used, Advance
    <3> QED
      BY <3>1, <3>2 DEF JumpTo
  <2>3. CASE Diagnose(r)
    <3>1. Step(r).do = "Diagnose"
      BY <2>3 DEF Diagnose, At
    <3>2. \/ pc' = [pc EXCEPT ![r] = @ + 1]
          \/ Step(r).n > 0 /\ pc' = [pc EXCEPT ![r] = @ + Step(r).n]
          \/ pc' = pc
      BY <2>3 DEF Diagnose, Assert, Advance, Throw
    <3> QED
      BY <3>1, <3>2 DEF JumpTo, Jumps
  <2> QED
    BY <2>1, <2>2, <2>3
<1> QED
  BY <1>1, <1>3, <1>4, QuietWalks, AsideIs

\* It goes on, having done what changes what is known of it to m.
LEMMA WalksWith ==
  ASSUME NEW r \in Runs, Ready(r), Live(r), program' = program, Spared(0),
         \A p \in Ids' : p \in Ids \/ ledger'[p].by = r, pc' = [pc EXCEPT ![r] = @ + 1],
         NEW m, m = PhaseAfter(Step(r), PhaseOf(r)), HasPhase(r, m)',
         m = "paid" <=> PhaseOf(r) = "paid"
  PROVE  Walks(r, 0)
<1>1. Inv
  BY DEF Ready
<1>2. 0 \in {0, 1} /\ 0 # 1
  OBVIOUS
<1>3. IF 0 = 1 THEN PhaseOf(r) # "paid" /\ m = "paid" ELSE m = "paid" <=> PhaseOf(r) = "paid"
  OBVIOUS
<1> QED
  BY ONLY <1>1, <1>2, <1>3, r \in Runs, Live(r), program' = program, Spared(0),
     \A p \in Ids' : p \in Ids \/ ledger'[p].by = r, pc' = [pc EXCEPT ![r] = @ + 1],
     m = PhaseAfter(Step(r), PhaseOf(r)), HasPhase(r, m)', WalksOn, Zenon

LEMMA MintWalks ==
  ASSUME NEW r \in Runs, Ready(r), Mint(r)
  PROVE  Walks(r, 0)
<1>1. At(r, "Mint") /\ Live(r) /\ OnAside(r)
  BY DEF Mint, At, OnAside
<1>2. /\ Inv /\ ChainInv /\ HasPhase(r, PhaseOf(r)) /\ \A p \in Ids : PaymentSpares(p)
  BY DEF Ready, Inv
<1>3. PICK p : p = Target(r)
  OBVIOUS
<1>4. p \in Ids
  BY <1>1, <1>2, <1>3, TargetIs
<1>5. ASSUME NEW receipt, receipt \in {"pending", "delayed", "ran", "skipped"}, Received(r, receipt),
             ChainInv', Grows, Spared(0), Ids' = Ids
      PROVE  Walks(r, 0)
  <2>1. ReceiptIs(r, receipt) /\ program' = program /\ pc' = [pc EXCEPT ![r] = @ + 1]
    BY <1>5 DEF Received, ReceiptIs, Advance
  <2>2. SameClaim(r)
    BY <1>2, <1>5, <2>1, ReceiptTyped DEF SameClaim
  <2> QED
    BY <1>1, <1>2, <1>5, <2>1, <2>2, AsideIs, WalksPast
<1>6. CASE Settle(p) /\ UNCHANGED faults /\ Received(r, Outcome(p))
  <2>1. PICK receipt : receipt = Outcome(p)
    OBVIOUS
  <2>2. ChainInv' /\ Grows /\ receipt \in {"ran", "skipped"}
    BY <1>2, <1>4, <1>6, <2>1, SettleKeeps
  <2>3. Spared(0) /\ Ids' = Ids
    BY <1>2, <1>4, <1>6, SettleSpares
  <2> QED
    BY <1>5, <1>6, <2>1, <2>2, <2>3
<1>7. CASE Delay(p) /\ Received(r, "delayed")
  <2>1. ChainInv' /\ Grows
    BY <1>2, <1>4, <1>7, DelayKeeps
  <2>2. Spared(0) /\ Ids' = Ids
    BY <1>2, <1>4, <1>7, DelaySpares
  <2> QED
    BY <1>5, <1>7, <2>1, <2>2
<1>8. CASE Final(p) /\ UNCHANGED <<chain, faults>> /\ Received(r, ledger[p].mint)
  <2>1. PICK receipt : receipt = ledger[p].mint
    OBVIOUS
  <2>2. ChainInv' /\ Grows
    BY <1>2, <1>8, QuietChain
  <2>3. Spared(0) /\ Ids' = Ids
    BY <1>2, <1>8, QuietSpares
  <2>4. receipt \in {"ran", "skipped"}
    BY <1>8, <2>1 DEF Final
  <2> QED
    BY <1>5, <1>8, <2>1, <2>2, <2>3, <2>4
<1>9. CASE Assert(r, FALSE)
  BY <1>1, <1>9, AssertWalks
<1> QED
  BY <1>3, <1>6, <1>7, <1>8, <1>9 DEF Mint

LEMMA StageWalks ==
  ASSUME NEW r \in Runs, Ready(r), Stage(r)
  PROVE  Walks(r, 0)
<1>1. Live(r) /\ Step(r).do = "Stage" /\ Quiet /\ pc' = [pc EXCEPT ![r] = @ + 1]
  BY DEF Stage, At, Let, Advance
<1>2. Inv /\ ChainInv /\ \A p \in Ids : PaymentSpares(p)
  BY DEF Ready, Inv
<1>3. PhaseOf(r) = "any"
  <2>1. /\ Len(Code(r)) \in Nat /\ pc[r] \in 1 .. Len(Code(r))
        /\ \A j \in 1 .. Len(Code(r)) + 1 : Phases[program[r]][j] = "any"
    BY <1>1, <1>2, StepFacts, PhaseFacts
  <2> QED
    BY <2>1 DEF PhaseOf
<1>4. PICK m : m = "any"
  OBVIOUS
<1>5. m = PhaseAfter(Step(r), PhaseOf(r))
  BY <1>1, <1>3, <1>4 DEF PhaseAfter, Announces, PaysOut
<1>6. HasPhase(r, m)' /\ (m = "paid" <=> PhaseOf(r) = "paid")
  BY <1>3, <1>4 DEF HasPhase
<1>7. program' = program /\ Spared(0) /\ \A p \in Ids' : p \in Ids \/ ledger'[p].by = r
  BY <1>1, <1>2, QuietSpares DEF Quiet
<1> QED
  BY <1>1, <1>5, <1>6, <1>7, WalksWith

LEMMA CrashWalks ==
  ASSUME NEW r \in Runs, Ready(r), Crash(r)
  PROVE  Walks(r, 0)
<1>1. /\ Inv /\ ChainInv /\ HasPhase(r, PhaseOf(r)) /\ \A p \in Ids : PaymentSpares(p)
  BY DEF Ready, Inv
<1>2. UNCHANGED chain /\ program' = program /\ pc' = pc /\ loc' = loc
  BY DEF Crash, Throw
<1>3. ChainInv' /\ Grows /\ Spared(0) /\ Ids' = Ids
  BY <1>1, <1>2, QuietChain, QuietSpares
<1>4. SameClaim(r)
  BY <1>2 DEF SameClaim
<1> QED
  BY <1>1, <1>2, <1>3, <1>4, WalksStill

\* A script that can be resumed is not one that pays out.
LEMMA ResumeWalks ==
  ASSUME NEW r \in Runs, Ready(r), Resume(r)
  PROVE  Walks(r, 0)
<1>1. /\ Inv /\ ChainInv /\ \A p \in Ids : PaymentSpares(p)
  BY DEF Ready, Inv
<1>2. PICK i \in Passed(r) : pc' = [pc EXCEPT ![r] = i + 1]
  BY DEF Resume
<1>3. UNCHANGED chain /\ program' = program
  BY DEF Resume
<1>4. program[r] \in DOMAIN Programs /\ pc[r] \in 1 .. Len(Code(r)) + 1
  BY <1>1 DEF Inv, ScriptTyped, RunOK
<1>5. Len(Code(r)) \in Nat /\ PhasedBy(Code(r), Phases[program[r]])
  BY <1>4, ScenariosAssumption, PhasesAssumption DEF Code
<1>6. i \in 1 .. Len(Code(r)) /\ Code(r)[i].do = "Stage"
  BY <1>2, <1>4, <1>5 DEF Passed
<1>7. \A j \in 1 .. Len(Code(r)) + 1 : Phases[program[r]][j] = "any"
  BY <1>5, <1>6 DEF PhasedBy
<1>8. PhaseOf(r) = "any"
  BY <1>4, <1>7 DEF PhaseOf
<1>9. pc'[r] = i + 1 /\ i + 1 \in 1 .. Len(Code(r)) + 1
  BY <1>1, <1>2, <1>5, <1>6 DEF Inv, ScriptTyped
<1>10. PhaseOf(r)' = "any"
  BY <1>3, <1>7, <1>9 DEF PhaseOf
<1>11. Spared(0) /\ Ids' = Ids
  BY <1>1, <1>3, QuietSpares
<1>12. PICK ph : ph = PhaseOf(r)'
  OBVIOUS
<1>13. HasPhase(r, ph)'
  BY <1>10, <1>12 DEF HasPhase
<1> QED
  BY <1>8, <1>10, <1>11, <1>12, <1>13 DEF Walks

LEMMA ThrowWalks ==
  ASSUME NEW r \in Runs, Ready(r), Live(r), Quiet, Throw(r)
  PROVE  Walks(r, 0)
<1>1. loc' = loc /\ pc' = pc
  BY DEF Throw
<1>2. SameClaim(r)
  BY <1>1 DEF SameClaim
<1> QED
  BY <1>1, <1>2, QuietWalks

\* An operation of the run r that ran and bridges backs its payout.
LEMMA Backs ==
  ASSUME NEW r, NEW p \in OpsOf(r), ledger[p].mint = "ran", Bridges(ledger[p].op), ledger' = ledger
  PROVE  HasPhase(r, "backed")'
<1>1. p \in OpsOf(r) \cap BridgingOps
  BY DEF OpsOf, BridgingOps
<1>2. OpsOf(r)' = OpsOf(r) /\ BridgingOps' = BridgingOps
  BY DEF OpsOf, BridgingOps, Ids
<1> QED
  BY <1>1, <1>2 DEF HasPhase

LEMMA BackingSurvives ==
  ASSUME Grows, NEW r, NEW ph \in {"backed", "paid"}, HasPhase(r, ph), NEW m \in {"backed", "paid"}
  PROVE  HasPhase(r, m)'
<1>1. ASSUME NEW p \in OpsOf(r) \cap BridgingOps PROVE p \in OpsOf(r)' /\ p \in BridgingOps'
  <2>1. /\ p \in Ids' /\ SamePayment(ledger'[p], ledger[p]) /\ ledger'[p].mint = "ran"
        /\ ledger[p].by = r /\ ledger[p].kind \in UserOps /\ Bridges(ledger[p].op)
    BY DEF OpsOf, BridgingOps, Grows, Final
  <2> QED
    BY <2>1 DEF OpsOf, BridgingOps, SamePayment, Ids
<1>2. ASSUME NoTwins' PROVE OpsOf(r)' \cap BridgingOps' # {}
  <2>1. OpsOf(r) \cap BridgingOps # {}
    BY <1>2, TwinsStay DEF HasPhase
  <2> QED
    BY <1>1, <2>1
<1> QED
  BY <1>2 DEF HasPhase

\* The watcher knows only the nonce, but without twins that names the payment.
LEMMA AwaitWalks ==
  ASSUME NEW r \in Runs, Ready(r), Await(r)
  PROVE  Walks(r, 0)
<1>1. /\ Live(r) /\ Step(r).do = "Await" /\ Quiet /\ pc' = [pc EXCEPT ![r] = @ + 1] /\ loc' = loc
  BY DEF Await, At, Advance
<1>2. /\ Inv /\ ChainInv /\ HasPhase(r, PhaseOf(r)) /\ \A p \in Ids : PaymentSpares(p)
  BY DEF Ready, Inv
<1>3. /\ program' = program /\ nonce' = nonce /\ ledger' = ledger /\ Ids' = Ids
      /\ Spared(0) /\ \A p \in Ids' : p \in Ids \/ ledger'[p].by = r
  BY <1>1, <1>2, QuietSpares DEF Quiet, chain
<1>4. SameClaim(r)
  BY <1>1 DEF SameClaim
<1>5. ASSUME Step(r).event = "UserOp"
      PROVE  \E q \in Ids : /\ ledger[q].kind \in UserOps /\ ledger[q].nonce = loc[r].nonce
                            /\ ledger[q].mint = "ran" /\ ledger[q].nonce < nonce
  <2>1. PICK i \in loc[r].from .. Len(log) : Matches(r, log[i])
    BY DEF Await
  <2>2. i \in 1 .. Len(log)
    BY <1>2, <2>1, LogTyped DEF Inv, RunOK, IsLocals
  <2>3. NonceRan(loc[r].nonce)
    BY <1>2, <1>5, <2>1, <2>2 DEF Matches, ChainInv, LedgerTold
  <2> QED
    BY <1>2, <2>3 DEF NonceRan, PaymentSpares
<1>6. PICK ph : ph = PhaseOf(r)
  OBVIOUS
<1>7. CASE Step(r).event = "UserOp" /\ ph = "sent"
  <2>1. PICK m : m = "clear"
    OBVIOUS
  <2>2. m = PhaseAfter(Step(r), PhaseOf(r))
    BY <1>1, <1>6, <1>7, <2>1 DEF PhaseAfter, Announces, PaysOut
  <2>3. \A p \in OpsOf(r) : ledger[p].nonce <= loc[r].nonce /\ ledger[p].nonce \in Nat
    BY <1>2, <1>6, <1>7 DEF HasPhase, OpsOf, ChainInv, ChainTyped, IsPayment
  <2>4. loc[r].nonce < nonce /\ nonce \in Nat /\ loc[r].nonce \in Nat
    BY <1>2, <1>5, <1>7 DEF ChainInv, ChainTyped, Inv, RunOK, IsLocals
  <2>5. OpsOf(r)' = OpsOf(r)
    BY <1>3 DEF OpsOf
  <2>6. HasPhase(r, m)'
    BY <1>3, <2>1, <2>3, <2>4, <2>5 DEF HasPhase
  <2>7. m = "paid" <=> PhaseOf(r) = "paid"
    BY <1>6, <1>7, <2>1
  <2> QED
    BY <1>1, <1>3, <2>2, <2>6, <2>7, WalksWith
<1>8. CASE Step(r).event = "UserOp" /\ ph = "bridging"
  <2>1. PICK m : m = "backed"
    OBVIOUS
  <2>2. m = PhaseAfter(Step(r), PhaseOf(r))
    BY <1>1, <1>6, <1>8, <2>1 DEF PhaseAfter, Announces, PaysOut
  <2>3. PICK q \in Ids : /\ ledger[q].kind \in UserOps /\ ledger[q].nonce = loc[r].nonce
                         /\ ledger[q].mint = "ran"
    BY <1>5, <1>8
  <2>4. PICK p : p = loc[r].pay
    OBVIOUS
  <2>5. /\ p \in OpsOf(r) /\ Bridges(ledger[p].op) /\ ledger[p].nonce = loc[r].nonce
        /\ \A o \in OpsOf(r) \ {p} : ledger[o].nonce < loc[r].nonce
    BY <1>2, <1>6, <1>8, <2>4 DEF HasPhase
  <2>6. ASSUME NoTwins PROVE HasPhase(r, m)'
    <3>1. ledger[q].by = r
      BY <2>3, <2>5, <2>6 DEF NoTwins, OpsOf
    <3>2. q = p
      <4>1. q \in OpsOf(r)
        BY <2>3, <3>1 DEF OpsOf
      <4>2. loc[r].nonce \in Nat
        BY <1>2 DEF Inv, RunOK, IsLocals
      <4> QED
        BY <2>3, <2>5, <4>1, <4>2
    <3> QED
      BY <1>3, <2>1, <2>3, <2>5, <3>2, Backs
  <2>7. HasPhase(r, m)'
    <3>1. ASSUME ~NoTwins PROVE HasPhase(r, m)'
      <4>1. ~NoTwins'
        BY <1>3, <3>1 DEF NoTwins
      <4> QED
        BY <2>1, <4>1 DEF HasPhase
    <3> QED
      BY <2>6, <3>1
  <2>8. m = "paid" <=> PhaseOf(r) = "paid"
    BY <1>6, <1>8, <2>1
  <2> QED
    BY <1>1, <1>3, <2>2, <2>7, <2>8, WalksWith
<1>9. CASE ~(Step(r).event = "UserOp" /\ ph \in {"sent", "bridging"})
  <2>1. Aside(r)
    BY <1>1, <1>6, <1>9 DEF Aside, PhaseAfter, Announces, PaysOut
  <2> QED
    BY <1>1, <1>2, <1>4, <2>1, QuietWalks
<1> QED
  BY <1>7, <1>8, <1>9

LEMMA ConfirmWalks ==
  ASSUME NEW r \in Runs, Ready(r), Confirm(r)
  PROVE  Walks(r, 0)
<1>1. /\ At(r, "Confirm") /\ Live(r) /\ Step(r).do = "Confirm" /\ Quiet
  BY DEF Confirm, At
<1>2. /\ Inv /\ ChainInv /\ HasPhase(r, PhaseOf(r)) /\ \A p \in Ids : PaymentSpares(p)
  BY DEF Ready, Inv
<1>3. CASE ~Found(r)
  BY <1>1, <1>3, ThrowWalks DEF Confirm
<1>4. CASE Found(r)
  <2>1. pc' = [pc EXCEPT ![r] = @ + 1] /\ loc' = loc
    BY <1>4 DEF Confirm, Advance
  <2>2. SameClaim(r)
    BY <2>1 DEF SameClaim
  <2>3. CASE Step(r).what = "op" /\ PhaseOf(r) = "bridging"
    <3>1. PICK m : m = "backed"
      OBVIOUS
    <3>2. m = PhaseAfter(Step(r), PhaseOf(r))
      BY <1>1, <2>3, <3>1 DEF PhaseAfter, Announces, PaysOut
    <3>3. PICK p : p = Target(r)
      OBVIOUS
    <3>4. p = loc[r].pay
      <4>1. Needs(Step(r), TypeAt(r))
        BY <1>1, <1>2, StepFacts
      <4> QED
        BY <1>1, <2>3, <3>3, <4>1 DEF Needs, Target
    <3>5. ledger[p].mint = "ran"
      BY <1>1, <1>2, <1>4, <2>3, <3>3, FoundHolds DEF Holds
    <3>6. p \in OpsOf(r) /\ Bridges(ledger[p].op)
      BY <1>2, <2>3, <3>4 DEF HasPhase
    <3>7. /\ program' = program /\ ledger' = ledger
          /\ Spared(0) /\ \A q \in Ids' : q \in Ids \/ ledger'[q].by = r
      BY <1>1, <1>2, QuietSpares DEF Quiet, chain
    <3>8. HasPhase(r, m)'
      BY <3>1, <3>5, <3>6, <3>7, Backs
    <3>9. m = "paid" <=> PhaseOf(r) = "paid"
      BY <2>3, <3>1
    <3> QED
      BY <1>1, <2>1, <3>2, <3>7, <3>8, <3>9, WalksWith
  <2>4. CASE ~(Step(r).what = "op" /\ PhaseOf(r) = "bridging")
    <3>1. Aside(r)
      BY <1>1, <2>4 DEF Aside, PhaseAfter, Announces, PaysOut
    <3> QED
      BY <1>1, <2>1, <2>2, <3>1, QuietWalks
  <2> QED
    BY <2>3, <2>4
<1> QED
  BY <1>3, <1>4

LEMMA ReadNonceWalks ==
  ASSUME NEW r \in Runs, Ready(r), ReadNonce(r)
  PROVE  Walks(r, 0)
<1>1. /\ Live(r) /\ Step(r).do = "ReadNonce" /\ Quiet /\ pc' = [pc EXCEPT ![r] = @ + 1]
  BY DEF ReadNonce, At, Let, Advance
<1>2. /\ Inv /\ ChainInv /\ HasPhase(r, PhaseOf(r)) /\ \A p \in Ids : PaymentSpares(p)
  BY DEF Ready, Inv
<1>3. /\ program' = program /\ nonce' = nonce /\ ledger' = ledger /\ Ids' = Ids /\ Grows
      /\ Spared(0) /\ \A p \in Ids' : p \in Ids \/ ledger'[p].by = r
  BY <1>1, <1>2, QuietChain, QuietSpares DEF Quiet, chain
<1>4. PICK ph, m : ph = PhaseOf(r) /\ m = PhaseAfter(Step(r), ph)
  OBVIOUS
<1>5. HasPhase(r, m)' /\ (m = "paid" <=> ph = "paid")
  <2>1. CASE ph \in {"backed", "paid"}
    <3>1. m = ph
      BY <1>1, <1>4, <2>1 DEF PhaseAfter, Announces, PaysOut
    <3> QED
      BY <1>2, <1>3, <1>4, <2>1, <3>1, BackingSurvives
  <2>2. CASE ph = "clear"
    <3>1. m = "numbered"
      BY <1>1, <1>4, <2>2 DEF PhaseAfter, Announces, PaysOut
    <3>2. loc'[r].nonce = nonce
      <4>1. DOMAIN loc[r] = {"pay", "stuck", "nonce", "goal", "seen", "from", "hit", "receipt"}
        BY <1>2, LocalsAre
      <4>2. loc'[r] = [loc[r] EXCEPT !.nonce = nonce]
        BY <1>2 DEF ReadNonce, Let, Inv, ScriptTyped
      <4> QED
        BY <4>1, <4>2
    <3>3. \A p \in OpsOf(r) : ledger[p].nonce < nonce
      BY <1>2, <1>4, <2>2 DEF HasPhase
    <3>4. OpsOf(r)' = OpsOf(r)
      BY <1>3 DEF OpsOf
    <3> QED
      BY <1>3, <2>2, <3>1, <3>2, <3>3, <3>4 DEF HasPhase
  <2>3. CASE ph \notin {"backed", "paid", "clear"}
    <3>1. m = "any"
      BY <1>1, <1>4, <2>3 DEF PhaseAfter, Announces, PaysOut
    <3> QED
      BY <2>3, <3>1 DEF HasPhase
  <2> QED
    BY <2>1, <2>2, <2>3
<1> QED
  BY <1>1, <1>3, <1>4, <1>5, WalksWith

\* A payment is sent: nothing has been minted by it, and it takes no payout.
LEMMA SendSpares ==
  ASSUME NEW r \in Runs, Ready(r), Pay(r), ~Resumed(r)
  PROVE  /\ Spared(0) /\ Ids' = Ids \union {Len(ledger) + 1} /\ Len(ledger) + 1 \notin Ids
         /\ \A p \in Ids : ledger'[p] = ledger[p]
         /\ LET t == ledger'[Len(ledger) + 1] IN
            /\ t.by = r /\ t.kind = Step(r).kind /\ t.nonce = loc[r].nonce
            /\ t.op.gives = Step(r).op.gives
<1>1. Inv /\ ChainInv /\ ChainTyped /\ \A p \in Ids : PaymentSpares(p)
  BY DEF Ready, Inv, ChainInv
<1>2. At(r, "Pay") /\ Live(r) /\ Step(r).do = "Pay"
  BY DEF Pay, At
<1>3. /\ ledger' = Append(ledger, Payment(r)) /\ UNCHANGED <<nonce, log, holds>>
  BY DEF Pay
<1>4. PICK k, t : k = Len(ledger) + 1 /\ t = Payment(r)
  OBVIOUS
<1>5. /\ IsPayment(t) /\ t.op.emits # "UserOp" /\ t.mint = "pending"
      /\ t.kind = Step(r).kind /\ t.nonce = loc[r].nonce
      /\ t.kind = "E0" => t.target \in Ids
  BY <1>1, <1>2, <1>4, PaymentTyped
<1>6. PICK n \in Nat : n = Len(ledger)
  BY <1>1, IdsAre
<1>7. /\ DOMAIN ledger' = 1 .. n + 1 /\ Ids = 1 .. n
      /\ \A i \in 1 .. n : ledger'[i] = ledger[i]
      /\ ledger'[n + 1] = t
  BY <1>1, <1>3, <1>4, <1>5, <1>6, AppendToSequence, IdsAre DEF ChainTyped, IsSequence
<1>8. /\ Ids' = Ids \union {k} /\ k \notin Ids /\ ledger'[k] = t
      /\ \A p \in Ids : ledger'[p] = ledger[p]
  BY <1>4, <1>6, <1>7 DEF Ids
<1>9. /\ t.op.gives = Step(r).op.gives /\ t.op.sets = Step(r).op.sets
      /\ DOMAIN t.op.takes = DOMAIN Step(r).op.takes \union Step(r).about
  <2>1. DOMAIN Step(r).op = {"takes", "gives", "sets", "emits"}
    BY <1>1, <1>2, StepFacts DEF IsStep, IsOp
  <2>2. t.op = Measured(r, Step(r).op)
    BY <1>4 DEF Payment
  <2> QED
    BY <2>1, <2>2 DEF Measured
<1>10. t.by = r
  BY <1>4 DEF Payment
<1>11. Spares(Step(r))
  BY <1>1, <1>2, PhaseFacts
<1>12. ASSUME NEW p \in Ids' PROVE PaymentSpares(p)'
  <2>1. CASE p \in Ids
    BY <1>1, <1>3, <1>8, <2>1 DEF PaymentSpares
  <2>2. CASE p = k
    <3>1. "mpt" \notin t.op.gives \union t.op.sets
      BY <1>2, <1>9, <1>11 DEF Spares
    <3>2. "bridged" \notin DOMAIN t.op.takes \union t.op.sets
      BY <1>9, <1>11 DEF Spares
    <3> QED
      BY <1>5, <1>8, <2>2, <3>1, <3>2 DEF PaymentSpares
  <2> QED
    BY <1>8, <2>1, <2>2
<1>13. BridgingOps' = BridgingOps
  <2>1. BridgingOps' = {p \in Ids' : /\ ledger'[p].kind \in UserOps /\ ledger'[p].mint = "ran"
                                      /\ Bridges(ledger'[p].op)}
    BY DEF BridgingOps, Ids
  <2> QED
    BY <1>5, <1>8, <2>1 DEF BridgingOps
<1>14. PICK c \in Nat : Cardinality(BridgingOps)' = c /\ Cardinality(BridgingOps) = c
  BY <1>1, <1>13, BridgingOpsFinite
<1>15. holds["mpt"] \in Nat /\ holds["bridged"] \in Nat /\ holds' = holds
  BY <1>1, <1>3, HeldAre DEF ChainTyped
<1>16. Spared(0)
  BY <1>12, <1>14, <1>15 DEF Spared
<1> QED
  BY <1>4, <1>5, <1>8, <1>9, <1>10, <1>16

LEMMA PayWalks ==
  ASSUME NEW r \in Runs, Ready(r), Pay(r)
  PROVE  Walks(r, 0)
<1>1. /\ At(r, "Pay") /\ Live(r) /\ Step(r).do = "Pay" /\ pc' = [pc EXCEPT ![r] = @ + 1]
  BY DEF Pay, At, Advance
<1>2. /\ Inv /\ ChainInv /\ HasPhase(r, PhaseOf(r)) /\ \A p \in Ids : PaymentSpares(p)
  BY DEF Ready, Inv
<1>3. ChainInv' /\ Grows /\ program' = program
  BY <1>2, PayMoves DEF Moved
<1>4. PICK ph, m : ph = PhaseOf(r) /\ m = PhaseAfter(Step(r), ph)
  OBVIOUS
<1>5. Spared(0) /\ \A p \in Ids' : p \in Ids \/ ledger'[p].by = r
  <2>1. CASE Resumed(r)
    BY <1>2, <2>1, QuietSpares DEF Pay, Quiet
  <2>2. CASE ~Resumed(r)
    BY <2>2, SendSpares
  <2> QED
    BY <2>1, <2>2
<1>6. HasPhase(r, m)' /\ (m = "paid" <=> ph = "paid")
  <2>1. CASE ph \in {"backed", "paid"}
    <3>1. m = ph
      BY <1>1, <1>4, <2>1 DEF PhaseAfter, Announces, PaysOut
    <3> QED
      BY <1>2, <1>3, <1>4, <2>1, <3>1, BackingSurvives
  <2>2. CASE ph = "numbered" /\ Step(r).kind \in UserOps
    <3>1. m = IF Bridges(Step(r).op) THEN "bridging" ELSE "sent"
      BY <1>1, <1>4, <2>2 DEF PhaseAfter, Announces, PaysOut
    <3>2. ~Resumed(r)
      BY <2>2 DEF Resumed, UserOps
    <3>3. PICK k, t : k = Len(ledger) + 1 /\ t = ledger'[k]
      OBVIOUS
    <3>4. /\ Ids' = Ids \union {k} /\ k \notin Ids /\ \A p \in Ids : ledger'[p] = ledger[p]
          /\ t.by = r /\ t.kind \in UserOps /\ t.nonce = loc[r].nonce
          /\ t.op.gives = Step(r).op.gives
      BY <2>2, <3>2, <3>3, SendSpares
    <3>5. loc'[r].pay = k /\ loc'[r].nonce = loc[r].nonce
      <4>1. DOMAIN loc[r] = {"pay", "stuck", "nonce", "goal", "seen", "from", "hit", "receipt"}
        BY <1>2, LocalsAre
      <4>2. loc'[r] = [loc[r] EXCEPT !.pay = k]
        BY <1>2, <3>2, <3>3 DEF Pay, Inv, ScriptTyped
      <4> QED
        BY <4>1, <4>2
    <3>6. OpsOf(r)' = OpsOf(r) \union {k}
      <4>1. OpsOf(r)' = {p \in Ids' : ledger'[p].by = r /\ ledger'[p].kind \in UserOps}
        BY DEF OpsOf, Ids
      <4> QED
        BY <3>3, <3>4, <4>1 DEF OpsOf
    <3>7. \A p \in OpsOf(r) : /\ ledger'[p].nonce < loc[r].nonce /\ ledger[p].nonce \in Nat
                              /\ ledger'[p] = ledger[p]
      BY <1>2, <1>4, <2>2, <3>4 DEF HasPhase, OpsOf, ChainInv, ChainTyped, IsPayment
    <3>8. loc[r].nonce \in Nat
      BY <1>2 DEF Inv, RunOK, IsLocals
    <3>9. CASE Bridges(Step(r).op)
      <4>1. m = "bridging"
        BY <3>1, <3>9
      <4>2. Bridges(ledger'[k].op)
        BY <3>3, <3>4, <3>9 DEF Bridges
      <4> QED
        BY <2>2, <3>3, <3>4, <3>5, <3>6, <3>7, <4>1, <4>2 DEF HasPhase
    <3>10. CASE ~Bridges(Step(r).op)
      <4>1. m = "sent"
        BY <3>1, <3>10
      <4> QED
        BY <2>2, <3>3, <3>4, <3>5, <3>6, <3>7, <3>8, <4>1 DEF HasPhase
    <3> QED
      BY <3>9, <3>10
  <2>3. CASE ph \notin {"backed", "paid"} /\ ~(ph = "numbered" /\ Step(r).kind \in UserOps)
    <3>1. m = "any"
      BY <1>1, <1>4, <2>3 DEF PhaseAfter, Announces, PaysOut
    <3> QED
      BY <2>3, <3>1 DEF HasPhase
  <2> QED
    BY <2>1, <2>2, <2>3
<1> QED
  BY <1>1, <1>3, <1>4, <1>5, <1>6, WalksWith

LEMMA TxWalks ==
  ASSUME NEW r \in Runs, Ready(r), Tx(r)
  PROVE  \E extra \in {0, 1} : Walks(r, extra)
<1>1. Live(r) /\ Step(r).do = "Tx"
  BY DEF Tx, At
<1>2. /\ Inv /\ ChainInv /\ HasPhase(r, PhaseOf(r)) /\ \A p \in Ids : PaymentSpares(p)
      /\ holds \in Holdings
  BY DEF Ready, Inv, ChainInv, ChainTyped
<1>3. CASE ~Affords(holds, Step(r).op)
  <2>1. Quiet /\ Throw(r)
    BY <1>3 DEF Tx, Assert
  <2> QED
    BY <1>1, <2>1, ThrowWalks
<1>4. CASE Affords(holds, Step(r).op)
  <2>1. /\ holds' = Applied(holds, Step(r).op) /\ pc' = [pc EXCEPT ![r] = @ + 1]
        /\ program' = program /\ ledger' = ledger /\ loc' = loc
    BY <1>4 DEF Tx, Advance
  <2>2. ChainInv' /\ Grows
    BY <1>2, TxMoves DEF Moved
  <2>3. IsOp(Step(r).op) /\ Spares(Step(r))
    BY <1>1, <1>2, StepFacts, PhaseFacts DEF IsStep
  <2>4. /\ holds["mpt"] \in Nat /\ holds["bridged"] \in Nat
        /\ "mpt" \in Assets /\ "bridged" \in Assets
    BY <1>2, HeldAre, PayoutAssumption
  <2>5. CASE PaysOut(Step(r))
    <3>1. PhaseOf(r) = "backed"
      BY <1>1, <1>2, <2>5, PhaseFacts
    <3>2. PICK m : m = "paid"
      OBVIOUS
    <3>3. m = PhaseAfter(Step(r), PhaseOf(r))
      BY <1>1, <2>5, <3>1, <3>2 DEF PhaseAfter, Announces
    <3>4. HasPhase(r, m)'
      <4>1. PICK ph \in {"backed", "paid"} : ph = PhaseOf(r)
        BY <3>1
      <4> QED
        BY <1>2, <2>2, <3>2, <4>1, BackingSurvives
    <3>5. /\ "mpt" \notin Step(r).op.sets /\ "bridged" \notin Step(r).op.sets
          /\ "bridged" \notin DOMAIN Step(r).op.takes
      BY <2>3 DEF Spares
    <3>6. holds'["mpt"] = Left(holds, Step(r).op, "mpt") + 1
      BY <2>1, <2>4, <2>5, <3>5 DEF Applied, PaysOut
    <3>7. Left(holds, Step(r).op, "mpt") <= holds["mpt"] /\ Left(holds, Step(r).op, "mpt") \in Int
      BY <2>3, <2>4 DEF Left, IsOp
    <3>8. holds'["bridged"] >= holds["bridged"]
      BY <2>1, <2>4, <3>5 DEF Applied, Left
    <3>9. holds'["mpt"] <= holds["mpt"] + 1 /\ 1 \in Nat
      BY <2>4, <3>6, <3>7
    <3>10. Spared(1) /\ Ids' = Ids
      BY <1>2, <2>1, <2>2, <3>8, <3>9, SameLedgerSpares
    <3>11. /\ 1 \in {0, 1}
           /\ IF 1 = 1 THEN PhaseOf(r) # "paid" /\ m = "paid"
                        ELSE m = "paid" <=> PhaseOf(r) = "paid"
      BY <3>1, <3>2
    <3>12. \A p \in Ids' : p \in Ids \/ ledger'[p].by = r
      BY <3>10
    <3>13. Inv /\ program' = program /\ pc' = [pc EXCEPT ![r] = @ + 1]
      BY <1>2, <2>1
    <3>14. Walks(r, 1)
      BY ONLY <1>1, <3>3, <3>4, <3>10, <3>11, <3>12, <3>13, r \in Runs, WalksOn, Zenon
    <3> QED
      BY <3>14
  <2>6. CASE ~PaysOut(Step(r))
    <3>1. "mpt" \notin Step(r).op.gives
      BY <1>1, <2>6 DEF PaysOut
    <3>2. "mpt" \notin Step(r).op.sets /\ "bridged" \notin DOMAIN Step(r).op.takes \union Step(r).op.sets
      BY <2>3 DEF Spares
    <3>3. /\ holds'["mpt"] <= holds["mpt"]
          /\ holds'["bridged"] = IF Bridges(Step(r).op) THEN holds["bridged"] + 1 ELSE holds["bridged"]
      BY <1>2, <2>1, <2>3, <3>1, <3>2, AppliedSpares
    <3>4. holds'["mpt"] <= holds["mpt"] + 0 /\ holds'["bridged"] >= holds["bridged"] /\ 0 \in Nat
      BY <2>4, <3>3
    <3>5. Spared(0) /\ Ids' = Ids
      BY <1>2, <2>1, <2>2, <3>4, SameLedgerSpares
    <3>6. Aside(r)
      BY <1>1, <2>6 DEF Aside, PhaseAfter, Announces
    <3>7. SameClaim(r)
      BY <2>1 DEF SameClaim
    <3>8. Walks(r, 0)
      BY <1>1, <1>2, <2>1, <2>2, <3>5, <3>6, <3>7, WalksPast
    <3> QED
      BY <3>8
  <2> QED
    BY <2>5, <2>6
<1> QED
  BY <1>3, <1>4

-----------------------------------------------------------------------------
(* Payouts: the invariant.                                                 *)

LEMMA ScriptStepWalks ==
  ASSUME NEW r \in Runs, Ready(r), ScriptStep(r) \/ Crash(r) \/ Resume(r)
  PROVE  \E extra \in {0, 1} : Walks(r, extra)
<1>1. CASE Tx(r)
  BY <1>1, TxWalks
<1>2. CASE ~Tx(r)
  <2>1. Walks(r, 0)
    BY <1>2, AssertVerbsWalk, LetVerbsWalk, JumpVerbsWalk, MintWalks, StageWalks, AwaitWalks,
       ConfirmWalks, ReadNonceWalks, PayWalks, CrashWalks, ResumeWalks DEF ScriptStep
  <2> QED
    BY <2>1
<1> QED
  BY <1>1, <1>2

LEMMA PaidCounted ==
  ASSUME PayoutInv
  PROVE  IsFiniteSet(PaidRuns) /\ Cardinality(PaidRuns) \in Nat
BY FS_CardinalityType DEF PayoutInv

\* One run's step keeps the balance.
LEMMA WalkKeeps ==
  ASSUME Inv, PayoutInv, NEW r \in Runs, Moved(r), NEW extra \in {0, 1}, Walks(r, extra)
  PROVE  PayoutInv'
<1>1. ChainInv /\ ChainInv' /\ Grows /\ program' = program
  BY DEF Inv, Moved
<1>2. ASSUME NEW q \in Runs, q # r PROVE HasPhase(q, PhaseOf(q))' /\ PhaseOf(q)' = PhaseOf(q)
  <2>1. loc'[q] = loc[q] /\ pc'[q] = pc[q]
    BY <1>2 DEF Moved, Inv, ScriptTyped
  <2>2. SameClaim(q)
    BY <2>1 DEF SameClaim
  <2>3. SendsNothing(q)
    BY <1>2 DEF Walks, SendsNothing
  <2>4. PICK ph : ph = PhaseOf(q)
    OBVIOUS
  <2>5. PhaseOf(q)' = ph
    BY <1>1, <2>1, <2>4 DEF PhaseOf
  <2>6. HasPhase(q, ph)
    BY <2>4 DEF PayoutInv
  <2>7. HasPhase(q, ph)'
    BY <1>1, <2>2, <2>3, <2>6, PhaseSurvives
  <2> QED
    BY <2>4, <2>5, <2>7
<1>3. \A q \in Runs : HasPhase(q, PhaseOf(q))'
  <2> SUFFICES ASSUME NEW q \in Runs PROVE HasPhase(q, PhaseOf(q))'
    OBVIOUS
  <2>1. HasPhase(r, PhaseOf(r))'
    BY DEF Walks
  <2> QED
    BY <1>2, <2>1
<1>4. PICK c \in Nat : c = Cardinality(PaidRuns)
  BY PaidCounted
<1>5. IsFiniteSet(PaidRuns)' /\ Cardinality(PaidRuns)' = c + extra
  <2>1. PaidRuns' = {q \in Runs : PhaseOf(q)' = "paid"}
    BY DEF PaidRuns
  <2>2. \A q \in Runs \ {r} : q \in PaidRuns' <=> q \in PaidRuns
    BY <1>2, <2>1 DEF PaidRuns
  <2>3. CASE extra = 1
    <3>1. r \notin PaidRuns /\ r \in PaidRuns'
      BY <2>1, <2>3 DEF Walks, PaidRuns
    <3>2. PaidRuns' = PaidRuns \union {r}
      BY <2>1, <2>2, <3>1 DEF PaidRuns
    <3>3. IsFiniteSet(PaidRuns \union {r}) /\ Cardinality(PaidRuns \union {r}) = c + 1
      BY <1>4, <3>1, FS_AddElement, PaidCounted
    <3> QED
      BY <2>3, <3>2, <3>3
  <2>4. CASE extra = 0
    <3>1. r \in PaidRuns' <=> r \in PaidRuns
      BY <2>1, <2>4 DEF Walks, PaidRuns
    <3>2. PaidRuns' = PaidRuns
      BY <2>1, <2>2, <3>1 DEF PaidRuns
    <3> QED
      BY <1>4, <2>4, <3>2, PaidCounted
  <2> QED
    BY <2>3, <2>4
<1>6. Spared(extra)
  BY DEF Walks
<1>7. PICK b, d \in Nat : b = Cardinality(BridgingOps) /\ d = Cardinality(BridgingOps)'
  <2>1. Cardinality(BridgingOps) \in Nat
    BY <1>1, BridgingOpsFinite DEF ChainInv
  <2>2. Cardinality(BridgingOps)' \in Nat
    BY <1>1, BridgingOpsNext DEF ChainInv
  <2> QED
    BY <2>1, <2>2
<1>8. /\ holds["mpt"] \in Nat /\ holds["bridged"] \in Nat
      /\ holds'["mpt"] \in Nat /\ holds'["bridged"] \in Nat
  BY <1>1, HeldAre DEF ChainInv, ChainTyped
<1>9. holds["mpt"] + b <= holds["bridged"] + c
  BY <1>4, <1>7 DEF PayoutInv
<1>10. holds'["mpt"] + d + holds["bridged"] <= holds["mpt"] + b + holds'["bridged"] + extra
  BY <1>6, <1>7 DEF Spared
<1>11. holds'["mpt"] + d <= holds'["bridged"] + (c + extra)
  BY <1>8, <1>9, <1>10
<1>12. \A p \in Ids' : PaymentSpares(p)'
  BY <1>6 DEF Spared
<1> QED
  BY <1>3, <1>5, <1>7, <1>11, <1>12 DEF PayoutInv, Ids

LEMMA PayoutInit ==
  ASSUME Init
  PROVE  PayoutInv
<1>1. /\ ledger = << >> /\ pc = [r \in Runs |-> 1]
      /\ program \in [Runs -> DOMAIN Programs] /\ holds \in Holdings
      /\ holds["mpt"] <= holds["bridged"]
  BY ScenariosAssumption, PayoutAssumption DEF Init
<1>2. Ids = {}
  BY <1>1 DEF Ids
<1>3. \A r \in Runs : PhaseOf(r) \in {"any", "clear"}
  BY <1>1, PhasesAssumption DEF PhaseOf, PhasedBy
<1>4. \A r \in Runs : HasPhase(r, PhaseOf(r))
  BY <1>2, <1>3 DEF HasPhase, OpsOf
<1>5. PaidRuns = {} /\ BridgingOps = {}
  BY <1>2, <1>3 DEF PaidRuns, BridgingOps
<1>6. IsFiniteSet(PaidRuns) /\ Cardinality(PaidRuns) = 0 /\ Cardinality(BridgingOps) = 0
  BY <1>5, FS_EmptySet
<1>7. holds["mpt"] \in Nat /\ holds["bridged"] \in Nat
  BY <1>1, HeldAre
<1> QED
  BY <1>1, <1>2, <1>4, <1>6, <1>7 DEF PayoutInv

LEMMA PayoutStep ==
  ASSUME Inv, PayoutInv, [Next]_vars
  PROVE  PayoutInv'
<1>1. ASSUME NEW r \in Runs, ScriptStep(r) \/ Crash(r) \/ Resume(r) PROVE PayoutInv'
  <2>1. Moved(r)
    BY <1>1, ScriptStepMoves, CrashMoves, ResumeMoves
  <2>2. Ready(r)
    BY DEF Ready, PayoutInv
  <2>3. PICK extra \in {0, 1} : Walks(r, extra)
    BY <1>1, <2>2, ScriptStepWalks
  <2> QED
    BY <2>1, <2>3, WalkKeeps
<1>2. CASE Environment \/ UNCHANGED vars
  <2>1. ChainInv /\ \A p \in Ids : PaymentSpares(p)
    BY DEF Inv, PayoutInv
  <2>2. /\ ChainInv' /\ Grows /\ Spared(0) /\ Ids' = Ids
    <3>1. CASE Environment
      BY <2>1, <3>1, EnvironmentKeeps, EnvironmentSpares
    <3>2. CASE UNCHANGED vars
      BY <2>1, <3>2, QuietChain, QuietSpares DEF vars, chain
    <3> QED
      BY <1>2, <3>1, <3>2
  <2>3. program' = program /\ pc' = pc /\ loc' = loc
    BY <1>2 DEF Environment, Relay, Operate, AgentMint, Deposit, RivalReserves, Deliver, vars, script
  <2>4. ASSUME NEW q \in Runs PROVE HasPhase(q, PhaseOf(q))' /\ PhaseOf(q)' = PhaseOf(q)
    <3>1. SameClaim(q) /\ SendsNothing(q)
      BY <2>2, <2>3 DEF SameClaim, SendsNothing
    <3>2. PICK ph : ph = PhaseOf(q)
      OBVIOUS
    <3>3. PhaseOf(q)' = ph
      BY <2>3, <3>2 DEF PhaseOf
    <3>4. HasPhase(q, ph)
      BY <3>2 DEF PayoutInv
    <3>5. HasPhase(q, ph)'
      BY <2>1, <2>2, <3>1, <3>4, PhaseSurvives
    <3> QED
      BY <3>2, <3>3, <3>5
  <2>5. PICK c \in Nat : c = Cardinality(PaidRuns)
    BY PaidCounted
  <2>6. IsFiniteSet(PaidRuns)' /\ Cardinality(PaidRuns)' = c
    <3>1. PaidRuns' = PaidRuns
      <4>1. PaidRuns' = {q \in Runs : PhaseOf(q)' = "paid"}
        BY DEF PaidRuns
      <4> QED
        BY <2>4, <4>1 DEF PaidRuns
    <3> QED
      BY <2>5, <3>1, PaidCounted
  <2>7. PICK b, d \in Nat : b = Cardinality(BridgingOps) /\ d = Cardinality(BridgingOps)'
    <3>1. Cardinality(BridgingOps) \in Nat
      BY <2>1, BridgingOpsFinite DEF ChainInv
    <3>2. Cardinality(BridgingOps)' \in Nat
      BY <2>2, BridgingOpsNext DEF ChainInv
    <3> QED
      BY <3>1, <3>2
  <2>8. /\ holds["mpt"] \in Nat /\ holds["bridged"] \in Nat
        /\ holds'["mpt"] \in Nat /\ holds'["bridged"] \in Nat
    BY <2>1, <2>2, HeldAre DEF ChainInv, ChainTyped
  <2>9. holds["mpt"] + b <= holds["bridged"] + c
    BY <2>5, <2>7 DEF PayoutInv
  <2>10. holds'["mpt"] + d + holds["bridged"] <= holds["mpt"] + b + holds'["bridged"] + 0
    BY <2>2, <2>7 DEF Spared
  <2>11. holds'["mpt"] + d <= holds'["bridged"] + c
    BY <2>8, <2>9, <2>10
  <2>12. \A p \in Ids' : PaymentSpares(p)'
    BY <2>2 DEF Spared
  <2> QED
    BY <2>4, <2>6, <2>7, <2>11, <2>12 DEF PayoutInv, Ids
<1> QED
  BY <1>1, <1>2 DEF Next

\* The inductive invariant: what the phase of each run says of its payments is
\* so, and the MPT with the operations that bridged are no more than the bridged
\* loans with the runs that paid (transferEventAmountMptToXrplAddress).
THEOREM PayoutInvHolds == Spec => [](Inv /\ PayoutInv)
<1>1. Init => Inv /\ PayoutInv
  BY InvInit, PayoutInit
<1>2. (Inv /\ PayoutInv) /\ [Next]_vars => (Inv /\ PayoutInv)'
  BY InvStep, PayoutStep
<1> QED
  BY <1>1, <1>2, PTL DEF Spec

\* Each run that was paid has bridged something of its own, so without twins
\* there are no more of them than operations that bridged.
LEMMA PaidAreBacked ==
  ASSUME Inv, PayoutInv, NoTwins
  PROVE  Cardinality(PaidRuns) <= Cardinality(BridgingOps)
<1> DEFINE f == [r \in PaidRuns |-> CHOOSE p : p \in OpsOf(r) \cap BridgingOps]
<1>1. ASSUME NEW r \in PaidRuns PROVE f[r] \in BridgingOps /\ ledger[f[r]].by = r
  <2>1. OpsOf(r) \cap BridgingOps # {}
    BY NoTwins DEF PayoutInv, HasPhase, PaidRuns
  <2>2. f[r] \in OpsOf(r) \cap BridgingOps
    BY <2>1
  <2> QED
    BY <2>2 DEF OpsOf
<1>2. DOMAIN f = PaidRuns /\ f = [r \in PaidRuns |-> f[r]]
  OBVIOUS
<1> HIDE DEF f
<1>3. f \in [PaidRuns -> BridgingOps]
  BY <1>1, <1>2
<1>4. IsInjective(f)
  BY <1>1, <1>2 DEF IsInjective
<1>5. f \in Injection(PaidRuns, BridgingOps)
  BY <1>3, <1>4 DEF Injection
<1>6. IsFiniteSet(BridgingOps)
  BY BridgingOpsFinite DEF Inv, ChainInv
<1> QED
  BY <1>5, <1>6, FS_Injection

\* The vault pays out no more MPT than was bridged, unless two runs are on one
\* nonce: each script that pays has seen its own bridging operation run, by its
\* nonce or by its receipt, and pays once (sendMemoFieldInstruction and
\* transferEventAmountMptToXrplAddress of the lending scripts).
THEOREM PayoutsAreBacked == Spec => []PaysOutWhatWasBridged
<1>1. Inv /\ PayoutInv => PaysOutWhatWasBridged
  <2> SUFFICES ASSUME Inv, PayoutInv, NoTwins PROVE holds["mpt"] <= holds["bridged"]
    BY DEF PaysOutWhatWasBridged
  <2>1. PICK c, b : c = Cardinality(PaidRuns) /\ b = Cardinality(BridgingOps)
    OBVIOUS
  <2>2. c <= b /\ c \in Nat /\ b \in Nat
    BY <2>1, PaidAreBacked, PaidCounted, BridgingOpsFinite DEF Inv, ChainInv
  <2>3. holds["mpt"] + b <= holds["bridged"] + c
    BY <2>1 DEF PayoutInv
  <2>4. holds["mpt"] \in Nat /\ holds["bridged"] \in Nat
    BY HeldAre DEF Inv, ChainInv, ChainTyped
  <2> QED
    BY <2>2, <2>3, <2>4
<1> QED
  BY <1>1, PayoutInvHolds, PTL

-----------------------------------------------------------------------------
(* Arithmetic of whole windows.                                            *)

LEMMA DivBounds ==
  ASSUME NEW n \in Nat, NEW size \in Nat \ {0}
  PROVE  /\ n \div size \in Nat
         /\ (n \div size) * size <= n
         /\ n < (n \div size) * size + size
BY SMT

LEMMA DivUnique ==
  ASSUME NEW n \in Nat, NEW size \in Nat \ {0}, NEW q \in Nat,
         q * size <= n, n < q * size + size
  PROVE  n \div size = q
BY SMT

LEMMA Products ==
  ASSUME NEW q \in Nat, NEW x \in Nat
  PROVE  q * x \in Nat /\ (q + 1) * x = q * x + x /\ 0 * x = 0
BY SMT

\* A volume above the cap is scheduled a window or more after the start.
LEMMA ScheduledLater ==
  ASSUME NEW size \in Nat \ {0}, NEW cap \in Nat \ {0}, NEW volume \in Nat, cap <= volume
  PROVE  (size * volume) \div cap >= size
BY SMT

LEMMA DrainedTwice ==
  ASSUME NEW minted \in Nat, NEW a \in Nat, NEW b \in Nat
  PROVE  Drained(Drained(minted, a), b) = Drained(minted, a + b)
BY DEF Drained

LEMMA DrainedTyped ==
  ASSUME NEW minted \in Nat, NEW a \in Nat
  PROVE  Drained(minted, a) \in Nat /\ Drained(minted, 0) = minted
BY DEF Drained

-----------------------------------------------------------------------------
(* The replay as one formula, and its step.                                *)

WindowState == [start : Nat, minted : Nat]
Replayed(state, size, cap, time) ==
  [start |-> state.start + ((time - state.start) \div size) * size,
   minted |-> Drained(state.minted, ((time - state.start) \div size) * cap)]

LEMMA ReplayedTyped ==
  ASSUME NEW state \in WindowState, NEW size \in Nat \ {0}, NEW cap \in Nat,
         NEW time \in Nat, state.start <= time
  PROVE  /\ Replayed(state, size, cap, time) \in WindowState
         /\ Replayed(state, size, cap, time).start <= time
         /\ time < Replayed(state, size, cap, time).start + size
<1> DEFINE q == (time - state.start) \div size
<1>1. state.start \in Nat /\ state.minted \in Nat /\ time - state.start \in Nat
  BY DEF WindowState
<1>2. q \in Nat /\ q * size <= time - state.start /\ time - state.start < q * size + size
  BY <1>1, DivBounds
<1>3. q * cap \in Nat /\ q * size \in Nat
  BY <1>2
<1>4. Drained(state.minted, q * cap) \in Nat
  BY <1>1, <1>3, DrainedTyped
<1>5. Replayed(state, size, cap, time) = [start |-> state.start + q * size,
                                          minted |-> Drained(state.minted, q * cap)]
  BY DEF Replayed
<1> HIDE DEF q
<1>6. state.start + q * size \in Nat
  BY <1>1, <1>3
<1> QED BY <1>1, <1>2, <1>3, <1>4, <1>5, <1>6 DEF WindowState

\* Within its own window a state is replayed to itself.
LEMMA ReplayedFresh ==
  ASSUME NEW state \in WindowState, NEW size \in Nat \ {0}, NEW cap \in Nat,
         NEW time \in Nat, state.start <= time, time < state.start + size
  PROVE  Replayed(state, size, cap, time) = state
<1>1. state.start \in Nat /\ state.minted \in Nat /\ time - state.start \in Nat
  BY DEF WindowState
<1>2. 0 * size <= time - state.start /\ time - state.start < 0 * size + size
  BY <1>1
<1>3. (time - state.start) \div size = 0
  BY <1>1, <1>2, DivUnique
<1>4. 0 * cap = 0 /\ 0 * size = 0
  BY Products
<1>5. Drained(state.minted, 0) = state.minted
  BY <1>1, DrainedTyped
<1>6. Replayed(state, size, cap, time) = [start |-> state.start + 0, minted |-> Drained(state.minted, 0)]
  BY <1>3, <1>4 DEF Replayed
<1>7. Replayed(state, size, cap, time) = [start |-> state.start, minted |-> state.minted]
  BY <1>1, <1>5, <1>6
<1> QED BY <1>7 DEF WindowState

\* One second more: the replay slides exactly when its window ends.
LEMMA ReplayedNext ==
  ASSUME NEW state \in WindowState, NEW size \in Nat \ {0}, NEW cap \in Nat,
         NEW time \in Nat, state.start <= time,
         NEW here, here = Replayed(state, size, cap, time)
  PROVE  Replayed(state, size, cap, time + 1) =
           IF time + 1 >= here.start + size
           THEN [start |-> here.start + size, minted |-> Drained(here.minted, cap)]
           ELSE here
<1> DEFINE idle == time - state.start
           q == idle \div size
<1>1. state.start \in Nat /\ state.minted \in Nat /\ idle \in Nat
      /\ (time + 1) - state.start = idle + 1
  BY DEF WindowState
<1>2. q \in Nat /\ q * size <= idle /\ idle < q * size + size
  BY <1>1, DivBounds
<1>3. here = [start |-> state.start + q * size, minted |-> Drained(state.minted, q * cap)]
  BY DEF Replayed
<1>4. Replayed(state, size, cap, time + 1) =
        [start |-> state.start + ((idle + 1) \div size) * size,
         minted |-> Drained(state.minted, ((idle + 1) \div size) * cap)]
  BY <1>1 DEF Replayed
<1>5. q * size \in Nat /\ (q + 1) * size = q * size + size
      /\ q * cap \in Nat /\ (q + 1) * cap = q * cap + cap
  BY <1>2, Products
<1> HIDE DEF q
<1>6. time = state.start + idle
  BY <1>1
<1> HIDE DEF idle
<1>10. idle + 1 \in Nat /\ q + 1 \in Nat
  BY <1>1, <1>2
<1>7. here.start = state.start + q * size
  BY <1>3
<1>8. CASE time + 1 >= here.start + size
  <2>1. idle + 1 = q * size + size
    BY <1>1, <1>2, <1>5, <1>6, <1>7, <1>8, <1>10
  <2>2. (idle + 1) \div size = q + 1
    <3>1. (q + 1) * size <= idle + 1 /\ idle + 1 < (q + 1) * size + size
      BY <2>1, <1>5, <1>10
    <3> QED BY ONLY <3>1, <1>10, DivUnique, size \in Nat \ {0}, Zenon
  <2>3. Drained(Drained(state.minted, q * cap), cap) = Drained(state.minted, q * cap + cap)
    <3>1. \A minted, a, b \in Nat : Drained(Drained(minted, a), b) = Drained(minted, a + b)
      BY DrainedTwice
    <3>2. state.minted \in Nat /\ q * cap \in Nat /\ cap \in Nat
      BY <1>1, <1>5
    <3> QED BY ONLY <3>1, <3>2, Zenon
  <2>4. state.start + (q + 1) * size = (state.start + q * size) + size
    BY <1>1, <1>5
  <2>5. Drained(state.minted, (q + 1) * cap) = Drained(here.minted, cap)
    BY ONLY <1>3, <1>5, <2>3, Zenon
  <2>6. here.start + size = state.start + (q + 1) * size
    BY ONLY <1>7, <2>4, Zenon
  <2> QED BY ONLY <1>4, <1>8, <2>2, <2>5, <2>6, Zenon
<1>9. CASE ~(time + 1 >= here.start + size)
  <2>1. q * size <= idle + 1 /\ idle + 1 < q * size + size
    BY <1>1, <1>2, <1>5, <1>6, <1>7, <1>9, <1>10
  <2>2. (idle + 1) \div size = q
    BY ONLY <2>1, <1>2, <1>10, DivUnique, size \in Nat \ {0}, Zenon
  <2> QED BY ONLY <1>3, <1>4, <1>9, <2>2, Zenon
<1> QED BY <1>8, <1>9

-----------------------------------------------------------------------------
(* The state the script replays is the limiter's.                          *)

\* What the script reads was written in the past.
Ordered == \A w \in Windows : written[w].start <= now
\* Skipping the windows that passed at once is sliding through them.
LiveIsReplayed == \A w \in Windows :
  live[w] = Replayed(written[w], Size[w], limit[w], now)
\* No window begins in 1970, and one no mint touched is empty.
Started == \A w \in Windows : live[w].start > 0 /\ (Touched(w) \/ written[w].minted = 0)
LimitsInv == LimitsTypeOK /\ Ordered /\ LiveIsReplayed /\ Started

\* Where the limiter is: in the window that contains the present.
LEMMA LiveWindow ==
  ASSUME LimitsInv, NEW w \in Windows
  PROVE  /\ live[w] = Replayed(written[w], Size[w], limit[w], now)
         /\ live[w] \in WindowState
         /\ live[w].start <= now /\ now < live[w].start + Size[w]
         /\ written[w] \in WindowState /\ written[w].start <= now
         /\ Size[w] \in Nat \ {0} /\ limit[w] \in Nat /\ now \in Nat
<1>1. written[w] \in WindowState /\ written[w].start <= now
      /\ Size[w] \in Nat \ {0} /\ limit[w] \in Nat /\ now \in Nat
  BY LimitsAssumption DEF LimitsInv, LimitsTypeOK, WindowStates, WindowState, Ordered
<1>2. live[w] = Replayed(written[w], Size[w], limit[w], now)
  BY DEF LimitsInv, LiveIsReplayed
<1> QED BY <1>1, <1>2, ReplayedTyped

\* The script replays a window as the limiter slides it, unless no mint ever
\* touched it: then it takes it to be empty, and to begin at 0.
LEMMA ReplayFormula ==
  ASSUME LimitsInv, NEW w \in Windows
  PROVE  /\ Touched(w) => ComputeWindowState(w) = live[w]
         /\ ComputeWindowState(w).minted = live[w].minted
<1>1. written[w] \in WindowState /\ Size[w] \in Nat \ {0} /\ limit[w] \in Nat
      /\ now \in Nat /\ written[w].start <= now
  BY LiveWindow
<1>2. live[w] = Replayed(written[w], Size[w], limit[w], now)
  BY LiveWindow
<1>3. CASE ~Touched(w)
  <2>1. written[w].minted = 0 /\ ComputeWindowState(w) = written[w]
    BY <1>3 DEF LimitsInv, Started, Touched, ComputeWindowState
  <2>2. (now - written[w].start) \div Size[w] \in Nat
    BY <1>1, DivBounds DEF WindowState
  <2>3. ((now - written[w].start) \div Size[w]) * limit[w] \in Nat
    BY <1>1, <2>2
  <2>4. live[w].minted = Drained(0, ((now - written[w].start) \div Size[w]) * limit[w])
    BY <1>2, <2>1 DEF Replayed
  <2>5. live[w].minted = 0
    BY <2>3, <2>4 DEF Drained
  <2> QED BY <1>3, <2>1, <2>5
<1>4. CASE Touched(w) /\ now >= written[w].start + Size[w]
  <2>1. ComputeWindowState(w) = live[w]
    BY <1>2, <1>4 DEF ComputeWindowState, Replayed, Touched
  <2> QED BY <2>1
<1>5. CASE Touched(w) /\ ~(now >= written[w].start + Size[w])
  <2>1. now < written[w].start + Size[w]
    BY <1>1, <1>5 DEF WindowState
  <2>2. live[w] = written[w]
    BY ONLY <1>1, <1>2, <2>1, ReplayedFresh
  <2>3. ComputeWindowState(w) = live[w]
    BY <1>5, <2>2 DEF ComputeWindowState
  <2> QED BY <2>3
<1> QED BY <1>3, <1>4, <1>5

LEMMA InitLimits == LimitsInit => LimitsInv
<1> SUFFICES ASSUME LimitsInit PROVE LimitsInv
  OBVIOUS
<1>1. now = StartTime /\ now \in Nat \ {0}
  BY LimitsAssumption DEF LimitsInit
<1>2. ASSUME NEW w \in Windows
      PROVE  /\ written[w] = [start |-> 0, minted |-> 0]
             /\ live[w] = Replayed(written[w], Size[w], limit[w], now)
             /\ live[w].start \in Nat \ {0} /\ live[w].minted = 0
  <2> DEFINE q == now \div Size[w]
  <2>1. written[w] = [start |-> 0, minted |-> 0] /\ live[w] = [start |-> q * Size[w], minted |-> 0]
    BY <1>1 DEF LimitsInit
  <2>2. Size[w] \in Nat \ {0} /\ limit[w] \in Nat /\ Size[w] <= now
    BY <1>1, LimitsAssumption DEF LimitsInit
  <2>3. q \in Nat /\ q * Size[w] <= now /\ now < q * Size[w] + Size[w]
    BY <1>1, <2>2, DivBounds
  <2>4. q * Size[w] \in Nat /\ q * limit[w] \in Nat
    BY <2>2, <2>3
  <2>5. Replayed(written[w], Size[w], limit[w], now) =
          [start |-> 0 + q * Size[w], minted |-> Drained(0, q * limit[w])]
    <3>1. now - 0 = now
      BY <1>1
    <3> QED BY <2>1, <3>1 DEF Replayed
  <2> HIDE DEF q
  <2>6. Drained(0, q * limit[w]) = 0 /\ 0 + q * Size[w] = q * Size[w]
    BY <2>4 DEF Drained
  <2>7. q * Size[w] > 0
    BY <1>1, <2>2, <2>3, <2>4
  <2> QED BY <2>1, <2>4, <2>5, <2>6, <2>7
<1>3. LimitsTypeOK
  <2>1. written \in WindowStates
    BY DEF LimitsInit, WindowStates
  <2>2. live \in WindowStates
    <3>1. live = [w \in Windows |-> live[w]]
      BY DEF LimitsInit
    <3>2. \A w \in Windows : live[w] \in [start : Nat, minted : Nat]
      BY <1>2 DEF LimitsInit
    <3> QED BY <3>1, <3>2 DEF WindowStates
  <2> QED BY <1>1, <2>1, <2>2 DEF LimitsInit, LimitsTypeOK
<1>4. Ordered
  BY <1>1, <1>2 DEF Ordered
<1> QED BY <1>2, <1>3, <1>4 DEF LimitsInv, LiveIsReplayed, Started, Touched

LEMMA TickKeeps == LimitsInv /\ Tick => LimitsInv'
<1> SUFFICES ASSUME LimitsInv, Tick PROVE LimitsInv'
  OBVIOUS
<1>1. now' = now + 1 /\ now \in Nat \ {0} /\ now' \in Nat \ {0}
      /\ written' = written /\ limit' = limit
  BY DEF LimitsInv, LimitsTypeOK, Tick
<1>2. ASSUME NEW w \in Windows
      PROVE  /\ live'[w] = Slid(w, now + 1) /\ live'[w] \in WindowState
             /\ live'[w].start > 0
  <2>1. live'[w] = Slid(w, now + 1)
    BY DEF Tick
  <2>2. live[w] \in WindowState /\ Size[w] \in Nat \ {0} /\ limit[w] \in Nat
        /\ live[w].start > 0
    BY LiveWindow DEF LimitsInv, Started
  <2>3. live[w].start + Size[w] \in Nat \ {0} /\ live[w].minted \in Nat
    BY <2>2 DEF WindowState
  <2>4. Drained(live[w].minted, limit[w]) \in Nat
    BY <2>2, <2>3, DrainedTyped
  <2> QED BY <2>1, <2>2, <2>3, <2>4 DEF Slid, WindowState
<1>3. live' \in WindowStates
  <2>1. live' = [w \in Windows |-> live'[w]]
    BY DEF Tick
  <2> QED BY <1>2, <2>1 DEF WindowStates, WindowState
<1>4. LimitsTypeOK'
  BY <1>1, <1>3 DEF LimitsInv, LimitsTypeOK, Tick
<1>5. Ordered'
  <2> SUFFICES ASSUME NEW w \in Windows PROVE written[w].start <= now + 1
    BY <1>1 DEF Ordered
  <2>1. written[w].start \in Nat /\ written[w].start <= now
    BY LiveWindow DEF WindowState
  <2> QED BY <1>1, <2>1
<1>6. LiveIsReplayed'
  <2> SUFFICES ASSUME NEW w \in Windows
               PROVE  live'[w] = Replayed(written[w], Size[w], limit[w], now + 1)
    BY <1>1 DEF LiveIsReplayed
  <2>1. Replayed(written[w], Size[w], limit[w], now + 1) = Slid(w, now + 1)
    BY LiveWindow, ReplayedNext DEF Slid
  <2> QED BY <1>2, <2>1
<1>7. Started'
  BY <1>1, <1>2 DEF LimitsInv, Started, Touched
<1> QED BY <1>4, <1>5, <1>6, <1>7 DEF LimitsInv

LEMMA MintKeeps == ASSUME NEW amount \in Amounts PROVE LimitsInv /\ DirectMint(amount) => LimitsInv'
<1> SUFFICES ASSUME LimitsInv, DirectMint(amount) PROVE LimitsInv'
  OBVIOUS
<1>1. written' = live' /\ now' = now /\ limit' = limit /\ amount \in Nat
  BY LimitsAssumption DEF DirectMint
<1>2. ASSUME NEW w \in Windows
      PROVE  /\ live'[w] \in WindowState
             /\ live'[w].start = live[w].start
  <2>1. live'[w] = [live[w] EXCEPT !.minted = @ + amount]
    BY DEF DirectMint
  <2>2. live[w] \in WindowState
    BY LiveWindow
  <2> QED BY <1>1, <2>1, <2>2 DEF WindowState
<1>3. live' \in WindowStates
  <2>1. live' = [w \in Windows |-> live'[w]]
    BY DEF DirectMint
  <2> QED BY <1>2, <2>1 DEF WindowStates, WindowState
<1>4. LimitsTypeOK'
  BY <1>1, <1>3 DEF LimitsInv, LimitsTypeOK, DirectMint
<1>5. Ordered'
  BY <1>1, <1>2, LiveWindow DEF Ordered
<1>6. LiveIsReplayed'
  <2> SUFFICES ASSUME NEW w \in Windows
               PROVE  live'[w] = Replayed(live'[w], Size[w], limit[w], now)
    BY <1>1 DEF LiveIsReplayed
  <2>1. /\ Size[w] \in Nat \ {0} /\ limit[w] \in Nat /\ now \in Nat
        /\ live'[w] \in WindowState
        /\ live'[w].start <= now /\ now < live'[w].start + Size[w]
    BY <1>2, LiveWindow
  <2> QED BY ONLY <2>1, ReplayedFresh
<1>7. Started'
  BY <1>1, <1>2 DEF LimitsInv, Started, Touched
<1> QED BY <1>4, <1>5, <1>6, <1>7 DEF LimitsInv

LEMMA OthersKeep ==
  LimitsInv /\ ((\E until \in 1 .. MaxTime : Unblock(until)) \/ UNCHANGED limitsVars) => LimitsInv'
<1> SUFFICES ASSUME LimitsInv, (\E until \in 1 .. MaxTime : Unblock(until)) \/ UNCHANGED limitsVars
             PROVE  LimitsInv'
  OBVIOUS
<1>1. /\ now' = now /\ limit' = limit /\ threshold' = threshold
      /\ written' = written /\ live' = live /\ unblockUntil' \in Nat
  BY DEF Unblock, limitsVars, LimitsInv, LimitsTypeOK
<1> QED
  BY <1>1 DEF LimitsInv, LimitsTypeOK, Ordered, LiveIsReplayed, Started, Touched

LEMMA LimitsHold == LimitsSpec => []LimitsInv
<1>1. LimitsInv /\ [LimitsNext]_limitsVars => LimitsInv'
  BY TickKeeps, MintKeeps, OthersKeep DEF LimitsNext
<1> QED BY InitLimits, <1>1, PTL DEF LimitsSpec

\* The fields keep their types: no volume of a window, read or replayed, goes
\* below zero (computeWindowState, direct-minting-limits.ts:64-77).
THEOREM LimitsStayTyped == LimitsSpec => []LimitsTypeOK
<1>1. LimitsInv => LimitsTypeOK
  BY DEF LimitsInv
<1> QED BY <1>1, LimitsHold, PTL

\* However long nobody minted, the script replays the volume the limiter has,
\* and the window of a limiter that a mint has touched (computeWindowState,
\* direct-minting-limits.ts:64-72).
THEOREM ReplayIsExact == LimitsSpec => []ReplayAgrees
<1>1. LimitsInv => ReplayAgrees
  BY ReplayFormula DEF ReplayAgrees
<1> QED BY <1>1, LimitsHold, PTL

-----------------------------------------------------------------------------
(* What the script concludes from the state.                               *)

LEMMA WindowFacts ==
  ASSUME LimitsInv, NEW w \in Windows
  PROVE  /\ Touched(w) => ComputeWindowState(w) = live[w]
         /\ ComputeWindowState(w).minted = live[w].minted
         /\ live[w].start \in Nat /\ live[w].minted \in Nat
         /\ now < live[w].start + Size[w]
         /\ Size[w] \in Nat \ {0} /\ limit[w] \in Nat /\ now \in Nat
BY LiveWindow, ReplayFormula DEF WindowState

\* An amount the script calls safe is delayed neither by a window nor by its size.
THEOREM SafeAmountsExecute == LimitsSpec => []SafeAmountIsNotDelayed
<1>1. LimitsInv => SafeAmountIsNotDelayed
  <2> SUFFICES ASSUME LimitsInv, NEW amount \in Amounts, SafeRemaining(amount)
               PROVE  ~Delayed(amount)
    BY DEF SafeAmountIsNotDelayed
  <2>1. amount \in Nat /\ amount <= threshold /\ threshold \in Nat /\ now \in Nat
    BY LimitsAssumption DEF SafeRemaining, LimitsInv, LimitsTypeOK
  <2>2. ~(LargeMintExecutionAllowedAt(amount) > now)
    BY <2>1 DEF LargeMintExecutionAllowedAt
  <2>3. ASSUME NEW w \in Windows PROVE WindowExecutionAllowedAt(w, amount) = now
    <3>1. Disabled \/ amount <= Remaining(w)
      BY DEF SafeRemaining, Headroom
    <3>2. CASE Disabled
      BY <3>2 DEF WindowExecutionAllowedAt
    <3>3. CASE amount <= Remaining(w)
      <4>1. /\ live[w].minted \in Nat /\ limit[w] \in Nat
            /\ ComputeWindowState(w).minted = live[w].minted
        BY WindowFacts
      <4>2. amount = 0 \/ live[w].minted + amount <= limit[w]
        BY <2>1, <3>3, <4>1 DEF Remaining
      <4> QED BY <4>1, <4>2 DEF WindowExecutionAllowedAt
    <3> QED BY <3>1, <3>2, <3>3
  <2> QED BY <2>1, <2>2, <2>3 DEF Delayed
<1> QED BY <1>1, LimitsHold, PTL

\* While the windows are in force, all have a cap and all have been touched by a
\* mint, whatever exceeds the safe amount is announced as delayed: a volume
\* above the cap is scheduled at least one window after the start of this one,
\* which is later than now (computeWindowExecutionAllowedAt,
\* direct-minting-limits.ts:100-111).
THEOREM UnsafeAmountsWait == LimitsSpec => []UnsafeAmountIsDelayed
<1>1. LimitsInv => UnsafeAmountIsDelayed
  <2> SUFFICES ASSUME LimitsInv, ~Disabled,
                      \A w \in Windows : limit[w] > 0 /\ Touched(w),
                      NEW amount \in Amounts \ {0}, ~SafeRemaining(amount)
               PROVE  Delayed(amount)
    BY DEF UnsafeAmountIsDelayed, InForce
  <2>1. amount \in Nat \ {0} /\ threshold \in Nat /\ now \in Nat /\ LargeDelay \in Nat \ {0}
    BY LimitsAssumption DEF LimitsInv, LimitsTypeOK
  <2>2. CASE amount > threshold
    BY <2>1, <2>2 DEF Delayed, LargeMintExecutionAllowedAt
  <2>3. ASSUME NEW w \in Windows, ~(amount <= Headroom(w))
        PROVE  WindowExecutionAllowedAt(w, amount) > now
    <3> DEFINE volume == live[w].minted + amount
    <3>1. /\ ComputeWindowState(w) = live[w]
          /\ live[w].start \in Nat /\ live[w].minted \in Nat
          /\ now < live[w].start + Size[w]
          /\ Size[w] \in Nat \ {0} /\ limit[w] \in Nat \ {0}
      BY WindowFacts
    <3>2. volume \in Nat /\ volume > limit[w]
      BY <2>1, <2>3, <3>1 DEF Headroom, Remaining
    <3>3. (Size[w] * volume) \div limit[w] >= Size[w]
      BY <3>1, <3>2, ScheduledLater
    <3>4. WindowExecutionAllowedAt(w, amount) = live[w].start + (Size[w] * volume) \div limit[w]
      BY <2>1, <3>1, <3>2 DEF WindowExecutionAllowedAt
    <3>5. (Size[w] * volume) \div limit[w] \in Int
      BY <3>1, <3>2
    <3> HIDE DEF volume
    <3> QED BY <2>1, <3>1, <3>3, <3>4, <3>5
  <2>4. amount > threshold \/ \E w \in Windows : ~(amount <= Headroom(w))
    BY <2>1 DEF SafeRemaining
  <2> QED BY <2>2, <2>3, <2>4 DEF Delayed
<1> QED BY <1>1, LimitsHold, PTL

=============================================================================
