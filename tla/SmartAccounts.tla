--------------------------- MODULE SmartAccounts ---------------------------
(***************************************************************************)
(* The XRPL account, the personal account it controls on Flare, and the    *)
(* scripts of reference/flare-viem-starter that drive both.                *)
(*                                                                         *)
(* A script is data: the sequence of steps its main function awaits, in    *)
(* order.  The verbs are the helpers of utils/smart-accounts.ts,           *)
(* utils/fdc.ts, utils/xrpl.ts and utils/fassets.ts; a script that throws  *)
(* stops with `failed'.  The scripts share one XRPL wallet (`funds', the   *)
(* number of payments it can still make), one memo nonce and one set of    *)
(* holdings, and they run beside a relayer that may mint any payment, an   *)
(* operator that carries out fee-only instructions and other minters.      *)
(*                                                                         *)
(* The contracts are not in the repository: what they do with a payment is *)
(* taken from how these scripts use them and from the comments in them.    *)
(***************************************************************************)
EXTENDS Naturals, Sequences, FiniteSets

CONSTANTS Runs,      \* executions of scripts
          Assets,    \* what the scripts read, take and give; "fxrp" is one
          Kinds,     \* the kinds of XRPL payment
          Events,    \* the event names the scripts watch, and "none"
          Routes,    \* pairs <<a, b>>: a turns into b outside these scripts
          Programs,  \* the scripts: a sequence of steps for each name
          Scenarios, \* what to start from: the script of each run, the number
                     \* of payments the wallet can make, what is owned
          MaxFaults, \* delayed mints and failing steps
          MaxRivals  \* collateral reservations of other minters

UserOps == {"FE", "FF"}
Direct == UserOps \union {"E0", "E1", "mint"}

Holdings == [Assets -> Nat]
\* A batch of calls: how much it takes of which assets, the assets it gives one
\* unit of, the allowances it sets, the event it emits.
IsOp(op) ==
  /\ DOMAIN op = {"takes", "gives", "sets", "emits"}
  /\ DOMAIN op.takes \subseteq Assets /\ \A a \in DOMAIN op.takes : op.takes[a] \in Nat
  /\ op.gives \subseteq Assets /\ op.sets \subseteq Assets /\ op.emits \in Events

Verbs == {"NoteNonce", "ReadNonce", "SameNonce", "CheckXrp", "Pay", "Watch",
          "Await", "AwaitReservation", "FindLatest", "Prove", "Mint", "Confirm",
          "Used", "Stage", "PickStuck", "OwnStuck", "Diagnose", "SetGoal",
          "CheckGoal", "GoalReached", "Need", "Read", "IfHas", "IfLacks", "Tx",
          "Until"}
Confirmations == {"op", "ignore", "raise", "credit", "watched"}
IsStep(step) ==
  /\ DOMAIN step = {"do", "on", "kind", "op", "about", "event", "what", "n"}
  /\ step.do \in Verbs /\ step.on \in {"pay", "stuck"} /\ step.kind \in Kinds
  /\ IsOp(step.op) /\ step.about \subseteq Assets /\ step.event \in Events
  /\ step.what \in Confirmations /\ step.n \in Nat

Statuses == {"pending", "delayed", "ran", "skipped", "reserved", "paid"}

ASSUME KindsAssumption == Direct \union {"reserve", "agent", "order"} \subseteq Kinds
ASSUME AssetsAssumption ==
  "fxrp" \in Assets /\ Routes \subseteq Assets \X Assets
ASSUME EventsAssumption ==
  {"none", "UserOp", "DirectMinted", "Reserved", "MintingExecuted"} \subseteq Events
ASSUME ScenariosAssumption ==
  /\ \A name \in DOMAIN Programs :
       /\ DOMAIN Programs[name] = 1 .. Len(Programs[name]) /\ Len(Programs[name]) \in Nat
       /\ \A i \in DOMAIN Programs[name] : IsStep(Programs[name][i])
  /\ \A start \in Scenarios :
       /\ start.program \in [Runs -> DOMAIN Programs]
       /\ start.funds \in Nat /\ start.holds \in Holdings
ASSUME BoundsAssumption == MaxFaults \in Nat /\ MaxRivals \in Nat

VARIABLES nonce,     \* the memo nonce of the personal account
          ledger,    \* the payments of the XRPL wallet, in ledger order
          log,       \* the Flare events the scripts watch, in chain order
          holds,     \* what the personal account and the wallets own
          funds, faults, rivals,
          program,   \* the script of each run, fixed
          pc, failed,
          loc,       \* the locals of each run
          confirmed  \* <<payment, what>>: the logs the scripts found

chain == <<nonce, ledger, log, holds>>
script == <<pc, failed, loc, confirmed>>
vars == <<nonce, ledger, log, holds, funds, faults, rivals, program,
          pc, failed, loc, confirmed>>

Ids == DOMAIN ledger
Final(p) == ledger[p].mint \in {"ran", "skipped"}

Blank == [pay |-> 0, stuck |-> 0, nonce |-> 0, goal |-> 0, seen |-> <<>>,
          from |-> 1, hit |-> 0, receipt |-> "pending"]

Init ==
  /\ nonce = 0 /\ ledger = <<>> /\ log = <<>> /\ rivals = 0 /\ faults = 0
  /\ \E start \in Scenarios :
       program = start.program /\ funds = start.funds /\ holds = start.holds
  /\ pc = [r \in Runs |-> 1]
  /\ failed = [r \in Runs |-> FALSE]
  /\ loc = [r \in Runs |-> Blank]
  /\ confirmed = {}

-----------------------------------------------------------------------------
(* The chain: what a payment does once someone presents its proof.         *)

Affords(h, op) == \A a \in DOMAIN op.takes : h[a] >= op.takes[a]
Left(h, op, a) == IF a \in DOMAIN op.takes THEN h[a] - op.takes[a] ELSE h[a]
Applied(h, op) ==
  [a \in Assets |-> IF a \in op.sets THEN 1
                    ELSE IF a \in op.gives THEN Left(h, op, a) + 1 ELSE Left(h, op, a)]
Credited(p) == [holds EXCEPT !["fxrp"] = @ + ledger[p].net]

Emitted(op, p) == IF op.emits = "none" THEN <<>>
                  ELSE <<[ev |-> op.emits, id |-> p, key |-> 0]>>

\* The memo of p is executed: it carries a user operation nobody skipped.
RunsOp(p) == ledger[p].kind \in UserOps /\ ~ledger[p].ignored

\* The call that mints p does not revert.  A user operation must carry the
\* current nonce and all of its calls must succeed, a fast-forward must raise
\* the nonce, and a payment is minted once.
CanSettle(p) ==
  /\ ledger[p].sent
  /\ ledger[p].kind \in Direct
  /\ ledger[p].mint \in {"pending", "delayed"}
  /\ RunsOp(p) => nonce = ledger[p].nonce /\ Affords(Credited(p), ledger[p].op)
  /\ ledger[p].kind = "E1" => ledger[p].target > nonce

Outcome(p) == IF ledger[p].kind \in UserOps /\ ledger[p].ignored
              THEN "skipped" ELSE "ran"

Skips(p, q) == ledger[p].kind = "E0" /\ q = ledger[p].target

MintEvents(p) ==
  CASE RunsOp(p) -> <<[ev |-> "UserOp", id |-> p, key |-> ledger[p].nonce]>>
                    \o Emitted(ledger[p].op, p)
    [] ledger[p].kind = "mint" -> <<[ev |-> "DirectMinted", id |-> p, key |-> 0]>>
    [] OTHER -> <<>>

\* AssetManagerFXRP mints p and hands it to the personal account.
Settle(p) ==
  /\ CanSettle(p)
  /\ ledger' = [q \in Ids |-> [ledger[q] EXCEPT
                  !.mint = IF q = p THEN Outcome(p) ELSE @,
                  !.ignored = @ \/ Skips(p, q)]]
  /\ nonce' = IF RunsOp(p) THEN nonce + 1
              ELSE IF ledger[p].kind = "E1" THEN ledger[p].target ELSE nonce
  /\ holds' = IF RunsOp(p) THEN Applied(Credited(p), ledger[p].op) ELSE Credited(p)
  /\ log' = log \o MintEvents(p)

\* AssetManagerFXRP emits DirectMintingDelayed: the proof must be presented again.
Delay(p) ==
  /\ faults < MaxFaults
  /\ ledger[p].sent /\ ledger[p].kind \in Direct /\ ledger[p].mint = "pending"
  /\ faults' = faults + 1
  /\ ledger' = [ledger EXCEPT ![p].mint = "delayed"]
  /\ UNCHANGED <<nonce, log, holds>>

\* A relayer finalizes a payment no script asked it to.
Relay(p) ==
  /\ \/ Settle(p) /\ UNCHANGED faults
     \/ Delay(p)
  /\ UNCHANGED <<funds, rivals, program, script>>

\* The operator carries out an instruction paid to it: it reserves collateral,
\* or has the personal account do what was ordered.
Operate(p) ==
  /\ ledger[p].sent /\ ledger[p].mint = "pending"
  /\ \/ /\ ledger[p].kind = "reserve"
        /\ ledger' = [ledger EXCEPT ![p].mint = "reserved"]
        /\ log' = Append(log, [ev |-> "Reserved", id |-> p, key |-> 0])
        /\ UNCHANGED holds
     \/ /\ ledger[p].kind = "order"
        /\ Affords(holds, ledger[p].op)
        /\ ledger' = [ledger EXCEPT ![p].mint = "ran"]
        /\ holds' = Applied(holds, ledger[p].op)
        /\ log' = log \o Emitted(ledger[p].op, p)
  /\ UNCHANGED <<nonce, funds, faults, rivals, program, script>>

\* The agent's payment is proven: the reservation it references is minted.
Reserves(q) == ledger[q].target \in Ids
AgentMint(q) ==
  /\ ledger[q].sent /\ ledger[q].mint = "pending" /\ ledger[q].kind = "agent"
  /\ Reserves(q) => ledger[ledger[q].target].mint = "reserved"
  /\ ledger' = [p \in Ids |-> [ledger[p] EXCEPT
                  !.mint = CASE p = q -> "ran"
                             [] p = ledger[q].target -> "paid"
                             [] OTHER -> @]]
  /\ holds' = IF Reserves(q) THEN Credited(q) ELSE holds
  /\ log' = Append(log, [ev |-> "MintingExecuted", id |-> ledger[q].target, key |-> 0])
  /\ UNCHANGED <<nonce, funds, faults, rivals, program, script>>

\* The second half of a reservation that also says what to do with the mint.
Deposit(p) ==
  /\ ledger[p].kind = "reserve" /\ ledger[p].mint = "paid"
  /\ Affords(holds, ledger[p].op)
  /\ ledger' = [ledger EXCEPT ![p].mint = "ran"]
  /\ holds' = Applied(holds, ledger[p].op)
  /\ log' = log \o Emitted(ledger[p].op, p)
  /\ UNCHANGED <<nonce, funds, faults, rivals, program, script>>

\* Another minter reserves collateral, while a script that watches for it runs.
RivalReserves ==
  /\ rivals < MaxRivals
  /\ \E r \in DOMAIN program : \E i \in DOMAIN Programs[program[r]] :
       Programs[program[r]][i].do = "AwaitReservation"
  /\ rivals' = rivals + 1
  /\ log' = Append(log, [ev |-> "Reserved", id |-> 0, key |-> 0])
  /\ UNCHANGED <<nonce, ledger, holds, funds, faults, program, script>>

\* A message between chains arrives, a random number is produced.
Deliver(route) ==
  /\ holds[route[1]] > 0
  /\ holds' = [a \in Assets |-> IF a = route[1] THEN holds[a] - 1
                                ELSE IF a = route[2] THEN holds[a] + 1 ELSE holds[a]]
  /\ UNCHANGED <<nonce, ledger, log, funds, faults, rivals, program, script>>

-----------------------------------------------------------------------------
(* The scripts: one step of the run r.                                     *)

Code(r) == Programs[program[r]]
Step(r) == Code(r)[pc[r]]
Live(r) == ~failed[r] /\ pc[r] <= Len(Code(r))
At(r, verb) == Live(r) /\ Step(r).do = verb
Done(r) == ~failed[r] /\ pc[r] > Len(Code(r))

Advance(r, by) == pc' = [pc EXCEPT ![r] = @ + by] /\ UNCHANGED failed
Throw(r) == failed' = [failed EXCEPT ![r] = TRUE] /\ UNCHANGED <<pc, loc, confirmed>>

\* The payment a step is about: the script's own, or the stuck one.
Target(r) == IF Step(r).on = "pay" THEN loc[r].pay ELSE loc[r].stuck

\* The step changes nothing outside the script.
Quiet == UNCHANGED <<chain, funds, faults, rivals, program>>

\* if (!guard) throw
Assert(r, guard) ==
  /\ Quiet
  /\ IF guard THEN Advance(r, 1) /\ UNCHANGED <<loc, confirmed>> ELSE Throw(r)

\* local = value
Let(r, locals) ==
  /\ Quiet /\ Advance(r, 1)
  /\ loc' = [loc EXCEPT ![r] = locals]
  /\ UNCHANGED confirmed

NoteNonce(r) == At(r, "NoteNonce") /\ Let(r, [loc[r] EXCEPT !.goal = nonce])
ReadNonce(r) == At(r, "ReadNonce") /\ Let(r, [loc[r] EXCEPT !.nonce = nonce])
SameNonce(r) == At(r, "SameNonce") /\ Assert(r, loc[r].nonce = loc[r].goal)

\* A payment found in the environment is not sent again, nor is it budgeted for.
Resumed(r) == Step(r).kind \in {"E0", "E1"} /\ loc[r].pay # 0

CheckXrp(r) == At(r, "CheckXrp") /\ Assert(r, Resumed(r) \/ funds >= Step(r).n)

\* The operation takes as much of the assets in `about' as the script read before.
Measured(r, op) ==
  [op EXCEPT !.takes = [a \in DOMAIN @ \union Step(r).about |->
                          IF a \in Step(r).about THEN loc[r].seen[a] ELSE @[a]]]

Payment(r) ==
  [by |-> r, kind |-> Step(r).kind, nonce |-> loc[r].nonce,
   op |-> Measured(r, Step(r).op),
   target |-> CASE Step(r).kind = "E0" -> loc[r].stuck
                [] Step(r).kind = "E1" -> loc[r].goal
                [] OTHER -> loc[r].hit,
   net |-> Step(r).n, sent |-> funds > 0, mint |-> "pending", ignored |-> FALSE]

Spend == IF funds > 0 THEN funds - 1 ELSE 0

\* sendXrplPayment: the result code is not looked at, so a payment the wallet
\* cannot afford counts as sent.
Pay(r) ==
  /\ At(r, "Pay")
  /\ IF Resumed(r) THEN Quiet /\ UNCHANGED loc
     ELSE /\ ledger' = Append(ledger, Payment(r))
          /\ funds' = Spend
          /\ loc' = [loc EXCEPT ![r].pay = Len(ledger) + 1]
          /\ UNCHANGED <<nonce, log, holds, faults, rivals, program>>
  /\ Advance(r, 1) /\ UNCHANGED confirmed

\* watchContractEvent delivers the events after its registration only.
Watch(r) == At(r, "Watch") /\ Let(r, [loc[r] EXCEPT !.from = Len(log) + 1])

\* The filter of the watcher: by nonce for a user operation, by reservation for
\* a minting, by the personal account alone for the rest.
Matches(r, e) ==
  /\ e.ev = Step(r).event
  /\ e.ev = "UserOp" => e.key = loc[r].nonce
  /\ e.ev = "MintingExecuted" => e.id = loc[r].hit

Await(r) ==
  /\ At(r, "Await") /\ Quiet /\ Advance(r, 1)
  /\ \E i \in loc[r].from .. Len(log) : Matches(r, log[i])
  /\ confirmed' = confirmed \union {<<loc[r].pay, "watched">>}
  /\ UNCHANGED loc

\* The handler keeps the last reservation it saw and a flag that one was the
\* script's; a tick of ten seconds later the script takes what was kept.
AwaitReservation(r) ==
  /\ At(r, "AwaitReservation")
  /\ \E i \in loc[r].from .. Len(log) :
       /\ log[i].ev = "Reserved" /\ log[i].id # 0
       /\ \E j \in i .. Len(log) :
            /\ log[j].ev = "Reserved"
            /\ Let(r, [loc[r] EXCEPT !.hit = log[j].id])

\* The latest event of the personal account, whichever script caused it.
Last(name) == {i \in DOMAIN log : /\ log[i].ev = name
                                  /\ \A j \in i + 1 .. Len(log) : log[j].ev # name}
FindLatest(r) ==
  /\ At(r, "FindLatest")
  /\ \/ \E i \in Last(Step(r).event) : Let(r, [loc[r] EXCEPT !.hit = log[i].id])
     \/ Last(Step(r).event) = {} /\ Assert(r, FALSE)

\* The verifier answers VALID and the data availability layer serves a proof:
\* never for a payment that failed.
Provable(p) == ledger[p].sent

\* fetchXrpPaymentProof.
Prove(r) == At(r, "Prove") /\ Assert(r, Provable(Target(r)))

\* executeDirectMintingWithData; n = 1 is reuseExistingMint.
Received(r, receipt) ==
  /\ Advance(r, 1)
  /\ loc' = [loc EXCEPT ![r].receipt = receipt]
  /\ UNCHANGED <<funds, rivals, program, confirmed>>
Mint(r) ==
  /\ At(r, "Mint")
  /\ LET p == Target(r) IN
     \/ Settle(p) /\ UNCHANGED faults /\ Received(r, Outcome(p))
     \/ Delay(p) /\ Received(r, "delayed")
     \/ /\ Final(p) /\ Step(r).n = 1
        /\ UNCHANGED <<chain, faults>> /\ Received(r, ledger[p].mint)
     \/ ~CanSettle(p) /\ ~(Final(p) /\ Step(r).n = 1) /\ Assert(r, FALSE)

Used_EvenDelayed(r) ==
  /\ At(r, "Used") /\ Quiet
  /\ IF ledger[Target(r)].mint # "pending"
     THEN Advance(r, Step(r).n) /\ loc' = [loc EXCEPT ![r].receipt = ledger[Target(r)].mint]
     ELSE Advance(r, 1) /\ UNCHANGED loc
  /\ UNCHANGED confirmed

\* The mint was finalized by someone else: its receipt is loaded and the steps
\* that would have produced it are jumped over.
Used(r) ==
  /\ At(r, "Used") /\ Quiet
  /\ IF Final(Target(r))
     THEN Advance(r, Step(r).n) /\ loc' = [loc EXCEPT ![r].receipt = ledger[Target(r)].mint]
     ELSE Advance(r, 1) /\ UNCHANGED loc
  /\ UNCHANGED confirmed

Found_AnyReceipt(r) == loc[r].receipt # "pending"

\* The log that each confirmation looks for in the receipt.
Found(r) ==
  CASE Step(r).what = "op" -> loc[r].receipt = "ran"
    [] Step(r).what = "ignore" -> /\ loc[r].receipt = "ran"
                                  /\ ledger[Target(r)].target = loc[r].stuck
    [] Step(r).what = "raise" -> /\ loc[r].receipt = "ran"
                                 /\ ledger[Target(r)].target = loc[r].goal
    [] Step(r).what = "credit" -> loc[r].receipt \in {"ran", "skipped"}
Confirm(r) ==
  /\ At(r, "Confirm") /\ Quiet
  /\ IF Found(r)
     THEN /\ Advance(r, 1) /\ UNCHANGED loc
          /\ confirmed' = confirmed \union {<<Target(r), Step(r).what>>}
     ELSE Throw(r)

\* A part of a script that can be resumed with the hashes it printed.
Stage(r) == At(r, "Stage") /\ Let(r, [loc[r] EXCEPT !.pay = 0])

\* STUCK_XRPL_TX_HASH names a payment that waits to be minted.
PickStuck(r) ==
  /\ At(r, "PickStuck")
  /\ \E p \in Ids :
       /\ ledger[p].kind \in UserOps /\ ledger[p].sent /\ ~Final(p)
       /\ Let(r, [loc[r] EXCEPT !.stuck = p])

\* The demonstration: the payment this script just sent is the stuck one.
OwnStuck(r) == At(r, "OwnStuck") /\ Let(r, [loc[r] EXCEPT !.stuck = loc[r].pay])

\* diagnoseStuckDirectMint: one script throws when the payment is minted
\* already (n = 0), the other returns from the recovery.
Diagnose(r) ==
  /\ At(r, "Diagnose")
  /\ IF Final(loc[r].stuck) /\ Step(r).n > 0
     THEN Quiet /\ Advance(r, Step(r).n) /\ UNCHANGED <<loc, confirmed>>
     ELSE Assert(r, ~Final(loc[r].stuck))

\* TARGET_NEW_NONCE, or the nonce that follows the current one.
SetGoal(r) ==
  /\ At(r, "SetGoal")
  /\ \E goal \in {nonce + 1, nonce + Step(r).n} \union ({loc[r].goal} \ {0}) :
       Let(r, [loc[r] EXCEPT !.goal = goal])
CheckGoal(r) == At(r, "CheckGoal") /\ Assert(r, loc[r].goal > nonce)
GoalReached(r) == At(r, "GoalReached") /\ Assert(r, nonce = loc[r].goal)

Need(r) == At(r, "Need") /\ Assert(r, Affords(holds, Step(r).op))
Read(r) == At(r, "Read") /\ Let(r, [loc[r] EXCEPT !.seen = [a \in Step(r).about |-> holds[a]]])

\* A part that is left out, or an early return (n = 0), depending on what was read.
Jump(r, jumps) ==
  /\ Quiet /\ UNCHANGED <<failed, loc, confirmed>>
  /\ pc' = [pc EXCEPT ![r] = IF ~jumps THEN @ + 1
                             ELSE IF Step(r).n = 0 THEN Len(Code(r)) + 1
                             ELSE @ + Step(r).n]
IfHas(r) == At(r, "IfHas") /\ Jump(r, \A a \in Step(r).about : loc[r].seen[a] > 0)
IfLacks(r) == At(r, "IfLacks") /\ Jump(r, \A a \in Step(r).about : loc[r].seen[a] = 0)

\* A Flare transaction of the script's own wallet.
Tx(r) ==
  /\ At(r, "Tx")
  /\ IF Affords(holds, Step(r).op)
     THEN /\ holds' = Applied(holds, Step(r).op)
          /\ Advance(r, 1)
          /\ UNCHANGED <<nonce, ledger, log, funds, faults, rivals, program, loc, confirmed>>
     ELSE Assert(r, FALSE)

\* Polling for something the script does not cause.
Until(r) ==
  /\ At(r, "Until")
  /\ \A a \in Step(r).about : holds[a] > loc[r].seen[a]
  /\ Let(r, loc[r])

ScriptStep(r) ==
  \/ NoteNonce(r) \/ ReadNonce(r) \/ SameNonce(r) \/ CheckXrp(r) \/ Pay(r) \/ Watch(r)
  \/ Await(r) \/ AwaitReservation(r) \/ FindLatest(r) \/ Prove(r) \/ Mint(r)
  \/ Used(r) \/ Confirm(r) \/ Stage(r) \/ PickStuck(r) \/ OwnStuck(r)
  \/ Diagnose(r) \/ SetGoal(r) \/ CheckGoal(r) \/ GoalReached(r) \/ Need(r)
  \/ Read(r) \/ IfHas(r) \/ IfLacks(r) \/ Tx(r) \/ Until(r)

\* The steps a script need not repeat when it is started again.
Passed(r) == {i \in 1 .. pc[r] - 1 : Code(r)[i].do = "Stage"}

\* A request is refused or times out, a proof is not served, the process is
\* killed.  (A script that cannot be resumed just takes no further step.)
Crash(r) ==
  /\ Live(r) /\ Passed(r) # {} /\ faults < MaxFaults
  /\ faults' = faults + 1
  /\ Throw(r)
  /\ UNCHANGED <<chain, funds, rivals, program>>

\* The script is started again with the hashes it printed before it failed.
Resume(r) ==
  /\ failed[r]
  /\ \E i \in Passed(r) :
       /\ \A j \in Passed(r) : j <= i
       /\ pc' = [pc EXCEPT ![r] = i + 1]
       /\ loc' = [loc EXCEPT ![r].pay =
                    IF @ # 0 /\ ledger[@].sent THEN @ ELSE 0]
  /\ failed' = [failed EXCEPT ![r] = FALSE]
  /\ UNCHANGED <<chain, funds, faults, rivals, program, confirmed>>

Environment ==
  \/ \E p \in Ids : Relay(p) \/ Operate(p) \/ AgentMint(p) \/ Deposit(p)
  \/ RivalReserves
  \/ \E route \in Routes : Deliver(route)

Next == Environment \/ \E r \in Runs : ScriptStep(r) \/ Crash(r) \/ Resume(r)

\* A started script runs on, and a failed recovery is taken up again.  Nothing
\* is assumed of the relayer, the operator or the other minters.
Fairness == \A r \in Runs : WF_vars(ScriptStep(r)) /\ WF_vars(Resume(r))

Spec == Init /\ [][Next]_vars /\ Fairness

-----------------------------------------------------------------------------
(* Properties.                                                             *)

IsPayment(p) ==
  /\ DOMAIN p = {"by", "kind", "nonce", "op", "target", "net", "sent", "mint", "ignored"}
  /\ p.by \in Runs /\ p.kind \in Kinds /\ p.nonce \in Nat /\ IsOp(p.op)
  /\ p.target \in Nat /\ p.net \in Nat /\ p.sent \in BOOLEAN
  /\ p.mint \in Statuses /\ p.ignored \in BOOLEAN
IsLocals(l) ==
  /\ DOMAIN l = {"pay", "stuck", "nonce", "goal", "seen", "from", "hit", "receipt"}
  /\ {l.pay, l.stuck} \subseteq Ids \union {0}
  /\ l.nonce \in Nat /\ l.goal \in Nat /\ l.from \in Nat \ {0} /\ l.hit \in Nat
  /\ \A a \in DOMAIN l.seen : l.seen[a] \in Nat
  /\ l.receipt \in {"pending", "delayed", "ran", "skipped"}

\* The types of the state; the payments a run names exist.
TypeOK ==
  /\ nonce \in Nat /\ funds \in Nat /\ faults \in 0 .. MaxFaults
  /\ rivals \in 0 .. MaxRivals
  /\ Len(ledger) \in Nat /\ Ids = 1 .. Len(ledger) /\ \A p \in Ids : IsPayment(ledger[p])
  /\ log \in Seq([ev : Events, id : Nat, key : Nat])
  /\ holds \in Holdings
  /\ program \in [Runs -> DOMAIN Programs]
  /\ pc \in [Runs -> Nat \ {0}] /\ failed \in [Runs -> BOOLEAN]
  /\ DOMAIN loc = Runs /\ \A r \in Runs : IsLocals(loc[r])
  /\ confirmed \subseteq Ids \X Confirmations

\* The user operation with that nonce was executed, by some payment.
NonceRan(n) == \E q \in Ids :
  ledger[q].kind \in UserOps /\ ledger[q].nonce = n /\ ledger[q].mint = "ran"

\* What each confirmation says of the payment it names.
Holds(c) ==
  LET p == ledger[c[1]] IN
  CASE c[2] = "op" -> p.kind \in UserOps /\ p.mint = "ran"
    [] c[2] = "ignore" -> p.kind = "E0" /\ p.mint = "ran" /\ ledger[p.target].ignored
    [] c[2] = "raise" -> p.kind = "E1" /\ p.mint = "ran" /\ nonce >= p.target
    [] c[2] = "credit" -> p.mint \in {"ran", "skipped"}
    [] c[2] = "watched" -> p.kind \in UserOps => NonceRan(p.nonce)

\* What a script reports from a receipt did happen, to the payment it names: a
\* delayed or skipped mint, or the receipt of another payment, never passes for
\* an executed operation, a skipped memo or a raised nonce.  What a script saw
\* in a watched event is weaker: UserOperationExecuted shows a nonce, so some
\* payment with that nonce ran, and the events of direct mints, reservations
\* and orders name no payment, so nothing is claimed of those.
ConfirmationsAreTrue == \A c \in confirmed : Holds(c)

\* A recovery that ends without an error leaves the stuck payment minted: its
\* FXRP is with the personal account and no late executor can mint it again.
RecoveredIsMinted == \A r \in Runs :
  Done(r) /\ loc[r].stuck # 0 => Final(loc[r].stuck)

\* A payment that waits to be minted once a recovery has taken it up is minted
\* in the end, whatever is delayed, refused or killed on the way and resumed
\* with the printed hashes, as long as the wallet can pay for the recovery.
RecoveryFinishes == \A r \in Runs :
  (loc[r].stuck # 0 /\ Passed(r) # {})
    ~> (funds = 0 \/ \E p \in Ids : p = loc[r].stuck /\ Final(p))

=============================================================================
