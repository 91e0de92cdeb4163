--------------------------- MODULE LendingPayouts ---------------------------
(***************************************************************************)
(* What stands behind an MPT that the vault pays out on the XRPL.          *)
(*                                                                         *)
(* The lending scripts pay from the latest InitiateBridge event they find  *)
(* (flare-lending/utils.ts), so what backs the payout is not that event    *)
(* but the order of the script's own steps: a user operation that bridges, *)
(* then the news that it ran, then one payout.  A phase says how far a     *)
(* script is on that way.                                                  *)
(***************************************************************************)
EXTENDS ScriptTypes

CONSTANT Phases  \* of each program: the phase before each step and at the end

Phase == {"any",       \* nothing is claimed
          "clear",     \* no user operation of the run is waiting for its nonce
          "numbered",  \* nor has one of them the nonce that was read
          "sent",      \* none has a later nonce than the one that was read
          "bridging",  \* one alone has it, is in hand and bridges
          "backed",    \* one that bridges has run
          "paid"}      \* and the vault has paid out

Bridges(op) == "bridged" \in op.gives
PaysOut(step) == step.do = "Tx" /\ "mpt" \in step.op.gives

\* Only the vault gives MPT, and what was bridged is gone for good.
Spares(step) ==
  /\ "mpt" \in step.op.gives => step.do = "Tx"
  /\ {"mpt", "bridged"} \cap step.op.sets = {}
  /\ "bridged" \notin DOMAIN step.op.takes \union step.about

\* The step ends only when a user operation is known to have run.
Announces(step) ==
  \/ step.do = "Await" /\ step.event = "UserOp"
  \/ step.do = "Confirm" /\ step.what = "op"

PhaseAfter(step, ph) ==
  CASE step.do = "ReadNonce" /\ ph \notin {"backed", "paid"} ->
         IF ph = "clear" THEN "numbered" ELSE "any"
    [] step.do = "Pay" /\ ph \notin {"backed", "paid"} ->
         IF step.kind \notin UserOps \/ ph # "numbered" THEN "any"
         ELSE IF Bridges(step.op) THEN "bridging" ELSE "sent"
    [] step.do = "Await" /\ Announces(step) /\ ph = "sent" -> "clear"
    [] Announces(step) /\ ph = "bridging" -> "backed"
    [] PaysOut(step) -> "paid"
    [] OTHER -> ph

\* A claim may be dropped, but not that the vault has paid.
Weakens(m, l) == l = m \/ (l = "any" /\ m # "paid")

PhasedBy(code, P) ==
  LET end == Len(code) + 1 IN
  /\ P \in [1 .. end -> Phase] /\ P[1] \in {"any", "clear"}
  /\ \A i \in 1 .. Len(code) :
       /\ Spares(code[i])
       /\ PaysOut(code[i]) => P[i] = "backed"
       /\ Weakens(PhaseAfter(code[i], P[i]), P[i + 1])
       /\ Jumps(code[i]) => Weakens(P[i], P[JumpTo(code[i], i, end)])
       /\ code[i].do = "Stage" => \A j \in 1 .. end : P[j] = "any"

ASSUME PhasesAssumption ==
  \A name \in DOMAIN Programs : PhasedBy(Programs[name], Phases[name])
ASSUME PayoutAssumption ==
  /\ {"mpt", "bridged"} \subseteq Assets
  /\ \A route \in Routes : route[1] # "bridged" /\ route[2] # "mpt"
  /\ \A start \in Scenarios : start.holds["mpt"] <= start.holds["bridged"]

-----------------------------------------------------------------------------
(* What a phase says of a run.                                             *)

\* No two runs put the same nonce into a user operation.
NoTwins == \A p, q \in Ids :
  ledger[p].kind \in UserOps /\ ledger[q].kind \in UserOps /\ ledger[p].nonce = ledger[q].nonce
    => ledger[p].by = ledger[q].by

\* The user operations of the run r, and those that have bridged something.
OpsOf(r) == {p \in Ids : ledger[p].by = r /\ ledger[p].kind \in UserOps}
BridgingOps == {p \in Ids : /\ ledger[p].kind \in UserOps /\ ledger[p].mint = "ran"
                            /\ Bridges(ledger[p].op)}

HasPhase(r, ph) ==
  /\ ph = "clear" => \A p \in OpsOf(r) : ledger[p].nonce < nonce
  /\ ph = "numbered" => \A p \in OpsOf(r) : ledger[p].nonce < loc[r].nonce
  /\ ph = "sent" => \A p \in OpsOf(r) : ledger[p].nonce <= loc[r].nonce
  /\ ph = "bridging" =>
       /\ loc[r].pay \in OpsOf(r) /\ Bridges(ledger[loc[r].pay].op)
       /\ ledger[loc[r].pay].nonce = loc[r].nonce
       /\ \A p \in OpsOf(r) \ {loc[r].pay} : ledger[p].nonce < loc[r].nonce
  /\ ph \in {"backed", "paid"} /\ NoTwins => OpsOf(r) \cap BridgingOps # {}

PhaseOf(r) == Phases[program[r]][pc[r]]
PaidRuns == {r \in Runs : PhaseOf(r) = "paid"}

\* No payment gives MPT or takes what was bridged, and a user operation that
\* ran has left its nonce behind.
PaymentSpares(p) ==
  /\ "mpt" \notin ledger[p].op.gives \union ledger[p].op.sets
  /\ "bridged" \notin DOMAIN ledger[p].op.takes \union ledger[p].op.sets
  /\ ledger[p].kind \in UserOps /\ ledger[p].mint = "ran" => ledger[p].nonce < nonce

\* The inductive invariant: every MPT beyond those there were at first was paid
\* out by a run of its own, and every bridging operation has been counted.
PayoutInv ==
  /\ \A p \in Ids : PaymentSpares(p)
  /\ \A r \in Runs : HasPhase(r, PhaseOf(r))
  /\ IsFiniteSet(PaidRuns)
  /\ holds["mpt"] + Cardinality(BridgingOps) <= holds["bridged"] + Cardinality(PaidRuns)

-----------------------------------------------------------------------------
(* Properties.                                                             *)

\* The vault pays out on the XRPL no more MPT than personal accounts sent over
\* the bridge: the lending scripts pay from the latest InitiateBridge event
\* they find, and only twins (two runs on one nonce) may find one that is not
\* a deposit of theirs.
PaysOutWhatWasBridged == NoTwins => holds["mpt"] <= holds["bridged"]

=============================================================================
