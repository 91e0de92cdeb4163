---------------------------- MODULE ScriptTypes ----------------------------
(***************************************************************************)
(* What a script knows at each of its steps.                               *)
(*                                                                         *)
(* The scripts of the starter keep the hash of the payment in hand, the    *)
(* stuck one and the last receipt in locals, and most mistakes they could  *)
(* make are local ones: confirming with the receipt of another payment,    *)
(* watching for a nonce read after the payment was sent, ending before the *)
(* stuck payment is known to be minted.  A type states what the locals     *)
(* mean before a step; a program is well typed when each of its steps      *)
(* finds what it needs and leaves what the next one expects.               *)
(***************************************************************************)
EXTENDS SmartAccounts

CONSTANT Types  \* of each program: the type before each step and at the end

NoKind == "none"
Known == [pay : Kinds \union {NoKind},   \* the kind of the payment in hand
          fresh : BOOLEAN,               \* the local nonce is the one it carries
          spare : Kinds \union {NoKind}, \* what a run that was started again may hold
          stuck : BOOLEAN,               \* there is a stuck payment
          about : {"none", "pay", "stuck"}, \* the payment of the receipt in hand
          safe : BOOLEAN,                \* the stuck payment, if any, is minted
          read : SUBSET Assets]          \* the assets that were read

\* What l states, m states as well.
Implies(m, l) ==
  /\ l.pay \in {NoKind, m.pay} /\ l.spare \in {NoKind, m.spare} /\ l.about \in {"none", m.about}
  /\ (l.fresh => m.fresh) /\ (l.stuck => m.stuck) /\ (l.safe => m.safe)
  /\ l.read \subseteq m.read

Knows(l, on) == IF on = "pay" THEN l.pay # NoKind ELSE l.stuck

\* What a step needs to find.
Needs(step, l) ==
  /\ step.do = "Pay" =>
       /\ step.about \subseteq l.read /\ step.op.emits # "UserOp" /\ step.kind # NoKind
       /\ step.kind \in {"E0", "E1"} => l.spare = step.kind
       /\ step.kind = "E0" => l.stuck
  /\ step.do = "Await" =>
       l.pay # NoKind /\ (l.pay \in UserOps => step.event = "UserOp" /\ l.fresh)
  /\ step.do \in {"Prove", "Mint", "Used", "Confirm"} => Knows(l, step.on)
  /\ step.do = "Confirm" =>
       /\ l.about = step.on /\ step.what # "watched"
       /\ step.what # "credit" => step.on = "pay"
       /\ step.what = "op" => l.pay \in UserOps
       /\ step.what = "ignore" => l.pay = "E0"
       /\ step.what = "raise" => l.pay = "E1"
  /\ step.do = "OwnStuck" => l.pay # NoKind
  /\ step.do = "Diagnose" => l.stuck
  /\ step.do \in {"IfHas", "IfLacks", "Until"} => step.about \subseteq l.read
  /\ step.do = "Used" => step.n > 0

\* What it leaves for the step after it.  The run a crash cut short may hold
\* any payment sent since the stage began: next names its kind.
After(step, l, next) ==
  CASE step.do = "ReadNonce" -> [l EXCEPT !.fresh = FALSE]
    [] step.do = "Pay" ->
         [l EXCEPT !.pay = step.kind, !.fresh = step.kind \notin {"E0", "E1"},
                   !.spare = IF l.spare = step.kind THEN @ ELSE NoKind,
                   !.about = IF @ = "pay" THEN "none" ELSE @]
    [] step.do = "Mint" -> [l EXCEPT !.about = step.on]
    [] step.do = "Confirm" /\ step.on = "stuck" -> [l EXCEPT !.safe = TRUE]
    [] step.do = "Stage" ->
         [l EXCEPT !.pay = NoKind, !.fresh = FALSE, !.spare = next, !.about = "none"]
    [] step.do \in {"PickStuck", "OwnStuck"} ->
         [l EXCEPT !.stuck = TRUE, !.safe = FALSE, !.about = IF @ = "stuck" THEN "none" ELSE @]
    [] step.do = "Read" -> [l EXCEPT !.read = step.about]
    [] OTHER -> l

\* What it leaves where it jumps to.
AfterJump(step, l) ==
  CASE step.do = "Used" -> [l EXCEPT !.about = step.on, !.safe = @ \/ step.on = "stuck"]
    [] step.do = "Diagnose" -> [l EXCEPT !.safe = TRUE]
    [] OTHER -> l

Jumps(step) ==
  \/ step.do \in {"Used", "IfHas", "IfLacks"}
  \/ step.do = "Diagnose" /\ step.n > 0
\* An early return goes to the end of the script.
JumpTo(step, i, end) ==
  IF step.do \in {"IfHas", "IfLacks"} /\ step.n = 0 THEN end ELSE i + step.n

\* Nothing is known before the first step but that there is no stuck payment.
Nothing == [pay |-> NoKind, fresh |-> FALSE, spare |-> NoKind, stuck |-> FALSE,
            about |-> "none", safe |-> TRUE, read |-> {}]

\* What a run started again at l must have known when it failed at m.
Resumable(l, m) ==
  /\ l.spare \in {NoKind, m.spare} /\ (l.stuck => m.stuck) /\ (l.safe => m.safe)
  /\ l.read \subseteq m.read

TypedBy(code, T) ==
  LET end == Len(code) + 1 IN
  /\ T \in [1 .. end -> Known]
  /\ Implies(Nothing, T[1])
  /\ \A i \in 1 .. Len(code) :
       /\ Needs(code[i], T[i])
       /\ Implies(After(code[i], T[i], T[i + 1].spare), T[i + 1])
       /\ Jumps(code[i]) =>
            /\ JumpTo(code[i], i, end) \in i + 1 .. end
            /\ Implies(AfterJump(code[i], T[i]), T[JumpTo(code[i], i, end)])
       /\ code[i].do = "Stage" =>
            \A j \in i + 1 .. end :
              (\A k \in i + 1 .. j - 1 : code[k].do # "Stage") => Resumable(T[i + 1], T[j])
  /\ T[end].safe

ASSUME TypesAssumption ==
  \A name \in DOMAIN Programs : TypedBy(Programs[name], Types[name])

-----------------------------------------------------------------------------
(* What a type says of a run.                                              *)

\* The receipt in hand, if it is one of a mint, is what became of p.
TellsOf(r, p) ==
  /\ p \in Ids
  /\ loc[r].receipt \in {"ran", "skipped"} => ledger[p].mint = loc[r].receipt

HasType(r, l) ==
  /\ l.pay # NoKind =>
       /\ loc[r].pay \in Ids /\ ledger[loc[r].pay].kind = l.pay
       /\ l.fresh => ledger[loc[r].pay].nonce = loc[r].nonce
  /\ l.spare # NoKind => loc[r].pay = 0 \/ ledger[loc[r].pay].kind = l.spare
  /\ l.stuck => loc[r].stuck \in Ids
  /\ l.about = "pay" => TellsOf(r, loc[r].pay)
  /\ l.about = "stuck" => TellsOf(r, loc[r].stuck)
  /\ l.safe => loc[r].stuck = 0 \/ Final(loc[r].stuck)
  /\ l.read \subseteq DOMAIN loc[r].seen

RunsHaveTypes ==
  \A r \in Runs : pc[r] \in 1 .. Len(Code(r)) + 1 /\ HasType(r, Types[program[r]][pc[r]])

=============================================================================
