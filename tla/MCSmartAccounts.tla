-------------------------- MODULE MCSmartAccounts --------------------------
(***************************************************************************)
(* Executions of the starter scripts on one XRPL wallet: every script by   *)
(* itself, some beside a recovery of what they leave unminted, and pairs   *)
(* that share the nonce, the holdings or an event.                         *)
(***************************************************************************)
EXTENDS LendingPayouts, StarterScripts

TwoRuns == {"first", "second"}

NoAssets == [a \in StarterAssets |-> 0]
\* One unit of everything but what is on its way to another chain; the vault
\* can pay two loans.
OneOfEach == [a \in StarterAssets |->
  CASE \E route \in StarterRoutes : a = route[1] -> 0
    [] a = "vaultMpt" -> 2
    [] OTHER -> 1]

Start(a, b, purse, stock) ==
  [program |-> [r \in TwoRuns |-> IF r = "first" THEN a ELSE b],
   funds |-> purse, holds |-> stock]

\* Alone, with and without assets, with a full wallet and with one that pays once.
Alone == {Start(name, "idle", purse, stock) :
            name \in DOMAIN StarterPrograms, purse \in {1, 8}, stock \in {NoAssets, OneOfEach}}
Pairs == {<<"redeem", "recover">>, <<"redeemMemo", "recover">>, <<"customMemo", "recover">>,
          <<"redeem", "fastForward">>, <<"redeemMemo", "fastForwardOnly">>,
          <<"redeemMemo", "redeemMemo">>, <<"redeemMemo", "redeem">>,
          <<"redeem", "redeem">>, <<"recoverDemo", "recover">>,
          <<"cashOut", "fundMemo">>,
          <<"lending", "lending">>, <<"directMint", "directMint">>}
StarterScenarios == Alone \union {Start(pair[1], pair[2], 8, OneOfEach) : pair \in Pairs}

-----------------------------------------------------------------------------
(* The types of the programs.  The scripts only jump forward, so they are  *)
(* found in one pass: before a step is known what every way to it leaves.  *)

\* The kind of the next payment.
NextKind(code, i) ==
  LET pays == {j \in i .. Len(code) : code[j].do = "Pay"}
  IN IF pays = {} THEN NoKind ELSE code[CHOOSE j \in pays : \A k \in pays : j <= k].kind
\* What several types all state.
Common(L) ==
  LET one == CHOOSE l \in L : TRUE
      Same(v(_), other) == IF \A l \in L : v(l) = v(one) THEN v(one) ELSE other
  IN [pay |-> Same(LAMBDA l : l.pay, NoKind), fresh |-> \A l \in L : l.fresh,
      spare |-> Same(LAMBDA l : l.spare, NoKind), stuck |-> \A l \in L : l.stuck,
      about |-> Same(LAMBDA l : l.about, "none"), safe |-> \A l \in L : l.safe,
      read |-> {a \in one.read : \A l \in L : a \in l.read}]
\* A step's type is what all steps that lead to it leave.
Infer(code) ==
  LET end == Len(code) + 1
      Ty[i \in 1 .. end] ==
        IF i = 1 THEN Nothing
        ELSE Common({After(code[i - 1], Ty[i - 1], NextKind(code, i))} \union
                    {AfterJump(code[j], Ty[j]) : j \in {j \in 1 .. i - 1 : Jumps(code[j]) /\ JumpTo(code[j], j, end) = i}})
  IN Ty
StarterTypes == [name \in DOMAIN StarterPrograms |-> Infer(StarterPrograms[name])]

-----------------------------------------------------------------------------
(* Their phases, in one pass as well.  A script that can be resumed claims  *)
(* nothing.                                                                *)

InferPhases(code) ==
  LET end == Len(code) + 1
      Only(phases) == IF Cardinality(phases) = 1 THEN CHOOSE ph \in phases : TRUE ELSE "any"
      Ph[i \in 1 .. end] ==
        IF \E j \in DOMAIN code : code[j].do = "Stage" THEN "any"
        ELSE IF i = 1 THEN "clear"
        ELSE Only({PhaseAfter(code[i - 1], Ph[i - 1])} \union
                  {Ph[j] : j \in {j \in 1 .. i - 1 : Jumps(code[j]) /\ JumpTo(code[j], j, end) = i}})
  IN Ph
StarterPhases == [name \in DOMAIN StarterPrograms |-> InferPhases(StarterPrograms[name])]

=============================================================================
