---------------------------- MODULE SolvencyLedger ----------------------------
(***************************************************************************)
(* What the registry promises, without timestamps, structs or bindings: a  *)
(* ledger of which wallets have credit, of what tier and from which        *)
(* exchange account.  An account backs at most one wallet at a time, a     *)
(* request is honoured once, and credit lapses.  SolvencyRegistry is shown *)
(* to implement this.                                                      *)
(***************************************************************************)
EXTENDS Naturals

CONSTANTS Wallet,      \* wallets that can hold credit
          Account,     \* exchange accounts, as the ledger sees them
          Request,     \* requests that can be honoured
          Grade,       \* tiers of credit
          NoCredit     \* a wallet without credit

VARIABLES credit,      \* wallet -> its credit
          honoured     \* requests already honoured

vars == <<credit, honoured>>

Credit == [tier : Grade, account : Account]

Init ==
  /\ credit = [w \in Wallet |-> NoCredit]
  /\ honoured = {}

\* Account a backs a wallet other than w.
BacksAnother(a, w) ==
  \E v \in Wallet \ {w} : credit[v] # NoCredit /\ credit[v].account = a

\* A request is honoured for a wallet from an account that backs no other.  The
\* credit may be over at once (it is granted for no time at all).
Grant(w, a, t, r) ==
  /\ r \notin honoured
  /\ ~BacksAnother(a, w)
  /\ honoured' = honoured \cup {r}
  /\ credit' \in {[credit EXCEPT ![w] = [tier |-> t, account |-> a]],
                  [credit EXCEPT ![w] = NoCredit]}

\* A request is honoured for an address that is no wallet: nothing is granted.
Waste(r) ==
  /\ r \notin honoured
  /\ honoured' = honoured \cup {r}
  /\ UNCHANGED credit

\* Time passes and the credit of some wallets lapses.
Lapse(lapsed) ==
  /\ credit' = [w \in Wallet |-> IF w \in lapsed THEN NoCredit ELSE credit[w]]
  /\ UNCHANGED honoured

Next ==
  \/ \E w \in Wallet, a \in Account, t \in Grade, r \in Request : Grant(w, a, t, r)
  \/ \E r \in Request : Waste(r)
  \/ \E lapsed \in SUBSET Wallet : Lapse(lapsed)

Spec == Init /\ [][Next]_vars

=============================================================================
