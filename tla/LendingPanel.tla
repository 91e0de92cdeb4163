----------------------------- MODULE LendingPanel -----------------------------
(***************************************************************************)
(* Borrowing from the page (web/components/app/LendingPanel.tsx over       *)
(* web/lib/adapters/live/chain.ts), composed with the pool it borrows from *)
(* and everybody else who uses it.                                         *)
(*                                                                         *)
(* The panel reads debt and cap when it appears and after each loan; its   *)
(* effect disowns the read before.  onBorrow is asynchronous and outlives  *)
(* the panel: what it sets after a reset is seen by the next session.      *)
(***************************************************************************)
EXTENDS LendingPool

CONSTANTS PageWallet,  \* wallet of the store, kept by a reset
          Slot,        \* onBorrow runs of one page
          MaxResets

ASSUME PanelAssumption ==
  /\ PageWallet \in Address \ {ZeroAddress}
  /\ MaxResets \in Nat

VARIABLES
  open,      \* the panel is mounted
  shown,     \* store: borrowedUnits and capUnits
  borrowTx,  \* store: borrowTxHash is set
  reads,     \* getBorrowState calls whose answer counts
  runs,      \* slot -> its run of onBorrow
  resets,
  refreshed, \* history: a read asked for after borrowTx was set has landed
  current    \* history: and what is shown is from such a read

storeVars == <<open, shown, borrowTx, resets>>
history == <<refreshed, current>>
panelVars == <<storeVars, reads, runs, history>>

NoRun == [pc |-> "none", by |-> ZeroAddress, amount |-> 0, mounted |-> FALSE]
Asked(after) == [pc |-> "tier", tier |-> 0, owed |-> 0, cap |-> 0, after |-> after]
Nothing == [owed |-> 0, cap |-> 0]

PanelInit ==
  /\ Init
  /\ open = FALSE /\ shown = Nothing /\ borrowTx = FALSE /\ resets = 0
  /\ reads = {} /\ runs = [s \in Slot |-> NoRun]
  /\ refreshed = FALSE /\ current = FALSE

-----------------------------------------------------------------------------
(* The effect of LendingPanel: a new read; the one before is cancelled.    *)

Kept_All == {[r EXCEPT !.after = FALSE] : r \in reads}
Kept == {}

\* setAttestation: the record the page watched for is on chain.
Open ==
  /\ ~open /\ attestations[PageWallet].nullifier # ZeroHash
  /\ open' = TRUE
  /\ reads' = Kept \cup {Asked(borrowTx)}
  /\ UNCHANGED <<vars, shown, borrowTx, resets, runs, history>>

\* getBorrowState: the tier, then the debt together with the cap of that tier.
ReadTier(r) ==
  /\ r.pc = "tier"
  /\ reads' = (reads \ {r}) \cup {[r EXCEPT !.pc = "debt", !.tier = Registry!TierOf(PageWallet)]}
  /\ UNCHANGED <<vars, storeVars, runs, history>>

ReadDebt(r) ==
  /\ r.pc = "debt" /\ r.tier \in DOMAIN TierCap
  /\ reads' = (reads \ {r}) \cup
       {[r EXCEPT !.pc = "answer", !.tier = 0, !.owed = borrowed[PageWallet], !.cap = TierCap[r.tier]]}
  /\ UNCHANGED <<vars, storeVars, runs, history>>

ReadLands(r) ==
  /\ r.pc = "answer"
  /\ shown' = [owed |-> r.owed, cap |-> r.cap]
  /\ refreshed' = (refreshed \/ r.after) /\ current' = r.after
  /\ reads' = reads \ {r}
  /\ UNCHANGED <<vars, open, borrowTx, resets, runs>>

\* The panel keeps what it shows.
ReadFails(r) ==
  /\ reads' = reads \ {r}
  /\ UNCHANGED <<vars, storeVars, runs, history>>

-----------------------------------------------------------------------------
(* onBorrow.                                                               *)

Available == IF shown.cap > shown.owed THEN shown.cap - shown.owed ELSE 0
Busy == \E s \in Slot : runs[s].pc # "none" /\ runs[s].mounted

\* The button is there until a loan went through.  The loan is for whatever
\* account the wallet is on, which need not be the store's.
OnBorrow(s, amount) ==
  /\ open /\ ~borrowTx /\ ~Busy /\ runs[s].pc = "none"
  /\ 0 < amount /\ amount <= Available
  /\ \E by \in Address \ {ZeroAddress} :
       runs' = [runs EXCEPT ![s] = [pc |-> "sign", by |-> by, amount |-> amount, mounted |-> TRUE]]
  /\ UNCHANGED <<vars, storeVars, reads, history>>

\* Simulated, signed and mined: the borrow of the contract.
Mined(s) ==
  /\ runs[s].pc = "sign" /\ Borrow(runs[s].by, runs[s].amount)
  /\ runs' = [runs EXCEPT ![s].pc = "mined"]
  /\ UNCHANGED <<storeVars, reads, history>>

\* setBorrowTx, whichever session the store is in by now.
BorrowReturns(s) ==
  /\ runs[s].pc = "mined"
  /\ borrowTx' = TRUE
  /\ refreshed' = FALSE /\ current' = FALSE
  /\ runs' = [runs EXCEPT ![s] = NoRun]
  /\ reads' = IF open THEN Kept \cup {Asked(TRUE)} ELSE reads
  /\ UNCHANGED <<vars, open, shown, resets>>

\* The simulation reverts, the user declines, the transaction reverts, or the
\* receipt does not come although it was mined.
BorrowFails(s) ==
  /\ runs[s].pc # "none"
  /\ runs' = [runs EXCEPT ![s] = NoRun]
  /\ UNCHANGED <<vars, storeVars, reads, history>>

-----------------------------------------------------------------------------

\* reset: the store forgets, the panel goes, its onBorrow runs on.
Reset ==
  /\ open /\ resets < MaxResets /\ resets' = resets + 1
  /\ open' = FALSE /\ shown' = Nothing /\ borrowTx' = FALSE
  /\ reads' = Kept
  /\ runs' = [s \in Slot |-> [runs[s] EXCEPT !.mounted = FALSE]]
  /\ refreshed' = FALSE /\ current' = FALSE
  /\ UNCHANGED vars

PanelNext ==
  \/ Open \/ Reset
  \/ \E r \in reads : ReadTier(r) \/ ReadDebt(r) \/ ReadLands(r) \/ ReadFails(r)
  \/ \E s \in Slot :
       \/ \E amount \in Amount : OnBorrow(s, amount)
       \/ Mined(s) \/ BorrowReturns(s) \/ BorrowFails(s)
  \/ Next /\ UNCHANGED panelVars

PanelSpec == PanelInit /\ [][PanelNext]_<<vars, panelVars>>

-----------------------------------------------------------------------------

(***************************************************************************)
(* Once the panel has refreshed after a loan, the debt it shows was read   *)
(* after that loan: neither an answer asked for earlier nor one of the     *)
(* session before covers it up.                                            *)
(***************************************************************************)
LoanIsShown == open /\ borrowTx /\ refreshed => current

=============================================================================
