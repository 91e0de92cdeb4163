------------------------- MODULE DirectMintingLimits -------------------------
(***************************************************************************)
(* The preflight of fassets/direct-minting-limits.ts beside the limiter it *)
(* predicts.                                                               *)
(*                                                                         *)
(* The limiter of the AssetManager writes its state only when a mint       *)
(* touches it; the script replays off-chain the windows that passed since. *)
(* `live' is what the limiter would hold if it slid at every boundary, one *)
(* window at a time; `written' is what the script can read.  Until the     *)
(* first mint that is 0 and 0.  Windows are aligned to the clock.          *)
(***************************************************************************)
EXTENDS Integers

CONSTANTS Windows,        \* the limiters: hourly and daily
          Size,           \* seconds of each window
          Limits,         \* the caps a window may have; 0 stands for no cap
          Thresholds,     \* the large-mint thresholds
          LargeDelay,
          Amounts,        \* the mints proposed and executed
          StartTime,      \* the first second; the clock counts from 1970
          MaxMinted,      \* bound on the volume of a window
          MaxTime

ASSUME LimitsAssumption ==
  /\ Size \in [Windows -> Nat \ {0}] /\ Limits \subseteq Nat /\ Thresholds \subseteq Nat
  /\ LargeDelay \in Nat \ {0} /\ Amounts \subseteq Nat
  /\ MaxMinted \in Nat /\ MaxTime \in Nat
  /\ StartTime \in Nat \ {0} /\ \A w \in Windows : Size[w] <= StartTime

VARIABLES now, limit, threshold,
          unblockUntil,  \* governance lifts the windows until then
          written,       \* per window: [start, minted] as last written
          live           \* the same, slid at each boundary

limitsVars == <<now, limit, threshold, unblockUntil, written, live>>

Larger(a, b) == IF a > b THEN a ELSE b
Drained(minted, drain) == IF drain >= minted THEN 0 ELSE minted - drain

-----------------------------------------------------------------------------
(* The preflight.                                                          *)

Disabled == unblockUntil > now

ComputeWindowState_FromNow(w) ==
  IF now >= written[w].start + Size[w]
  THEN [start |-> now, minted |-> Drained(written[w].minted, limit[w])]
  ELSE written[w]

\* computeWindowState: re-anchor the window and drain what the passed ones
\* allow, unless no mint ever touched it.
ComputeWindowState(w) ==
  LET from == written[w].start
      passed == (now - from) \div Size[w]
  IN  IF from > 0 /\ now >= from + Size[w]
      THEN [start |-> from + passed * Size[w],
            minted |-> Drained(written[w].minted, passed * limit[w])]
      ELSE written[w]

Remaining_AsWritten(w) == Larger(0, limit[w] - written[w].minted)
Remaining(w) ==
  LET used == ComputeWindowState(w).minted
  IN  IF limit[w] > used THEN limit[w] - used ELSE 0

\* The overflow is scheduled in proportion to the volume minted in the window.
WindowExecutionAllowedAt(w, amount) ==
  LET state == ComputeWindowState(w)
      mintedAfter == state.minted + amount
  IN  IF Disabled \/ limit[w] = 0 \/ amount = 0 \/ mintedAfter <= limit[w] THEN now
      ELSE state.start + (Size[w] * mintedAfter) \div limit[w]

LargeMintExecutionAllowedAt(amount) ==
  IF amount > threshold THEN now + LargeDelay ELSE now

\* executionAllowedAt > now.
Delayed(amount) ==
  \/ \E w \in Windows : WindowExecutionAllowedAt(w, amount) > now
  \/ LargeMintExecutionAllowedAt(amount) > now

Headroom_WholeCap(w) == limit[w]

\* "Maximum single mint with no delay".
Headroom(w) == IF Disabled THEN limit[w] ELSE Remaining(w)
SafeRemaining(amount) ==
  amount <= threshold /\ \A w \in Windows : amount <= Headroom(w)

-----------------------------------------------------------------------------
(* The limiter.                                                            *)

LimitsInit ==
  /\ now = StartTime
  /\ limit \in [Windows -> Limits] /\ threshold \in Thresholds
  /\ unblockUntil = 0
  /\ written = [w \in Windows |-> [start |-> 0, minted |-> 0]]
  /\ live = [w \in Windows |-> [start |-> (StartTime \div Size[w]) * Size[w], minted |-> 0]]

\* A second passes; a window that ends slides by one.
Slid(w, time) ==
  IF time >= live[w].start + Size[w]
  THEN [start |-> live[w].start + Size[w], minted |-> Drained(live[w].minted, limit[w])]
  ELSE live[w]
Tick ==
  /\ now < MaxTime
  /\ now' = now + 1
  /\ live' = [w \in Windows |-> Slid(w, now + 1)]
  /\ UNCHANGED <<limit, threshold, unblockUntil, written>>

\* A mint is counted in every window, also above the cap ("accumulated minted
\* volume", lines 81-82), and the state is written.
DirectMint(amount) ==
  /\ amount > 0
  /\ \A w \in Windows : live[w].minted + amount <= MaxMinted
  /\ live' = [w \in Windows |-> [live[w] EXCEPT !.minted = @ + amount]]
  /\ written' = live'
  /\ UNCHANGED <<now, limit, threshold, unblockUntil>>

\* Governance lifts the windows for a while.
Unblock(until) ==
  /\ unblockUntil = 0 /\ until > now
  /\ unblockUntil' = until
  /\ UNCHANGED <<now, limit, threshold, written, live>>

LimitsNext == Tick \/ (\E amount \in Amounts : DirectMint(amount)) \/ (\E until \in 1 .. MaxTime : Unblock(until))

LimitsSpec == LimitsInit /\ [][LimitsNext]_limitsVars

-----------------------------------------------------------------------------
(* Properties.                                                             *)

WindowStates == [Windows -> [start : Nat, minted : Nat]]
LimitsTypeOK ==
  /\ now \in Nat \ {0} /\ limit \in [Windows -> Limits] /\ threshold \in Thresholds
  /\ unblockUntil \in Nat
  /\ written \in WindowStates /\ live \in WindowStates

\* A mint has been counted in the window.
Touched(w) == written[w].start > 0

\* However long nobody minted, the volume the script replays is the one the
\* limiter has (lines 45-48), and once a mint touched it so is the window.
ReplayAgrees == \A w \in Windows :
  /\ ComputeWindowState(w).minted = live[w].minted
  /\ Touched(w) => ComputeWindowState(w).start = live[w].start

\* An amount the script calls safe executes at once, whatever was minted
\* before and whichever mechanism is in force.
SafeAmountIsNotDelayed == \A amount \in Amounts : SafeRemaining(amount) => ~Delayed(amount)

InForce == ~Disabled /\ \A w \in Windows : limit[w] > 0

\* What exceeds the safe amount is announced as delayed, while the windows are
\* in force, every one of them has a cap, and every one has been touched by a
\* mint.  (While the windows are lifted or one has a cap of 0, the script names
\* a smaller maximum than the mechanisms do; for the last, see below.)
UnsafeAmountIsDelayed ==
  InForce /\ (\A w \in Windows : Touched(w)) =>
    \A amount \in Amounts \ {0} : ~SafeRemaining(amount) => Delayed(amount)

\* Lines 81-82: "overflow is scheduled into the current tumbling window".  Not
\* so before the first mint: the script takes the window to start at 0, and
\* what exceeds the cap is scheduled into the past and announced as immediate
\* (lines 65-68 and 109-111).
OverflowWaits ==
  InForce => \A amount \in Amounts \ {0} : ~SafeRemaining(amount) => Delayed(amount)

=============================================================================
