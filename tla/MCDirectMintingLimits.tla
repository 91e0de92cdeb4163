----------------------- MODULE MCDirectMintingLimits -----------------------
(***************************************************************************)
(* A short window beside a long one, caps that bind separately, a mint     *)
(* above both caps and below a threshold, and time for several windows to  *)
(* pass without a mint.  Both windows begin before the first second.       *)
(***************************************************************************)
EXTENDS DirectMintingLimits

TwoWindows == {"hourly", "daily"}
Seconds == [w \in TwoWindows |-> IF w = "hourly" THEN 2 ELSE 5]

=============================================================================
