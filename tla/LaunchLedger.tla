------------------------------ MODULE LaunchLedger ------------------------------
(***************************************************************************)
(* What the experiment ledger is to one controlled launch: the last row    *)
(* of its experiment, and whether that row is the last of all.  A launch   *)
(* as in PrecomputeLaunch does no more to the ledger than this, and the    *)
(* users of ExperimentLedger do no more to it under the launch: so it may  *)
(* be modelled against these two variables instead of the file.            *)
(***************************************************************************)

CONSTANT Quarantine  \* a launch over experiments in quarantine (contract v4)

VARIABLES
  own,   \* "none" before the registration, then the last row of the experiment
  atTip  \* it is the last row of the ledger

\* A launch is looked at from before its registration, or from then on.
Init ==
  \/ own = "none" /\ atTip = FALSE
  \/ own = "registered" /\ atTip = TRUE

Register == own = "none" /\ own' = "registered" /\ atTip' = TRUE

\* The launch and its end need the tip.
AppendRow(from, to) == own = from /\ atTip /\ own' = to /\ UNCHANGED atTip

Launch == AppendRow("registered", "launched")
End == AppendRow("launched", "completed") \/ AppendRow("launched", "failed")

\* While the launch is open only the quarantine can append.
OthersAppend ==
  /\ atTip /\ atTip' = FALSE
  /\ own = "launched" => Quarantine
  /\ UNCHANGED own

\* A registration is given up, or a result is claimed, wherever the tip is.
OthersMove ==
  /\ \/ own = "registered" /\ own' = "withdrawn"
     \/ own = "completed" /\ own' = "moved"
  /\ atTip' = TRUE

Next == Register \/ Launch \/ End \/ OthersAppend \/ OthersMove

Spec == Init /\ [][Next]_<<own, atTip>>
=============================================================================
