------------------------------ MODULE MCResearch ------------------------------
(***************************************************************************)
(* What guards the research runs.  A behaviour is one of a single          *)
(* component, chosen at the start: the supervised precompute launch, the   *)
(* execution ledger of the formal supervisor, or the selection of a        *)
(* portfolio.                                                              *)
(***************************************************************************)
EXTENDS PrecomputeLaunch, FormalLaunch, PortfolioSelection, TLC

CONSTANTS a, b, again, late, k1, k2

VARIABLE kind

\* Two resumes of one run, and a run that shares its id.
MCOriginal == (again :> a) @@ (late :> a)
MCReplayKey ==
  [r \in {a, b} |-> [c \in Categories |-> IF r = b /\ c # "id" THEN k2 ELSE k1]]

\* The same portfolio with the receipts of version 1, with the cap of an
\* industry, and with a top_n of zero.
Version1 == INSTANCE PortfolioSelection WITH SameDayExit <- FALSE
Capped == INSTANCE PortfolioSelection WITH IndustryCap <- TRUE
Single == INSTANCE PortfolioSelection WITH TopN <- 0

Selectors == {"select", "version1", "capped", "single"}

MCInit ==
  /\ kind \in {"launch", "formal"} \cup Selectors
  /\ Init /\ FormalInit /\ SelectionInit

MCNext ==
  /\ UNCHANGED kind
  /\ IF kind = "launch" THEN Next ELSE UNCHANGED vars
  /\ IF kind = "formal" THEN FormalNext ELSE UNCHANGED formalVars
  /\ \/ kind = "select" /\ SelectionNext
     \/ kind = "version1" /\ Version1!SelectionNext
     \/ kind = "capped" /\ Capped!SelectionNext
     \/ kind = "single" /\ Single!SelectionNext
     \/ kind \notin Selectors /\ UNCHANGED selectionVars

MCFairness ==
  /\ \A p \in Parents :
       WF_vars(kind = "launch" /\ Step(p)) /\ WF_vars(kind = "launch" /\ Begin(p))
  /\ WF_vars(kind = "launch" /\ ChildStep) /\ WF_vars(kind = "launch" /\ JobCloses)

MCSpec == MCInit /\ [][MCNext]_<<kind, vars, formalVars, selectionVars>> /\ MCFairness
=============================================================================
