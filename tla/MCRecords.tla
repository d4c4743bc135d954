------------------------------- MODULE MCRecords -------------------------------
(***************************************************************************)
(* Records that several actors write without a lock over the whole of an   *)
(* operation.  A behaviour is one of a single component, chosen at the     *)
(* start: the receipts of collectors that race, the receipts of one that   *)
(* tries again, the alerts, the notification of health, the personal book, *)
(* the current pool, or the caches of a scan.                              *)
(***************************************************************************)
EXTENDS PitReceipts, MonitorAlerts, HealthAlert, PersonalBook, PoolPublication,
        ContextCache

CONSTANTS c1, c2, p1, p2

VARIABLE kind

MCPlan == [c \in {c1, c2} |-> IF c = c1 THEN {p1, p2} ELSE {p1}]

Rivals == INSTANCE PitReceipts WITH MaxTries <- 1, Refused <- {}
Solo == INSTANCE PitReceipts WITH MaxRuns <- 1

Kinds == {"rivals", "solo", "monitor", "health", "book", "pool", "cache"}

MCInit ==
  /\ kind \in Kinds
  /\ Init /\ MonitorInit /\ HealthInit /\ BookInit /\ PoolInit /\ CacheInit
  /\ kind # "pool" => target = Missing

\* One line of the alerts at most is cut short of its newline or does not parse.
OneTear == Cardinality({i \in 1..Len(file) :
  file[i].text # "whole" \/ (fileCut /\ i = Len(file))}) <= 1

Receipts == kind \in {"rivals", "solo"}
MCNext ==
  /\ UNCHANGED kind
  /\ \/ kind = "rivals" /\ Rivals!Next
     \/ kind = "solo" /\ Solo!Next
     \/ ~Receipts /\ UNCHANGED vars
  /\ IF kind = "monitor" THEN MonitorNext /\ OneTear' ELSE UNCHANGED monitorVars
  /\ IF kind = "health" THEN HealthNext ELSE UNCHANGED healthVars
  /\ IF kind = "book" THEN BookNext ELSE UNCHANGED bookVars
  /\ IF kind = "pool" THEN PoolNext ELSE UNCHANGED poolVars
  /\ IF kind = "cache" THEN CacheNext ELSE UNCHANGED cacheVars

\* What is fair is the work of the component chosen.
MCFairness ==
  /\ \A f \in Fetches :
       WF_vars((kind = "rivals" /\ Rivals!Work(f)) \/ (kind = "solo" /\ Solo!Work(f)))
  /\ \A c \in Collectors : WF_vars(Receipts /\ End(c))
  /\ WF_healthVars(kind = "health" /\ Hour)
  /\ \A k \in Checks :
       /\ WF_healthVars(kind = "health" /\ CheckSteps(k))
       /\ SF_healthVars(kind = "health" /\ Deliver(k))

allVars == <<kind, vars, monitorVars, healthVars, bookVars, poolVars, cacheVars>>
MCSpec == MCInit /\ [][MCNext]_allVars /\ MCFairness
=============================================================================
