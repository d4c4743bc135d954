-------------------------- MODULE MCExperimentLedger --------------------------
(***************************************************************************)
(* Two ledgers for the runs of ExperimentLedger, one of them chosen at the *)
(* start: one with an uncontrolled contract in quarantine, a v4 launch     *)
(* above it and a v3 launch, and one with a supervised plan in quarantine  *)
(* and a plain experiment.  The experiments of the other ledger are never  *)
(* registered.                                                             *)
(***************************************************************************)
EXTENDS ExperimentLedger, TLC

CONSTANTS old, own, other, sup, plain

VARIABLE controlled  \* which of the two

MCExperiments == {old, own, other, sup, plain}
MCKind == (old :> "contract") @@ (own :> "v4") @@ (other :> "v3")
            @@ (sup :> "supervised") @@ (plain :> "plain")
MCQuarantined == {old, sup}

Controllable == INSTANCE ExperimentLedger
                  WITH Experiments <- {old, own, other}, Quarantined <- {old}
Generic == INSTANCE ExperimentLedger
             WITH Experiments <- {sup, plain}, Quarantined <- {sup}

MCInit == Init /\ controlled \in BOOLEAN
MCNext ==
  /\ IF controlled THEN Controllable!Next ELSE Generic!Next
  /\ UNCHANGED controlled
MCSpec == MCInit /\ [][MCNext]_<<vars, controlled>>

ProcSymmetry == Permutations(Procs)
=============================================================================
