-------------------------- MODULE ExperimentLifecycle --------------------------
(***************************************************************************)
(* What the experiment ledger promises about its experiments, without the  *)
(* file: each one moves forward along the path of its kind, once; it may   *)
(* be given up until it is completed; a precompute launch starts only when *)
(* nothing else is open but the experiments frozen in quarantine, and      *)
(* while it runs nobody registers; only a frozen experiment still moves.   *)
(***************************************************************************)
EXTENDS Naturals, Sequences

CONSTANTS
  Experiments,
  Kind,         \* Kind[e]: "plain", "contract", "supervised", "v3" or "v4"
  Quarantined   \* the registered experiments a "v4" launch tolerates

VARIABLE status

\* The path of each kind, without its failures.
Path(k) ==
  CASE k = "plain"      -> <<"registered", "completed">>
    [] k = "contract"   -> <<"registered", "validation_started", "completed">>
    [] k = "supervised" -> <<"registered", "precompute_completed",
                             "validation_started", "completed">>
    [] OTHER            -> <<"registered", "precompute_launch_started",
                             "precompute_completed", "validation_started",
                             "completed">>

Closed == {"decision", "failed", "aborted"}
Open(e) == status[e] \notin Closed \cup {"none"}
Launching(e) == status[e] = "precompute_launch_started"

\* Nothing but sleeping, quarantined experiments is open beside e.
Alone(e) ==
  \A f \in Experiments \ {e} :
    Open(f) => Kind[e] = "v4" /\ f \in Quarantined /\ status[f] = "registered"

Set(e, t) == status' = [status EXCEPT ![e] = t]

\* No newcomer while a launch runs.
Register(e) ==
  /\ status[e] = "none"
  /\ \A f \in Experiments : ~Launching(f)
  /\ Set(e, "registered")

Proceed(e) ==
  \E i \in 1 .. Len(Path(Kind[e])) - 1 :
    /\ status[e] = Path(Kind[e])[i]
    /\ Path(Kind[e])[i + 1] = "precompute_launch_started" => Alone(e)
    /\ Set(e, Path(Kind[e])[i + 1])

GiveUp(e) ==
  /\ Open(e) /\ status[e] \notin {"completed", "reviewed"}
  /\ \E t \in {"failed", "aborted"} : Set(e, t)

Conclude(e) ==
  \/ status[e] = "completed" /\ Set(e, "reviewed")
  \/ status[e] \in {"completed", "reviewed"} /\ Set(e, "decision")

Init == status = [e \in Experiments |-> "none"]

Next == \E e \in Experiments : Register(e) \/ Proceed(e) \/ GiveUp(e) \/ Conclude(e)

Spec == Init /\ [][Next]_status
=============================================================================
