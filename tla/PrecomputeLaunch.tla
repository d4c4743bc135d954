--------------------------- MODULE PrecomputeLaunch ---------------------------
(***************************************************************************)
(* One supervised precompute launch: the parent command                    *)
(* (app/research_precompute_parent.py), the supervisor and the child's     *)
(* verifier (app/research_precompute_control.py), the process launcher     *)
(* (app/research_supervised_launcher.py) and the child's side of its       *)
(* handshake (app/research_launcher_ack.py, jobs.py).                      *)
(*                                                                         *)
(* The experiment ledger enters as the last row of the one experiment that *)
(* is launched and whether that row is the tip; ExperimentLedger says when *)
(* either may move.  A ledger append may raise after its row has become    *)
(* durable.  A parent may die anywhere; the system then frees its named    *)
(* mutex and, later, closes the job its child runs in, which kills it.     *)
(***************************************************************************)
EXTENDS Naturals

CONSTANTS
  Parents,     \* invocations of the parent command
  Quarantine,  \* the launch is v4: experiments in quarantine may still move
  MaxFaults,   \* crashes and appends that raise, per behaviour
  Nobody

ASSUME LaunchAssumption ==
  /\ Quarantine \in BOOLEAN
  /\ MaxFaults \in Nat
  /\ Nobody \notin Parents

VARIABLES
  own,      \* the experiment's last row
  atTip,    \* it is the last row of the ledger
  owner,    \* who owns the named mutex of the registration
  pc,       \* where each parent is
  started,  \* launch_started is known to the parent's call
  result,   \* so is run_result
  outcome,  \* how each parent's last call ended
  files,    \* the run's files, each created once
  child,    \* where the child is
  doomed,   \* its job is being closed
  faults

vars == <<own, atTip, owner, pc, started, result, outcome, files, child, doomed, faults>>
ledger == <<own, atTip>>
call == <<started, result>>
work == <<files, child, doomed>>

Rows == {"registered", "withdrawn", "launched", "completed", "failed", "moved"}
Steps == {"idle", "select", "authorize", "materialize", "claim", "verify", "spawn",
          "attach", "await", "wait", "record", "complete", "except", "seal", "sealed"}
Outcomes == {"none", "completed", "recovered", "reconciled", "raised", "unsealed", "crashed"}
Files == {"dirs", "claim", "lease", "ack", "output", "result"}
Live == {"running", "leased", "ready", "acked", "computing", "written"}

TypeOK ==
  /\ own \in Rows
  /\ atTip \in BOOLEAN
  /\ owner \in Parents \cup {Nobody}
  /\ pc \in [Parents -> Steps]
  /\ started \in [Parents -> BOOLEAN]
  /\ result \in [Parents -> BOOLEAN]
  /\ outcome \in [Parents -> Outcomes]
  /\ files \in SUBSET Files
  /\ child \in Live \cup {"none", "suspended", "success", "failure"}
  /\ doomed \in BOOLEAN
  /\ faults \in 0 .. MaxFaults

Init ==
  /\ own = "registered" /\ atTip = TRUE
  /\ owner = Nobody
  /\ pc = [p \in Parents |-> "idle"]
  /\ started = [p \in Parents |-> FALSE]
  /\ result = [p \in Parents |-> FALSE]
  /\ outcome = [p \in Parents |-> "none"]
  /\ files = {} /\ child = "none" /\ doomed = FALSE
  /\ faults = 0

Go(p, from, to) == pc[p] = from /\ pc' = [pc EXCEPT ![p] = to]

Fault == faults < MaxFaults /\ faults' = faults + 1

\* The call ends: the mutex is released.
Ends(p, how) ==
  /\ pc' = [pc EXCEPT ![p] = "idle"]
  /\ outcome' = [outcome EXCEPT ![p] = how]
  /\ owner' = IF owner = p THEN Nobody ELSE owner
  /\ started' = [started EXCEPT ![p] = FALSE]
  /\ result' = [result EXCEPT ![p] = FALSE]

\* A row of the experiment is appended while the last one is the tip.
AppendRow(from, to) == own = from /\ atTip /\ own' = to /\ UNCHANGED atTip

(***************************************************************************)
(* _read_exact_v2_launch_state: the launch or its terminal event when that *)
(* is the tip; anything else after a launch raises.                        *)
(***************************************************************************)
State ==
  IF own \in {"registered", "withdrawn"} THEN "none"
  ELSE IF atTip /\ own # "moved" THEN own
  ELSE "ambiguous"

-----------------------------------------------------------------------------
(* The parent command: main, under the mutex of the registration. *)

\* Mutant: parents do not exclude each other.
BeginUnguarded(p) ==
  /\ Go(p, "idle", "select")
  /\ owner' = p
  /\ UNCHANGED <<ledger, call, outcome, work, faults>>

\* WaitForSingleObject(0): free, or abandoned by a parent that died.
Begin(p) ==
  /\ owner = Nobody
  /\ Go(p, "idle", "select")
  /\ owner' = p
  /\ UNCHANGED <<ledger, call, outcome, work, faults>>

\* Mutant: a launch whose run directory is not fresh is left alone.
ReconcileFresh(p) ==
  /\ pc[p] = "select" /\ files = {}
  /\ AppendRow("launched", "failed")
  /\ \/ Ends(p, "reconciled") /\ UNCHANGED faults
     \/ Ends(p, "raised") /\ Fault
  /\ UNCHANGED work

\* A launch that is the tip has lost its parent: it is sealed as failed.
Reconcile(p) ==
  /\ pc[p] = "select"
  /\ AppendRow("launched", "failed")
  /\ \/ Ends(p, "reconciled") /\ UNCHANGED faults
     \/ Ends(p, "raised") /\ Fault
  /\ UNCHANGED work

ReconcileFails(p) ==
  /\ pc[p] = "select" /\ own = "launched" /\ atTip
  /\ Ends(p, "raised") /\ Fault
  /\ UNCHANGED <<ledger, work>>

\* The registration is the tip and its run directory holds only the proof.
Select(p) ==
  /\ own = "registered" /\ atTip /\ files = {}
  /\ Go(p, "select", "authorize")
  /\ UNCHANGED <<ledger, owner, call, outcome, work, faults>>

SelectNothing(p) ==
  /\ pc[p] = "select"
  /\ ~(own = "launched" /\ atTip)
  /\ ~(own = "registered" /\ atTip /\ files = {})
  /\ Ends(p, "raised")
  /\ UNCHANGED <<ledger, work, faults>>

-----------------------------------------------------------------------------
(* run_registered_precompute_supervised_v2. *)

Authorize(p) ==
  /\ AppendRow("registered", "launched")
  /\ \/ /\ Go(p, "authorize", "materialize")
        /\ started' = [started EXCEPT ![p] = TRUE]
        /\ UNCHANGED faults
     \/ /\ Go(p, "authorize", "except")
        /\ Fault
        /\ UNCHANGED started
  /\ UNCHANGED <<owner, result, outcome, work>>

\* Somebody appended since the rows were read.
AuthorizeRefused(p) ==
  /\ ~(own = "registered" /\ atTip)
  /\ Go(p, "authorize", "except")
  /\ UNCHANGED <<ledger, owner, call, outcome, work, faults>>

\* Create a file or directory of the run; the call may raise before or after.
\* It cannot exist: a registration is launched once, on a fresh directory.
Create(p, from, file, to) ==
  /\ file \notin files
  /\ \/ Go(p, from, to) /\ files' = files \cup {file} /\ UNCHANGED faults
     \/ Go(p, from, "except") /\ files' \in {files, files \cup {file}} /\ Fault
  /\ UNCHANGED <<ledger, owner, started, outcome, child, doomed>>

Materialize(p) == Create(p, "materialize", "dirs", "claim") /\ UNCHANGED result

PublishClaim(p) == Create(p, "claim", "claim", "verify") /\ UNCHANGED result

\* verify_registered_precompute_v2: the launch is the experiment's last row.
Verifies == own = "launched" /\ "claim" \in files

Verify(p) ==
  /\ Go(p, "verify", IF Verifies THEN "spawn" ELSE "except")
  /\ UNCHANGED <<ledger, owner, call, outcome, work, faults>>

-----------------------------------------------------------------------------
(* run_supervised. *)

\* Mutant: the child runs before it is in the job.
SpawnRunning(p) ==
  /\ Go(p, "spawn", "attach")
  /\ child' = "running"
  /\ UNCHANGED <<ledger, owner, call, outcome, files, doomed, faults>>

\* The child is created suspended, or not at all.
Spawn(p) ==
  /\ \/ Go(p, "spawn", "attach") /\ child' = "suspended"
     \/ Go(p, "spawn", "except") /\ UNCHANGED child
  /\ UNCHANGED <<ledger, owner, call, outcome, files, doomed, faults>>

\* The child joins the job and is resumed.
Attach(p) ==
  /\ Go(p, "attach", "await")
  /\ child' = "running"
  /\ UNCHANGED <<ledger, owner, call, outcome, files, doomed, faults>>

Acknowledge(p) ==
  /\ child = "ready"
  /\ Go(p, "await", "wait")
  /\ files' = files \cup {"ack"}
  /\ UNCHANGED <<ledger, owner, call, outcome, child, doomed, faults>>

\* The child is terminated and reaped before the call raises.
Terminate(p) ==
  /\ pc' = [pc EXCEPT ![p] = "except"]
  /\ child' = IF child = "success" THEN child ELSE "failure"
  /\ UNCHANGED <<ledger, owner, call, outcome, files, doomed>>

\* No READY in time, READY of a child that is gone, a child that exited with
\* another code than zero; or an exception while the child works.
GiveUp(p) ==
  /\ \/ pc[p] \in {"attach", "await"} /\ UNCHANGED faults
     \/ pc[p] = "wait" /\ child = "failure" /\ UNCHANGED faults
     \/ pc[p] = "wait" /\ Fault
  /\ Terminate(p)

\* Mutant: the exit code is not looked at.
JoinAny(p) ==
  /\ child \in {"success", "failure"}
  /\ Go(p, "wait", "record")
  /\ UNCHANGED <<ledger, owner, call, outcome, work, faults>>

\* The child exited with code zero and the receipt is written.
Join(p) ==
  /\ child = "success"
  /\ Go(p, "wait", "record")
  /\ UNCHANGED <<ledger, owner, call, outcome, work, faults>>

\* create_precompute_run_result_v1, over the receipt and the output: a child
\* that exits with code zero has written it.
Record(p) ==
  /\ "output" \in files
  /\ Create(p, "record", "result", "complete")
  /\ result' = [result EXCEPT ![p] = (pc'[p] = "complete")]

Complete(p) ==
  /\ pc[p] = "complete"
  /\ AppendRow("launched", "completed")
  /\ \/ Ends(p, "completed") /\ UNCHANGED faults
     \/ Go(p, "complete", "except") /\ Fault /\ UNCHANGED <<owner, call, outcome>>
  /\ UNCHANGED work

CompleteRefused(p) ==
  /\ Go(p, "complete", "except")
  /\ \/ ~(own = "launched" /\ atTip) /\ UNCHANGED faults
     \/ Fault
  /\ UNCHANGED <<ledger, owner, call, outcome, work>>

-----------------------------------------------------------------------------
(* The exception handler of run_registered_precompute_supervised_v2. *)

\* Mutant: the handler never asks whether the completion was committed.
ConsultsBeforeLaunch(p) == ~started[p]

\* It reads the state when it does not know of a launch, or when it may have
\* been completed.
Consults(p) == ~started[p] \/ result[p]

Recover(p) ==
  /\ pc[p] = "except"
  /\ Consults(p) /\ result[p] /\ State = "completed"
  /\ Ends(p, "recovered")
  /\ UNCHANGED <<ledger, work, faults>>

Reraise(p) ==
  /\ pc[p] = "except"
  /\ Consults(p)
  /\ State \notin {"launched"}
  /\ ~(result[p] /\ State = "completed")
  /\ ~(started[p] /\ State = "none")
  /\ Ends(p, "raised")
  /\ UNCHANGED <<ledger, work, faults>>

ToSeal(p) ==
  /\ Consults(p) => (State = "launched" \/ (started[p] /\ State = "none"))
  /\ Go(p, "except", "seal")
  /\ UNCHANGED <<ledger, owner, call, outcome, work, faults>>

Seal(p) ==
  /\ pc[p] = "seal"
  /\ AppendRow("launched", "failed")
  /\ \/ Ends(p, "raised") /\ UNCHANGED faults
     \/ Go(p, "seal", "sealed") /\ Fault /\ UNCHANGED <<owner, call, outcome>>
  /\ UNCHANGED work

SealRefused(p) ==
  /\ Go(p, "seal", "sealed")
  /\ \/ ~(own = "launched" /\ atTip) /\ UNCHANGED faults
     \/ Fault
  /\ UNCHANGED <<ledger, owner, call, outcome, work>>

\* The sealing call raised: was the row committed?
SealRead(p) ==
  /\ pc[p] = "sealed"
  /\ Ends(p, IF State = "failed" THEN "raised" ELSE "unsealed")
  /\ UNCHANGED <<ledger, work, faults>>

-----------------------------------------------------------------------------
(* The child: consume_registered_precompute_launch_v2, READY, the wait for   *)
(* the acknowledgement, a second verification, the run.                      *)

ChildGoes(from, to) ==
  /\ child = from /\ child' = to
  /\ UNCHANGED <<ledger, owner, pc, call, outcome, doomed, faults>>

Consume ==
  /\ Verifies /\ "lease" \notin files
  /\ ChildGoes("running", "leased")
  /\ files' = files \cup {"lease"}

SayReady == Verifies /\ ChildGoes("leased", "ready") /\ UNCHANGED files

SeeAck == "ack" \in files /\ ChildGoes("ready", "acked") /\ UNCHANGED files

Reverify == Verifies /\ ChildGoes("acked", "computing") /\ UNCHANGED files

WriteOutput ==
  /\ ChildGoes("computing", "written")
  /\ files' = files \cup {"output"}

Exit == ChildGoes("written", "success") /\ UNCHANGED files

\* It refuses, times out, fails or is killed.
ChildFails == \E s \in Live : ChildGoes(s, "failure") /\ UNCHANGED files

\* The job of a dead parent is closed.
JobCloses ==
  /\ doomed /\ child \in Live
  /\ child' = "failure"
  /\ UNCHANGED <<ledger, owner, pc, call, outcome, files, doomed, faults>>

-----------------------------------------------------------------------------
(* Everybody else. *)

\* The parent dies.  A child that is not in its job yet stays as it is.
Crash(p) ==
  /\ pc[p] # "idle"
  /\ Ends(p, "crashed")
  /\ doomed' = (doomed \/ pc[p] \in {"await", "wait"})
  /\ Fault
  /\ UNCHANGED <<ledger, files, child>>

\* Somebody appends a row of another experiment: while the launch is open only
\* one in quarantine can.
OthersAppend ==
  /\ atTip /\ atTip' = FALSE
  /\ own = "launched" => Quarantine
  /\ UNCHANGED <<own, owner, pc, call, outcome, work, faults>>

\* Somebody fails the registration, or claims or fails the result.
OthersMove ==
  /\ \/ own = "registered" /\ own' = "withdrawn"
     \/ own = "completed" /\ own' = "moved"
  /\ atTip' = TRUE
  /\ UNCHANGED <<owner, pc, call, outcome, work, faults>>

Step(p) ==
  \/ Reconcile(p) \/ ReconcileFails(p) \/ Select(p) \/ SelectNothing(p)
  \/ Authorize(p) \/ AuthorizeRefused(p) \/ Materialize(p) \/ PublishClaim(p)
  \/ Verify(p) \/ Spawn(p) \/ Attach(p) \/ Acknowledge(p)
  \/ GiveUp(p) \/ Join(p) \/ Record(p)
  \/ Complete(p) \/ CompleteRefused(p)
  \/ Recover(p) \/ Reraise(p) \/ ToSeal(p) \/ Seal(p) \/ SealRefused(p) \/ SealRead(p)

ChildStep ==
  \/ Consume \/ SayReady \/ SeeAck \/ Reverify \/ WriteOutput \/ Exit \/ ChildFails

Next ==
  \/ \E p \in Parents : Begin(p) \/ Step(p) \/ Crash(p)
  \/ ChildStep \/ JobCloses
  \/ OthersAppend \/ OthersMove

Spec == Init /\ [][Next]_vars

\* A process that runs goes on, a wait has a timeout, the system closes the job
\* of a dead process, and somebody runs the command again after a crash.
Fairness ==
  /\ \A p \in Parents : WF_vars(Step(p)) /\ WF_vars(Begin(p))
  /\ WF_vars(ChildStep) /\ WF_vars(JobCloses)

FairSpec == Spec /\ Fairness

-----------------------------------------------------------------------------
(***************************************************************************)
(* Properties.                                                             *)
(***************************************************************************)

\* The launch does to the ledger what LaunchLedger lets it do, and expects of the
\* others what the ledger lets them do.
Seen == INSTANCE LaunchLedger
MovesItsRow == Seen!Spec

\* A completed launch has its output and its result on file, whichever of the
\* calls raised, and its child ended well.
CompletedHasResult ==
  own \in {"completed", "moved"} => {"output", "result"} \subseteq files /\ child = "success"

\* A call that got as far as a result returns if the launch is completed at
\* the tip of the ledger, and raises if it is not, whichever of its own calls
\* raised.  (When others appended meanwhile it raises although the launch is
\* completed: the handler calls that ambiguous.)
OutcomeIsTrue ==
  [][\A p \in Parents :
       pc[p] # "idle" /\ pc'[p] = "idle" /\ result[p] /\ outcome'[p] # "crashed"
         => (outcome'[p] \in {"completed", "recovered"} <=> own' = "completed" /\ atTip')]_vars

\* Nobody works for a launch that is not open, except a child whose job is
\* being closed: a parent never seals the launch of another one that lives.
SealedIsQuiet == child \in Live /\ own # "launched" => doomed

\* A launch is closed although the parent that authorized it died or could not
\* seal it, unless the quarantine took the tip of the ledger from it.
LaunchIsClosed == (own = "launched") ~> (own # "launched" \/ ~atTip)
=============================================================================
