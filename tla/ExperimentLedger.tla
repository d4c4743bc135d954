--------------------------- MODULE ExperimentLedger ---------------------------
(***************************************************************************)
(* The experiment ledger of app/research_validation.py: a file of JSON     *)
(* lines chained by hash, next to a lock file that is created with it.     *)
(* Every operation opens the lock, takes flock, reads and validates the    *)
(* whole ledger, decides, appends one row, and releases.                   *)
(*                                                                         *)
(* Rows carry the experiment and the event type; the sequence of a row is  *)
(* its index and its record hash is represented by that index, since the   *)
(* file only grows under the lock.  A caller passes hashes it read at any  *)
(* earlier time: when they no longer match, the operation is refused.      *)
(* Which arguments a caller holds is therefore left open: any operation    *)
(* may be refused, and succeeds only if its conditions hold of the rows    *)
(* read under the lock.  Event ids are taken to be distinct.               *)
(***************************************************************************)
EXTENDS Logs, Naturals, Sequences

CONSTANTS
  Procs,        \* the processes that use the ledger
  Experiments,
  Kind,         \* what Experiments were registered with, see below
  Quarantined,  \* the frozen records of research_control_quarantine.py
  NoRow         \* nothing to append

(***************************************************************************)
(* "plain": no registration contract; "contract": a contract without a     *)
(* controlled precompute; "supervised": contract v2 over plan v4; "v3" and *)
(* "v4": contracts v3 and v4, whose launches the ledger itself authorizes. *)
(***************************************************************************)
Kinds == {"plain", "contract", "supervised", "v3", "v4"}
Controlled == {"v3", "v4"}

ASSUME LedgerAssumption ==
  /\ Kind \in [Experiments -> Kinds]
  /\ Quarantined \subseteq Experiments
  /\ \A e \in Quarantined : Kind[e] # "v4"
  /\ (\E e \in Experiments : Kind[e] = "v4") => Quarantined # {}
  /\ NoRow \notin [exp : Experiments, type : STRING]

VARIABLES
  rows,        \* the lines a reader parses
  tail,        \* "clean", "unterminated" (last newline missing) or "garbled"
  ledgerFile,  \* the ledger's path exists
  lockFile,    \* the lock's path: "absent", "empty" or "marked"
  pc,          \* where each process is
  draft        \* the row each process is about to append

vars == <<rows, tail, ledgerFile, lockFile, pc, draft>>
fileVars == <<rows, tail, ledgerFile, lockFile>>

Closed == {"decision", "failed", "aborted"}
Types == Closed \cup {"registered", "precompute_launch_started",
           "precompute_completed", "validation_started", "completed", "reviewed"}
Row == [exp : Experiments, type : Types]

TypeOK ==
  /\ rows \in Seq(Row)
  /\ tail \in {"clean", "unterminated", "garbled"}
  /\ ledgerFile \in BOOLEAN
  /\ lockFile \in {"absent", "empty", "marked"}
  /\ pc \in [Procs -> {"idle", "create", "mark", "wait", "write"}]
  /\ draft \in [Procs -> Row \cup {NoRow}]

Init ==
  /\ rows = <<>> /\ tail = "clean"
  /\ ledgerFile = FALSE /\ lockFile = "absent"
  /\ pc = [p \in Procs |-> "idle"]
  /\ draft = [p \in Procs |-> NoRow]

-----------------------------------------------------------------------------
(* What an operation reads in the rows. *)

RowsOf(e) == {i \in 1 .. Len(rows) : rows[i].exp = e}
Latest(e) == IF RowsOf(e) = {} THEN "none" ELSE rows[LastOf(RowsOf(e))].type
Open(e) == Latest(e) \notin Closed \cup {"none"}
Tip(e, t) == rows # <<>> /\ rows[Len(rows)] = [exp |-> e, type |-> t]

\* _validate_event_transition.
Follows(k, last, t) ==
  \/ last = "none" /\ t = "registered"
  \/ last = "registered" /\ t \in {"failed", "aborted"}
  \/ last = "registered" /\ k = "plain" /\ t = "completed"
  \/ last = "registered" /\ k = "contract" /\ t = "validation_started"
  \/ last = "registered" /\ k = "supervised" /\ t = "precompute_completed"
  \/ last = "registered" /\ k \in Controlled /\ t = "precompute_launch_started"
  \/ last = "precompute_launch_started" /\ t \in {"precompute_completed", "failed", "aborted"}
  \/ last = "precompute_completed" /\ t \in {"validation_started", "failed", "aborted"}
  \/ last = "validation_started" /\ t \in {"completed", "failed", "aborted"}
  \/ last = "completed" /\ t \in {"reviewed", "decision"}
  \/ last = "reviewed" /\ t = "decision"

\* The registration, the launch and the result of e are three rows in a row.
LaunchChain(e) ==
  \E i \in 1 .. Len(rows) - 2 :
    /\ rows[i] = [exp |-> e, type |-> "registered"]
    /\ rows[i + 1] = [exp |-> e, type |-> "precompute_launch_started"]
    /\ rows[i + 2] = [exp |-> e, type |-> "precompute_completed"]

(***************************************************************************)
(* The conditions of the operations, over the rows read under the lock.    *)
(***************************************************************************)

\* Mutant: the generic append does not look at the other experiments.
CanAppendBlindly(e, t) ==
  /\ Kind[e] \notin Controlled
  /\ t \notin {"precompute_launch_started", "precompute_completed"}

\* append_experiment_event
CanAppend(e, t) ==
  /\ Kind[e] \notin Controlled
  /\ t \notin {"precompute_launch_started", "precompute_completed"}
  /\ \A f \in Experiments :
       /\ Latest(f) # "precompute_launch_started"
       /\ Kind[f] \in Controlled => ~Open(f)

\* The records an allowlist may name.
Listable == {"registered", "validation_started", "completed", "reviewed"}

\* register_experiment_if_tip_matches.  The bindings of a controlled contract
\* require an existing ledger; a v4 contract fixes the allowlist.
CanRegister(e) ==
  /\ Latest(e) = "none"
  /\ \A f \in Experiments : Open(f) => Latest(f) \in Listable
  /\ Kind[e] \in Controlled => ledgerFile
  /\ Kind[e] = "v4" =>
       \A f \in Experiments :
         IF f \in Quarantined THEN Latest(f) = "registered" ELSE ~Open(f)

\* Mutant: the open set is not compared.
CanLaunchBesides(e) ==
  /\ Kind[e] \in Controlled
  /\ Tip(e, "registered")

\* authorize_registered_precompute_launch_if_current
CanLaunch(e) ==
  /\ Kind[e] \in Controlled
  /\ Tip(e, "registered")
  /\ \A f \in Experiments \ {e} :
       IF Kind[e] = "v4" /\ f \in Quarantined THEN Latest(f) = "registered"
                                             ELSE ~Open(f)

\* Mutant: the launch need not be the tip.
CanEndLaunchLater(e) == Kind[e] \in Controlled /\ Latest(e) = "precompute_launch_started"

\* complete_ and fail_authorized_precompute_launch_if_current
CanEndLaunch(e) == Kind[e] \in Controlled /\ Tip(e, "precompute_launch_started")

\* fail_registered_experiment_if_current, complete_registered_precompute_if_current,
\* claim_registered_experiment and preflight_registered_experiment
IsRegistered(e) == Latest(e) = "registered"

\* Mutant: the result must be the tip.
IsPrecomputedAtTip(e) == Tip(e, "precompute_completed") /\ (Kind[e] \in Controlled => LaunchChain(e))

\* _validated_precomputed_state, and fail_precomputed_experiment_if_current
IsPrecomputed(e) ==
  /\ Latest(e) = "precompute_completed"
  /\ Kind[e] \in Controlled => LaunchChain(e)

\* fail_, complete_validation_started_experiment_if_current and
\* decide_completed_validation_if_current
IsTipOf(e, t) == Kind[e] \in Controlled /\ Tip(e, t)

-----------------------------------------------------------------------------
(* The lock and its bootstrap: _ledger_lock. *)

Consistent == ledgerFile <=> lockFile # "absent"

\* Mutant: no flock.
NoLock == TRUE

Free == \A p \in Procs : pc[p] # "write"
Go(p, from, to) == pc[p] = from /\ pc' = [pc EXCEPT ![p] = to]

\* Mutant: a lock without a ledger is opened and used.
EnterOrphan(p) ==
  /\ Go(p, "idle", IF lockFile # "absent" THEN "wait" ELSE "create")
  /\ UNCHANGED <<fileVars, draft>>

\* Both paths are examined before the lock is opened; one without the other
\* raises.
Enter(p) ==
  /\ Consistent
  /\ Go(p, "idle", IF ledgerFile THEN "wait" ELSE "create")
  /\ UNCHANGED <<fileVars, draft>>

CreateLock(p) ==
  /\ lockFile = "absent"
  /\ Go(p, "create", "mark")
  /\ lockFile' = "empty"
  /\ UNCHANGED <<rows, tail, ledgerFile, draft>>

\* O_EXCL: somebody else was first.
CreateLockFails(p) ==
  /\ lockFile # "absent"
  /\ Go(p, "create", "idle")
  /\ UNCHANGED <<fileVars, draft>>

WriteMarker(p) ==
  /\ Go(p, "mark", "wait")
  /\ lockFile' = "marked"
  /\ UNCHANGED <<rows, tail, ledgerFile, draft>>

\* flock is granted, and _read_ledger accepts the file.
Locked(p) == pc[p] = "wait" /\ Free /\ tail # "garbled"

\* _append_experiment_event_locked up to its write: the process holds the lock
\* from here until it has written.
Propose(p, e, t) ==
  /\ Locked(p)
  /\ Follows(Kind[e], Latest(e), t)
  /\ draft' = [draft EXCEPT ![p] = [exp |-> e, type |-> t]]
  /\ pc' = [pc EXCEPT ![p] = "write"]
  /\ UNCHANGED fileVars

\* An operation whose arguments do not match, or whose ledger does not parse,
\* raises and releases the lock.
Refuse(p) ==
  /\ Free
  /\ Go(p, "wait", "idle")
  /\ UNCHANGED <<fileVars, draft>>

\* The line is written and synced.  After a line without its newline it ends
\* up on that same line.
Write(p) ==
  /\ Go(p, "write", "idle")
  /\ ledgerFile' = TRUE
  /\ draft' = [draft EXCEPT ![p] = NoRow]
  /\ IF tail = "clean" THEN rows' = Append(rows, draft[p]) /\ tail' = tail
                       ELSE rows' = rows /\ tail' = "garbled"
  /\ UNCHANGED lockFile

-----------------------------------------------------------------------------
(* The operations. *)

AppendEvent(p, e, t) == CanAppend(e, t) /\ Propose(p, e, t)

Register(p, e) == CanRegister(e) /\ Propose(p, e, "registered")

AuthorizeLaunch(p, e) == CanLaunch(e) /\ Propose(p, e, "precompute_launch_started")

CompleteLaunch(p, e) == CanEndLaunch(e) /\ Propose(p, e, "precompute_completed")

FailLaunch(p, e) == CanEndLaunch(e) /\ Propose(p, e, "failed")

\* fail_registered, and the mismatch found by preflight or claim.
FailRegistered(p, e) == IsRegistered(e) /\ Propose(p, e, "failed")

CompleteRegistered(p, e) == IsRegistered(e) /\ Propose(p, e, "precompute_completed")

ClaimRegistered(p, e) == IsRegistered(e) /\ Propose(p, e, "validation_started")

FailPrecomputed(p, e) == IsPrecomputed(e) /\ Propose(p, e, "failed")

ClaimPrecomputed(p, e) == IsPrecomputed(e) /\ Propose(p, e, "validation_started")

FailValidation(p, e) == IsTipOf(e, "validation_started") /\ Propose(p, e, "failed")

CompleteValidation(p, e) == IsTipOf(e, "validation_started") /\ Propose(p, e, "completed")

Decide(p, e) == IsTipOf(e, "completed") /\ Propose(p, e, "decision")

\* The process dies, or its write raises: the lock is freed by the system,
\* the files stay as they are.
Crash(p) ==
  /\ pc[p] # "idle"
  /\ pc' = [pc EXCEPT ![p] = "idle"]
  /\ draft' = [draft EXCEPT ![p] = NoRow]
  /\ UNCHANGED fileVars

\* It dies in the middle of its append: the ledger was created but is empty,
\* part of the line was written, or all of it but the newline.
CrashWriting(p) ==
  /\ Go(p, "write", "idle")
  /\ ledgerFile' = TRUE
  /\ draft' = [draft EXCEPT ![p] = NoRow]
  /\ \/ UNCHANGED <<rows, tail>>
     \/ rows' = rows /\ tail' = "garbled"
     \/ /\ tail = "clean"
        /\ rows' = Append(rows, draft[p]) /\ tail' = "unterminated"
  /\ UNCHANGED lockFile

Operation(p, e) ==
  \/ \E t \in Types : AppendEvent(p, e, t)
  \/ Register(p, e) \/ AuthorizeLaunch(p, e)
  \/ CompleteLaunch(p, e) \/ FailLaunch(p, e)
  \/ FailRegistered(p, e) \/ CompleteRegistered(p, e) \/ ClaimRegistered(p, e)
  \/ FailPrecomputed(p, e) \/ ClaimPrecomputed(p, e)
  \/ FailValidation(p, e) \/ CompleteValidation(p, e) \/ Decide(p, e)

Next ==
  \E p \in Procs :
    \/ Enter(p) \/ CreateLock(p) \/ CreateLockFails(p) \/ WriteMarker(p)
    \/ Refuse(p) \/ Write(p) \/ Crash(p) \/ CrashWriting(p)
    \/ \E e \in Experiments : Operation(p, e)

Spec == Init /\ [][Next]_vars

-----------------------------------------------------------------------------
(***************************************************************************)
(* Properties.                                                             *)
(***************************************************************************)

Promise == INSTANCE ExperimentLifecycle
             WITH status <- [e \in Experiments |-> Latest(e)]

\* The rows on disk implement the abstract lifecycle: no event is skipped or
\* repeated, an experiment is claimed once whoever competes for it, and a
\* launch starts alone, although the conditions were read before the write.
KeepsLifecycle == Promise!Spec

\* What a launch of e sees of the ledger: its last row, and whether it is the tip
\* (which does not matter any more once the result has been claimed or failed).
Had(e, t) == \E i \in RowsOf(e) : rows[i].type = t
OwnRow(e) ==
  IF Had(e, "precompute_completed")
    THEN IF Latest(e) = "precompute_completed" THEN "completed" ELSE "moved"
  ELSE IF Had(e, "precompute_launch_started")
    THEN IF Latest(e) = "precompute_launch_started" THEN "launched" ELSE "failed"
  ELSE IF Latest(e) \in {"none", "registered"} THEN Latest(e) ELSE "withdrawn"
OwnTip(e) == OwnRow(e) = "moved" \/ (rows # <<>> /\ rows[Len(rows)].exp = e)

Launch(e) == INSTANCE LaunchLedger
               WITH own <- OwnRow(e), atTip <- OwnTip(e), Quarantine <- Kind[e] = "v4"

\* Whatever all the users of the ledger do, a controlled launch sees of it what
\* LaunchLedger says, and no more: its row moves under it only where others may
\* move it, and its tip is taken only by the quarantine.
SeenByLaunches == \A e \in Experiments : Kind[e] \in Controlled => Launch(e)!Spec

\* A controlled experiment whose next operation needs the tip of the ledger,
\* when the tip is somebody else's row.
Stranded(e) ==
  /\ Kind[e] \in Controlled
  /\ Latest(e) \in {"precompute_launch_started", "validation_started", "completed"}
  /\ ~Tip(e, Latest(e))

\* A v3 launch owns the tip until it ends; a v4 launch loses it only to an
\* experiment in quarantine that was failed or claimed meanwhile.
LaunchKeepsTip ==
  \A e \in Experiments :
    Latest(e) = "precompute_launch_started" /\ Stranded(e) =>
      Kind[e] = "v4" /\ \E q \in Quarantined : Latest(q) \notin {"none", "registered"}

\* Who has lost the tip never gets to its end: no operation completes, fails or
\* decides it any more.
StrandedStays == [][\A e \in Experiments : Stranded(e) => Stranded(e)']_vars

ClosableByAppend(e) ==
  \E t \in Types \ {"registered"} : CanAppend(e, t) /\ Follows(Kind[e], Latest(e), t)

\* Every open experiment has an operation that moves it on, whatever the others
\* did, unless it is stranded or an open controlled experiment blocks the
\* generic append.
OpenCanMoveOn ==
  \A e \in Experiments : Open(e) =>
    \/ IsRegistered(e) \/ IsPrecomputed(e) \/ CanEndLaunch(e)
    \/ IsTipOf(e, "validation_started") \/ IsTipOf(e, "completed")
    \/ ClosableByAppend(e)
    \/ Stranded(e)
    \/ Kind[e] \notin Controlled /\ \E f \in Experiments : Kind[f] \in Controlled /\ Open(f)

\* A lock without a ledger, and without the process that created it.
Orphan ==
  /\ lockFile # "absent" /\ ~ledgerFile
  /\ \A p \in Procs : pc[p] \notin {"mark", "wait", "write"}

\* A bootstrap that was left half done is never repaired: the ledger can never
\* be created at that path.
OrphanStays == [][Orphan => Orphan']_vars

\* tests/test_research_validation_ledger_safety.py, invalid first event: an
\* operation refused on a fresh path leaves no lock behind.
RefusalLeavesNoLock == [][\A p \in Procs : Refuse(p) => Consistent']_vars

\* append_experiment_event: an append that returned is part of a ledger that
\* reads.
AppendedIsReadable == [][\A p \in Procs : Write(p) => tail' # "garbled"]_vars
=============================================================================
