-------------------------- MODULE RecommendationLock --------------------------
(***************************************************************************)
(* The scan lock of app/recommendations.py: a JSON file created with       *)
(* O_CREAT|O_EXCL, read back by whoever finds it there, unlinked by its    *)
(* owner, and reclaimed by anybody who judges it stale.                    *)
(*                                                                         *)
(* A member of Runs is one attempt to scan (an HTTP request, a timer, a    *)
(* command line); it never comes back after it ended.  The uuid4 token an  *)
(* attempt draws is unique, so the run itself stands for its token.        *)
(* Every system call on the file is a step: open, the write through the    *)
(* open descriptor, the read of the metadata, the unlink.                  *)
(***************************************************************************)
EXTENDS Naturals

CONSTANTS
  Runs,        \* the scan attempts
  StaleAfter,  \* LOCK_STALE_SECONDS, in ticks of the clock
  MaxTime,     \* bound: the clock stops here
  NoFile       \* the value of lockFile when the path does not exist

ASSUME LockAssumption ==
  /\ StaleAfter \in Nat
  /\ MaxTime \in Nat
  /\ NoFile \notin [token : Runs, written : BOOLEAN]

VARIABLES
  lockFile,   \* what the path names: NoFile, or the inode a run created
  pc,         \* where each run is
  attempt,    \* the loop variable of _acquire_recommendation_lock
  startedAt,  \* the started_at each run puts in its metadata
  now,        \* now_cn()
  evicted     \* history: runs whose lock file another run has unlinked

vars == <<lockFile, pc, attempt, startedAt, now, evicted>>

(***************************************************************************)
(* "create", "look", "read" and "unlink" are the steps of an acquisition; a *)
(* run is Holding from the open that succeeds to the end of its release; it *)
(* ends "done", "refused" (already_running), "raised" (read_json on a file  *)
(* that is empty, or that vanished after exists()) or "crashed".            *)
(***************************************************************************)
Acquiring == {"create", "look", "read", "unlink"}
Holding   == {"write", "hold", "release", "rread", "releasing"}
Ended     == {"done", "refused", "raised", "crashed"}

Inode == [token : Runs, written : BOOLEAN]

TypeOK ==
  /\ lockFile \in Inode \cup {NoFile}
  /\ pc \in [Runs -> {"idle"} \cup Acquiring \cup Holding \cup Ended]
  /\ attempt \in [Runs -> {0, 1}]
  /\ startedAt \in [Runs -> Nat]
  /\ now \in Nat
  /\ evicted \subseteq Runs

Init ==
  /\ lockFile = NoFile
  /\ pc = [r \in Runs |-> "idle"]
  /\ attempt = [r \in Runs |-> 0]
  /\ startedAt = [r \in Runs |-> 0]
  /\ now = 0
  /\ evicted = {}

-----------------------------------------------------------------------------
Go(r, from, to) == pc[r] = from /\ pc' = [pc EXCEPT ![r] = to]

OwnedBy(r) == lockFile # NoFile /\ lockFile.token = r

\* An unlink takes away whatever the path names at that moment, not the inode
\* the caller has read.
Unlink(r) ==
  /\ lockFile' = NoFile
  /\ evicted' = IF lockFile = NoFile \/ OwnedBy(r)
                  THEN evicted ELSE evicted \cup {lockFile.token}

Readable == lockFile # NoFile /\ lockFile.written

\* A missing file reads as {}: no started_at, hence stale.
Stale == lockFile # NoFile => now - startedAt[lockFile.token] > StaleAfter

Begin(r) ==
  /\ Go(r, "idle", "create")
  /\ startedAt' = [startedAt EXCEPT ![r] = now]
  /\ UNCHANGED <<lockFile, attempt, now, evicted>>

\* Mutant: opened without O_EXCL, the file of somebody else is truncated.
CreateNotExclusive(r) ==
  /\ Go(r, "create", "write")
  /\ lockFile' = [token |-> r, written |-> FALSE]
  /\ UNCHANGED <<attempt, startedAt, now, evicted>>

CreateExclusive(r) ==
  /\ lockFile = NoFile
  /\ Go(r, "create", "write")
  /\ lockFile' = [token |-> r, written |-> FALSE]
  /\ UNCHANGED <<attempt, startedAt, now, evicted>>

CreateFails(r) ==
  /\ lockFile # NoFile
  /\ Go(r, "create", "look")
  /\ UNCHANGED <<lockFile, attempt, startedAt, now, evicted>>

\* read_json first asks whether the file exists, then opens it: {} if it does
\* not exist, an exception if it vanished in between or is still empty.
MayReclaim(r) == attempt[r] = 0 /\ Stale

Look(r) ==
  /\ Go(r, "look", IF lockFile # NoFile THEN "read"
                   ELSE IF MayReclaim(r) THEN "unlink" ELSE "refused")
  /\ UNCHANGED <<lockFile, attempt, startedAt, now, evicted>>

\* Mutant: an empty file counts as stale instead of raising.
ReadEmptyAsStale(r) ==
  /\ Go(r, "read", IF Readable /\ ~MayReclaim(r) THEN "refused" ELSE "unlink")
  /\ UNCHANGED <<lockFile, attempt, startedAt, now, evicted>>

\* Mutant: the first attempt never looks at the age.
ReadOnSecondAttempt(r) ==
  /\ Go(r, "read", IF ~Readable THEN "raised"
                   ELSE IF attempt[r] = 1 /\ Stale THEN "unlink" ELSE "refused")
  /\ UNCHANGED <<lockFile, attempt, startedAt, now, evicted>>

ReadMetadata(r) ==
  /\ Go(r, "read", IF ~Readable THEN "raised"
                   ELSE IF MayReclaim(r) THEN "unlink" ELSE "refused")
  /\ UNCHANGED <<lockFile, attempt, startedAt, now, evicted>>

\* Mutant: the unlink fails silently and the loop has no bound.
ReclaimKeepsFile(r) ==
  /\ Go(r, "unlink", "create")
  /\ UNCHANGED <<lockFile, evicted, attempt, startedAt, now>>

\* lock_path.unlink(), FileNotFoundError ignored, then the second attempt.
Reclaim(r) ==
  /\ Go(r, "unlink", "create")
  /\ Unlink(r)
  /\ attempt' = [attempt EXCEPT ![r] = 1]
  /\ UNCHANGED <<startedAt, now>>

\* The write goes through the descriptor: if the path was unlinked meanwhile
\* it reaches an inode nobody can see, and the run still returns its token.
WriteToken(r) ==
  /\ Go(r, "write", "hold")
  /\ lockFile' = IF OwnedBy(r) THEN [lockFile EXCEPT !.written = TRUE]
                              ELSE lockFile
  /\ UNCHANGED <<attempt, startedAt, now, evicted>>

\* Mutant: the scan ends without the finally clause.
FinishWithoutRelease(r) ==
  /\ Go(r, "hold", "done")
  /\ UNCHANGED <<lockFile, attempt, startedAt, now, evicted>>

\* The scan returned or raised: the finally clause releases.
FinishScan(r) ==
  /\ Go(r, "hold", "release")
  /\ UNCHANGED <<lockFile, attempt, startedAt, now, evicted>>

ReleaseLook(r) ==
  /\ Go(r, "release", IF lockFile = NoFile THEN "done" ELSE "rread")
  /\ UNCHANGED <<lockFile, attempt, startedAt, now, evicted>>

ReleaseRead(r) ==
  /\ Go(r, "rread", IF ~Readable THEN "raised"
                    ELSE IF OwnedBy(r) THEN "releasing" ELSE "done")
  /\ UNCHANGED <<lockFile, attempt, startedAt, now, evicted>>

ReleaseUnlink(r) ==
  /\ Go(r, "releasing", "done")
  /\ Unlink(r)
  /\ UNCHANGED <<attempt, startedAt, now>>

\* The process dies (or, between open and write, the write itself fails):
\* whatever it has put on disk stays there.
Crash(r) ==
  /\ pc[r] \in Acquiring \cup Holding
  /\ pc' = [pc EXCEPT ![r] = "crashed"]
  /\ UNCHANGED <<lockFile, attempt, startedAt, now, evicted>>

Tick ==
  /\ now < MaxTime
  /\ now' = now + 1
  /\ UNCHANGED <<lockFile, pc, attempt, startedAt, evicted>>

Step(r) ==
  \/ CreateExclusive(r) \/ CreateFails(r) \/ Look(r) \/ ReadMetadata(r)
  \/ Reclaim(r) \/ WriteToken(r) \/ FinishScan(r)
  \/ ReleaseLook(r) \/ ReleaseRead(r) \/ ReleaseUnlink(r)

Next == Tick \/ \E r \in Runs : Begin(r) \/ Step(r) \/ Crash(r)

Spec == Init /\ [][Next]_vars

\* A thread that is running keeps running: no step of a run waits for anybody,
\* and the scan itself ends.  Nothing makes a run begin, and none must crash.
FairSpec == Spec /\ \A r \in Runs : WF_vars(Step(r))

-----------------------------------------------------------------------------
(***************************************************************************)
(* What the lock gives, stated for the system it really has to work in:    *)
(* crashes, locks that grow old under a live scan, contenders that act on  *)
(* metadata that is no longer true.                                        *)
(***************************************************************************)

\* Two scans run at once only if the lock of one of them has been taken away:
\* exclusive creation itself never admits two.
AtMostOneUnevicted ==
  \A r, s \in Runs :
    pc[r] \in Holding /\ pc[s] \in Holding /\ r # s =>
      r \in evicted \/ s \in evicted

\* No run that ended by itself leaves its lock behind, whatever the others
\* did to it: a lock found on disk belongs to a live or to a dead holder.
NoLeakedLock ==
  lockFile # NoFile => pc[lockFile.token] \in Holding \cup {"crashed"}

\* The empty lock file of a dead creator, nobody having decided to unlink.
Wedged ==
  /\ lockFile # NoFile /\ ~lockFile.written /\ pc[lockFile.token] = "crashed"
  /\ \A r \in Runs : pc[r] \notin {"unlink", "releasing"}

\* A creator that dies between open and write blocks scanning for good: the
\* age of an empty file is never looked at, and no later trigger, release or
\* passage of time takes it away.
WedgeIsPermanent == [][Wedged => Wedged']_vars

\* Every attempt comes to an end: refused, raising, or through its scan and its
\* release; no race on the file makes the acquisition loop for ever.
EveryAttemptEnds ==
  \A r \in Runs : pc[r] = "create" ~> pc[r] \in Ended

DeadAndStale(d) ==
  /\ OwnedBy(d) /\ lockFile.written /\ pc[d] = "crashed"
  /\ now - startedAt[d] > StaleAfter

\* The complete lock of a dead run does not outlive the first attempt made
\* after it became stale, unless that attempt dies too.
StaleLockIsReclaimed ==
  \A r, d \in Runs :
    pc[r] = "create" /\ attempt[r] = 0 /\ DeadAndStale(d)
      ~> ~OwnedBy(d) \/ pc[r] = "crashed"

\* README.md, "Features": the scan lock is cross-process and a trigger during
\* a run does not start a second scan.
NoSecondScan ==
  \A r, s \in Runs : pc[r] = "hold" /\ pc[s] = "hold" => r = s

\* README.md, same line: a trigger during a run returns the status of the
\* running task (it does not fail).
TriggerReturnsStatus ==
  \A r \in Runs : pc[r] # "raised"
=============================================================================
