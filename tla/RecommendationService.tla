------------------------- MODULE RecommendationService -------------------------
(***************************************************************************)
(* The recommendation service: a run publishes (Publication) between the   *)
(* acquisition and the release of the scan lock (RecommendationLock).  The *)
(* lock is the one the code has, reclaim races and stale takeovers         *)
(* included, so this module shows what publication really gets from it.    *)
(***************************************************************************)
EXTENDS Naturals

CONSTANTS Runs, StaleAfter, MaxTime, NoFile,
          Dates, Symbols, Pools, Allowed, Limit, Cap, NoPool, NoRun

VARIABLES lockFile, pc, attempt, startedAt, now, evicted,
          ledger, history, cut, latest, pool, stage, job, overlapped

lockVars == <<lockFile, pc, attempt, startedAt, now, evicted>>
pubVars  == <<ledger, history, cut, latest, pool, stage, job, overlapped>>
vars == <<lockVars, pubVars>>

Lock == INSTANCE RecommendationLock
Pub  == INSTANCE Publication

ASSUME ServiceAssumption ==
  Lock!LockAssumption /\ Pub!PublicationAssumption

Init == Lock!Init /\ Pub!Init

\* The two attempts to create, and their metadata reads.
Acquire(r) ==
  /\ \/ Lock!Begin(r) \/ Lock!CreateExclusive(r) \/ Lock!CreateFails(r)
     \/ Lock!Look(r) \/ Lock!ReadMetadata(r) \/ Lock!Reclaim(r) \/ Lock!WriteToken(r)
  /\ UNCHANGED pubVars

\* generate_daily_recommendations between lock and finally.
Scan(r) ==
  /\ pc[r] = "hold"
  /\ \/ \E d \in Dates : Pub!Begin(r, d)
     \/ Pub!BlockAtGate(r) \/ Pub!Revalidate(r) \/ Pub!CommitNothing(r)
     \/ Pub!BuildRow(r) \/ Pub!AppendLedger(r) \/ Pub!AppendHistory(r)
     \/ Pub!WriteLatest(r) \/ Pub!AppendAudit(r) \/ Pub!Fail(r)
     \/ Pub!AppendRaises(r)
  /\ UNCHANGED lockVars

Release(r) ==
  /\ \/ stage[r] = "done" /\ Lock!FinishScan(r)
     \/ Lock!ReleaseLook(r) \/ Lock!ReleaseRead(r) \/ Lock!ReleaseUnlink(r)
  /\ UNCHANGED pubVars

\* The finally clause runs when begin_recommendation_run raises as well, before
\* anything was published.
ReleaseUnstarted(r) ==
  /\ stage[r] = "idle"
  /\ Lock!FinishScan(r)
  /\ UNCHANGED pubVars

Crash(r) ==
  /\ Lock!Crash(r)
  /\ \/ Pub!Crash(r) \/ Pub!TearAppend(r)
     \/ ~Pub!Active(r) /\ UNCHANGED pubVars

Next ==
  \/ Lock!Tick /\ UNCHANGED pubVars
  \/ Pub!ChangePool /\ UNCHANGED lockVars
  \/ \E r \in Runs : Acquire(r) \/ Scan(r) \/ Release(r) \/ ReleaseUnstarted(r) \/ Crash(r)

Spec == Init /\ [][Next]_vars

-----------------------------------------------------------------------------
\* As long as no lock has been taken away from its holder, whatever crashes: the
\* ledger validates up to a torn line, and between runs a reader is shown what was
\* published.  Two rows on the same state, which end publication for good, and a
\* snapshot whose receipt is not the last need a reclaimed lock.
LockProtectsLedger == evicted = {} => Pub!LedgerIntact /\ Pub!SnapshotShown
=============================================================================
