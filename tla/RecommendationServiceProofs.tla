---------------------- MODULE RecommendationServiceProofs ----------------------
(***************************************************************************)
(* The composed recommendation service, for any number of runs and an      *)
(* unbounded clock: it implements the scan lock and it implements          *)
(* publication, so what was proved of either holds of the service; and as  *)
(* long as no lock was taken away from its holder runs do not overlap,     *)
(* which is what the ledger and the snapshot need from the lock.           *)
(*                                                                         *)
(* ScanLock and Publishing are the two components again, with the theorems *)
(* about them; SameLock and SamePublication say that they are Lock and Pub *)
(* of the service.                                                         *)
(***************************************************************************)
EXTENDS RecommendationService, TLAPS

ScanLock   == INSTANCE RecommendationLockProofs
Publishing == INSTANCE PublicationProofs

-----------------------------------------------------------------------------
(* The components and the instances that carry their theorems. *)

\* The constants of the service are those the theorems ask for.
LEMMA ConstantsFit == ScanLock!LockAssumption /\ Publishing!PublicationAssumption
<1>1. ScanLock!LockAssumption
  BY ServiceAssumption DEF Lock!LockAssumption, ScanLock!LockAssumption
<1>2. Publishing!PublicationAssumption
  BY ServiceAssumption
  DEF Pub!PublicationAssumption, Publishing!PublicationAssumption,
      Pub!IsFiniteSet, Publishing!IsFiniteSet
<1>3. QED
  BY <1>1, <1>2

LEMMA SameLock == Lock!Spec => ScanLock!Spec
<1>1. ScanLock!Init <=> Lock!Init
  BY DEF ScanLock!Init, Lock!Init
<1>2. ScanLock!vars = Lock!vars
  BY DEF ScanLock!vars, Lock!vars
<1>3. ASSUME NEW r \in Runs
      PROVE  /\ ScanLock!Begin(r) <=> Lock!Begin(r)
             /\ ScanLock!Crash(r) <=> Lock!Crash(r)
             /\ ScanLock!CreateExclusive(r) <=> Lock!CreateExclusive(r)
             /\ ScanLock!CreateFails(r) <=> Lock!CreateFails(r)
             /\ ScanLock!WriteToken(r) <=> Lock!WriteToken(r)
             /\ ScanLock!FinishScan(r) <=> Lock!FinishScan(r)
             /\ ScanLock!ReleaseLook(r) <=> Lock!ReleaseLook(r)
  BY DEF
      ScanLock!Begin, Lock!Begin, ScanLock!Crash, Lock!Crash, ScanLock!CreateExclusive,
      Lock!CreateExclusive, ScanLock!CreateFails, Lock!CreateFails, ScanLock!WriteToken,
      Lock!WriteToken, ScanLock!FinishScan, Lock!FinishScan, ScanLock!ReleaseLook,
      Lock!ReleaseLook, ScanLock!Go, Lock!Go, ScanLock!OwnedBy, Lock!OwnedBy,
      ScanLock!Acquiring, Lock!Acquiring, ScanLock!Holding, Lock!Holding
<1>4. ASSUME NEW r \in Runs
      PROVE  /\ ScanLock!Look(r) <=> Lock!Look(r)
             /\ ScanLock!ReadMetadata(r) <=> Lock!ReadMetadata(r)
             /\ ScanLock!Reclaim(r) <=> Lock!Reclaim(r)
             /\ ScanLock!ReleaseRead(r) <=> Lock!ReleaseRead(r)
             /\ ScanLock!ReleaseUnlink(r) <=> Lock!ReleaseUnlink(r)
  BY DEF
      ScanLock!Look, Lock!Look, ScanLock!ReadMetadata, Lock!ReadMetadata, ScanLock!Reclaim,
      Lock!Reclaim, ScanLock!ReleaseRead, Lock!ReleaseRead, ScanLock!ReleaseUnlink,
      Lock!ReleaseUnlink, ScanLock!Go, Lock!Go, ScanLock!OwnedBy, Lock!OwnedBy,
      ScanLock!Unlink, Lock!Unlink, ScanLock!Readable, Lock!Readable, ScanLock!Stale,
      Lock!Stale, ScanLock!MayReclaim, Lock!MayReclaim
<1>5. ScanLock!Tick <=> Lock!Tick
  BY DEF ScanLock!Tick, Lock!Tick
<1>6. ScanLock!Next <=> Lock!Next
  BY <1>3, <1>4, <1>5 DEF ScanLock!Next, Lock!Next, ScanLock!Step, Lock!Step
<1>7. [Lock!Next]_(Lock!vars) => [ScanLock!Next]_(ScanLock!vars)
  BY <1>6 DEF ScanLock!vars, Lock!vars
<1>8. QED
  BY <1>1, <1>7, PTL DEF ScanLock!Spec, Lock!Spec

LEMMA SameCardinality == ASSUME NEW S PROVE Publishing!Cardinality(S) = Pub!Cardinality(S)
  BY DEF Publishing!Cardinality, Pub!Cardinality

LEMMA SameTorn == Publishing!Torn = Pub!Torn
  BY DEF Publishing!Torn, Pub!Torn

\* What is read in the ledger and the history.
LEMMA SameReading ==
  /\ Publishing!Valid(ledger) <=> Pub!Valid(ledger)
  /\ \A d : /\ Publishing!Readable(d) <=> Pub!Readable(d)
            /\ Publishing!PublishedOn(d) = Pub!PublishedOn(d)
            /\ Publishing!RowsOn(ledger, d) = Pub!RowsOn(ledger, d)
            /\ Publishing!StateOn(ledger, d) = Pub!StateOn(ledger, d)
  /\ Publishing!Accepted(ledger) = Pub!Accepted(ledger)
<1>1. ASSUME NEW i PROVE Publishing!RowOK(ledger, i) <=> Pub!RowOK(ledger, i)
  <2>1. Publishing!PriorMatches(ledger, i) <=> Pub!PriorMatches(ledger, i)
    BY DEF
        Publishing!PriorMatches, Pub!PriorMatches, Publishing!SameTargetBefore,
        Pub!SameTargetBefore, Publishing!LastOf, Pub!LastOf
  <2>2. QED
    BY <2>1, SameCardinality, SameTorn DEF Publishing!RowOK, Pub!RowOK
<1>2. Publishing!Valid(ledger) <=> Pub!Valid(ledger)
  BY <1>1 DEF Publishing!Valid, Pub!Valid
<1>3. Publishing!Accepted(ledger) = Pub!Accepted(ledger)
  BY <1>1 DEF Publishing!Accepted, Pub!Accepted
<1>4. ASSUME NEW d
      PROVE  /\ Publishing!RowsOn(ledger, d) = Pub!RowsOn(ledger, d)
             /\ Publishing!StateOn(ledger, d) = Pub!StateOn(ledger, d)
  BY DEF
      Publishing!RowsOn, Pub!RowsOn, Publishing!StateOn, Pub!StateOn, Publishing!LastOf,
      Pub!LastOf
<1>5. ASSUME NEW d
      PROVE  /\ Publishing!Readable(d) <=> Pub!Readable(d)
             /\ Publishing!PublishedOn(d) = Pub!PublishedOn(d)
  BY <1>2, <1>4, SameTorn DEF
      Publishing!Readable, Pub!Readable, Publishing!PublishedOn, Pub!PublishedOn
<1>6. QED
  BY <1>2, <1>3, <1>4, <1>5

LEMMA SamePublication == Pub!Spec => Publishing!Spec
<1>1. Publishing!Init <=> Pub!Init
  BY DEF Publishing!Init, Pub!Init, Publishing!NoJob, Pub!NoJob
<1>2. Publishing!vars = Pub!vars
  BY DEF Publishing!vars, Pub!vars
<1>3. ASSUME NEW r \in Runs
      PROVE  /\ \A d \in Dates : Publishing!Begin(r, d) <=> Pub!Begin(r, d)
             /\ Publishing!BlockAtGate(r) <=> Pub!BlockAtGate(r)
             /\ Publishing!CommitNothing(r) <=> Pub!CommitNothing(r)
             /\ Publishing!WriteLatest(r) <=> Pub!WriteLatest(r)
             /\ Publishing!AppendAudit(r) <=> Pub!AppendAudit(r)
             /\ Publishing!Fail(r) <=> Pub!Fail(r)
             /\ Publishing!Crash(r) <=> Pub!Crash(r)
  BY DEF
      Publishing!Begin, Pub!Begin, Publishing!BlockAtGate, Pub!BlockAtGate,
      Publishing!CommitNothing, Pub!CommitNothing, Publishing!WriteLatest, Pub!WriteLatest,
      Publishing!AppendAudit, Pub!AppendAudit, Publishing!Fail, Pub!Fail, Publishing!Crash,
      Pub!Crash, Publishing!Active, Pub!Active, Publishing!Ended, Pub!Ended, Publishing!Blank,
      Pub!Blank, Publishing!End, Pub!End, Publishing!NoJob, Pub!NoJob
<1>4. ASSUME NEW r \in Runs
      PROVE  /\ Publishing!AppendLedger(r) <=> Pub!AppendLedger(r)
             /\ Publishing!AppendHistory(r) <=> Pub!AppendHistory(r)
             /\ Publishing!TearAppend(r) <=> Pub!TearAppend(r)
             /\ Publishing!AppendRaises(r) <=> Pub!AppendRaises(r)
  <2>1. ASSUME NEW file, NEW log, NEW x
        PROVE  Publishing!Extended(file, log, x) = Pub!Extended(file, log, x)
    BY SameTorn DEF
        Publishing!Extended, Pub!Extended, Publishing!Writers, Pub!Writers, Publishing!Written,
        Pub!Written
  <2>2. Publishing!RowOf(r) = Pub!RowOf(r) /\ Publishing!EntryOf(r) = Pub!EntryOf(r)
    BY DEF Publishing!RowOf, Pub!RowOf, Publishing!EntryOf, Pub!EntryOf
  <2>3. Publishing!Tear(r) <=> Pub!Tear(r)
    BY <2>1, <2>2 DEF Publishing!Tear, Pub!Tear
  <2>4. QED
    BY <2>1, <2>2, <2>3 DEF
        Publishing!AppendLedger, Pub!AppendLedger, Publishing!AppendHistory,
        Pub!AppendHistory, Publishing!TearAppend, Pub!TearAppend, Publishing!AppendRaises,
        Pub!AppendRaises, Publishing!Blank, Pub!Blank, Publishing!End, Pub!End,
        Publishing!NoJob, Pub!NoJob
<1>5. ASSUME NEW r \in Runs
      PROVE  Publishing!BuildRow(r) <=> Pub!BuildRow(r)
  BY SameReading DEF Publishing!BuildRow, Pub!BuildRow
<1>6. ASSUME NEW r \in Runs
      PROVE  Publishing!Revalidate(r) <=> Pub!Revalidate(r)
  <2>1. ASSUME NEW selected, NEW prior
        PROVE  Publishing!Capped(selected, prior) = Pub!Capped(selected, prior)
    BY SameCardinality DEF Publishing!Capped, Pub!Capped
  <2>2. QED
    BY <2>1, SameReading, SameCardinality, Zenon DEF Publishing!Revalidate, Pub!Revalidate
<1>7. Publishing!ChangePool <=> Pub!ChangePool
  BY DEF Publishing!ChangePool, Pub!ChangePool
<1>8. Publishing!Next <=> Pub!Next
  BY <1>3, <1>5, <1>6, <1>7, <1>4 DEF
      Publishing!Next, Pub!Next, Publishing!RunStep, Pub!RunStep
<1>9. [Pub!Next]_(Pub!vars) => [Publishing!Next]_(Publishing!vars)
  BY <1>8 DEF Publishing!vars, Pub!vars
<1>10. QED
  BY <1>1, <1>9, PTL DEF Publishing!Spec, Pub!Spec

-----------------------------------------------------------------------------
(* Every step of the service is a step of each component, or leaves it alone. *)

LEMMA LockStep == ASSUME [Next]_vars PROVE [Lock!Next]_(Lock!vars)
<1>1. UNCHANGED lockVars => UNCHANGED Lock!vars
  BY DEF lockVars, Lock!vars
<1>2. ASSUME NEW r \in Runs, Acquire(r) PROVE Lock!Next
  BY <1>2 DEF Acquire, Lock!Next, Lock!Step
<1>3. ASSUME NEW r \in Runs, Release(r) \/ ReleaseUnstarted(r) PROVE Lock!Next
  BY <1>3 DEF Release, ReleaseUnstarted, Lock!Next, Lock!Step
<1>4. ASSUME NEW r \in Runs, Crash(r) PROVE Lock!Next
  BY <1>4 DEF Crash, Lock!Next
<1>5. ASSUME NEW r \in Runs, Scan(r) PROVE UNCHANGED lockVars
  BY <1>5 DEF Scan
<1>6. CASE UNCHANGED vars
  BY <1>6, <1>1 DEF vars
<1>7. CASE Next
  BY <1>7, <1>1, <1>2, <1>3, <1>4, <1>5 DEF Next, Lock!Next
<1>8. QED
  BY <1>6, <1>7

LEMMA PublicationStep == ASSUME [Next]_vars PROVE [Pub!Next]_(Pub!vars)
<1>1. UNCHANGED pubVars => UNCHANGED Pub!vars
  BY DEF pubVars, Pub!vars
<1>2. ASSUME NEW r \in Runs, Acquire(r) \/ Release(r) \/ ReleaseUnstarted(r)
      PROVE  UNCHANGED pubVars
  BY <1>2 DEF Acquire, Release, ReleaseUnstarted
<1>3. ASSUME NEW r \in Runs, Scan(r) PROVE Pub!Next
  BY <1>3 DEF Scan, Pub!Next, Pub!RunStep
<1>4. ASSUME NEW r \in Runs, Crash(r) PROVE Pub!Next \/ UNCHANGED pubVars
  BY <1>4 DEF Crash, Pub!Next, Pub!RunStep
<1>5. CASE UNCHANGED vars
  BY <1>5, <1>1 DEF vars
<1>6. CASE Next
  BY <1>6, <1>1, <1>2, <1>3, <1>4 DEF Next, Pub!Next
<1>7. QED
  BY <1>5, <1>6

\* The lock in the service is the scan lock of _acquire_recommendation_lock and
\* _release_recommendation_lock: publication adds nothing to what it may do.
THEOREM ImplementsLock == Spec => Lock!Spec
<1>1. Init => Lock!Init
  BY DEF Init
<1>2. QED
  BY <1>1, LockStep, PTL DEF Spec, Lock!Spec

\* A scan under the lock publishes as generate_daily_recommendations does: the
\* lock adds no step, so whatever holds of publication holds of the service.
THEOREM ImplementsPublication == Spec => Pub!Spec
<1>1. Init => Pub!Init
  BY DEF Init
<1>2. QED
  BY <1>1, PublicationStep, PTL DEF Spec, Pub!Spec

\* What was proved of the two components, for the service.
LEMMA LockFacts == Spec => [](ScanLock!TypeOK /\ ScanLock!AtMostOneUnevicted)
  BY ConstantsFit, ImplementsLock, SameLock, ScanLock!TypeCorrect, ScanLock!Exclusion, PTL

LEMMA PublicationFacts ==
  Spec => [](/\ Publishing!TypeOK
             /\ ~overlapped => Publishing!LedgerIntact
             /\ Publishing!PublishedIsShown)
  BY ConstantsFit, ImplementsPublication, SamePublication, Publishing!TypeCorrect,
     Publishing!NoOverlapKeepsLedger, Publishing!PublishedShown, PTL

-----------------------------------------------------------------------------
(* A run publishes only while it holds the lock, so runs overlap only after  *)
(* a lock was taken away.                                                    *)

ScansHold == \A r \in Runs : Pub!Active(r) => pc[r] = "hold"

Types == pc \in [Runs -> {"idle"} \cup Lock!Acquiring \cup Lock!Holding \cup Lock!Ended]
         /\ stage \in [Runs -> Pub!Stages]

LEMMA ServiceTypes == Spec => []Types
<1>1. ScanLock!TypeOK /\ Publishing!TypeOK => Types
  BY DEF ScanLock!TypeOK, Publishing!TypeOK, Types, Lock!Acquiring, Lock!Holding, Lock!Ended,
         ScanLock!Acquiring, ScanLock!Holding, ScanLock!Ended, Pub!Stages, Publishing!Stages
<1>2. QED
  BY <1>1, LockFacts, PublicationFacts, PTL

LEMMA ScansHoldStep == ASSUME Types, ScansHold, [Next]_vars PROVE ScansHold'
<1>1. SUFFICES ASSUME NEW r \in Runs, (Pub!Active(r))' PROVE pc'[r] = "hold"
  BY DEF ScansHold
<1>2. ASSUME UNCHANGED pubVars, pc[r] = "hold" => pc'[r] = "hold" PROVE pc'[r] = "hold"
  BY <1>1, <1>2 DEF ScansHold, pubVars, Pub!Active
<1>3. ASSUME NEW s \in Runs, Acquire(s) PROVE pc'[r] = "hold"
  <2>1. pc[r] = "hold" => pc'[r] = "hold"
    BY <1>3 DEF
        Acquire, Types, Lock!Begin, Lock!CreateExclusive, Lock!CreateFails, Lock!Look,
        Lock!ReadMetadata, Lock!Reclaim, Lock!WriteToken, Lock!Go
  <2>2. QED
    BY <1>2, <1>3, <2>1 DEF Acquire
<1>4. ASSUME NEW s \in Runs, Scan(s) PROVE pc'[r] = "hold"
  <2>1. pc' = pc /\ pc[s] = "hold"
    BY <1>4 DEF Scan, lockVars
  <2>2. s # r => stage'[r] = stage[r]
    BY <1>4 DEF
        Scan, Types, Pub!Begin, Pub!BlockAtGate, Pub!Revalidate, Pub!CommitNothing,
        Pub!BuildRow, Pub!AppendLedger, Pub!AppendHistory, Pub!WriteLatest,
        Pub!AppendAudit, Pub!Fail, Pub!AppendRaises, Pub!End
  <2>3. QED
    BY <1>1, <2>1, <2>2 DEF ScansHold, Pub!Active
<1>5. ASSUME NEW s \in Runs, Release(s) \/ ReleaseUnstarted(s) PROVE pc'[r] = "hold"
  <2>1. UNCHANGED pubVars
    BY <1>5 DEF Release, ReleaseUnstarted
  <2>2. Pub!Active(r)
    BY <1>1, <2>1 DEF pubVars, Pub!Active
  <2>3. pc[r] = "hold"
    BY <2>2 DEF ScansHold
  <2>4. s # r
    BY <1>5, <2>2, <2>3 DEF
        Release, ReleaseUnstarted, Pub!Active, Pub!Ended, Lock!ReleaseLook,
        Lock!ReleaseRead, Lock!ReleaseUnlink, Lock!Go
  <2>5. QED
    BY <1>5, <2>3, <2>4 DEF
        Release, ReleaseUnstarted, Types, Lock!FinishScan, Lock!ReleaseLook,
        Lock!ReleaseRead, Lock!ReleaseUnlink, Lock!Go
<1>6. ASSUME NEW s \in Runs, Crash(s) PROVE pc'[r] = "hold"
  <2>1. stage'[r] = stage[r]
    BY <1>1, <1>6 DEF Crash, Types, pubVars, Pub!Crash, Pub!TearAppend, Pub!End, Pub!Active,
       Pub!Ended
  <2>2. s # r
    BY <1>1, <1>6 DEF Crash, Types, pubVars, Pub!Crash, Pub!TearAppend, Pub!End, Pub!Active,
       Pub!Ended
  <2>3. QED
    BY <1>1, <1>6, <2>1, <2>2 DEF Crash, Types, ScansHold, Pub!Active, Lock!Crash
<1>7. CASE Lock!Tick /\ UNCHANGED pubVars
  BY <1>2, <1>7 DEF Lock!Tick
<1>8. CASE Pub!ChangePool /\ UNCHANGED lockVars
  BY <1>1, <1>8 DEF Pub!ChangePool, lockVars, ScansHold, Pub!Active
<1>9. CASE UNCHANGED vars
  BY <1>2, <1>9 DEF vars, lockVars
<1>10. QED
  BY <1>3, <1>4, <1>5, <1>6, <1>7, <1>8, <1>9 DEF Next

LEMMA ScansHoldHolds == Spec => []ScansHold
<1>1. Init => ScansHold
  BY DEF Init, Pub!Init, ScansHold, Pub!Active
<1>2. QED
  BY <1>1, ScansHoldStep, ServiceTypes, PTL DEF Spec

Serial == evicted = {} => ~overlapped

LEMMA SerialStep ==
  ASSUME ScansHold, ScanLock!AtMostOneUnevicted, Serial, [Next]_vars PROVE Serial'
<1>1. evicted \subseteq evicted'
  <2>1. Lock!Next => evicted \subseteq evicted'
    BY DEF
        Lock!Next, Lock!Step, Lock!Tick, Lock!Begin, Lock!Crash, Lock!CreateExclusive,
        Lock!CreateFails, Lock!Look, Lock!ReadMetadata, Lock!Reclaim, Lock!WriteToken,
        Lock!FinishScan, Lock!ReleaseLook, Lock!ReleaseRead, Lock!ReleaseUnlink, Lock!Unlink
  <2>2. QED
    BY <2>1, LockStep DEF Lock!vars
<1>2. SUFFICES ASSUME evicted = {}, ~overlapped PROVE ~overlapped'
  BY <1>1 DEF Serial
<1>3. ASSUME NEW r \in Runs, NEW d \in Dates, Scan(r), Pub!Begin(r, d) PROVE ~overlapped'
  <2>1. ASSUME NEW s \in Runs, Pub!Active(s) PROVE FALSE
    <3>1. pc[s] = "hold" /\ pc[r] = "hold"
      BY <1>3, <2>1 DEF ScansHold, Scan
    <3>2. s # r
      BY <1>3, <2>1 DEF Pub!Begin, Pub!Active
    <3>3. QED
      BY <3>1, <3>2, <1>2 DEF ScanLock!AtMostOneUnevicted, ScanLock!Holding
  <2>2. QED
    BY <1>2, <1>3, <2>1 DEF Pub!Begin
<1>4. ASSUME NEW r \in Runs, Scan(r), ~\E d \in Dates : Pub!Begin(r, d)
      PROVE  ~overlapped'
  BY <1>2, <1>4 DEF
      Scan, Pub!BlockAtGate, Pub!Revalidate, Pub!CommitNothing, Pub!BuildRow,
      Pub!AppendLedger, Pub!AppendHistory, Pub!WriteLatest, Pub!AppendAudit, Pub!Fail,
      Pub!AppendRaises
<1>5. ASSUME NEW r \in Runs, Crash(r) PROVE ~overlapped'
  BY <1>2, <1>5 DEF Crash, Pub!Crash, Pub!TearAppend, pubVars
<1>6. ASSUME NEW r \in Runs, Acquire(r) \/ Release(r) \/ ReleaseUnstarted(r)
      PROVE  ~overlapped'
  BY <1>2, <1>6 DEF Acquire, Release, ReleaseUnstarted, pubVars
<1>7. CASE UNCHANGED vars \/ UNCHANGED pubVars \/ Pub!ChangePool
  BY <1>2, <1>7 DEF vars, pubVars, Pub!ChangePool
<1>8. QED
  BY <1>3, <1>4, <1>5, <1>6, <1>7 DEF Next

\* Exclusive creation serializes the scans: two runs are inside
\* generate_daily_recommendations at once only after _acquire_recommendation_lock
\* reclaimed, or a release unlinked, the lock of a run that was not its own.
THEOREM LockSerializes == Spec => [](evicted = {} => ~overlapped)
<1>1. Init => Serial
  BY DEF Init, Pub!Init, Serial
<1>2. Spec => []Serial
  BY <1>1, SerialStep, ScansHoldHolds, LockFacts, PTL DEF Spec
<1>3. QED
  BY <1>2, PTL DEF Serial

-----------------------------------------------------------------------------
(* What publication gets from the lock. *)

LEMMA SameIntact == Publishing!LedgerIntact <=> Pub!LedgerIntact
  BY SameReading, SameTorn DEF Publishing!LedgerIntact, Pub!LedgerIntact

LEMMA SameVisible == Publishing!Visible = Pub!Visible
  BY SameReading DEF Publishing!Visible, Pub!Visible, Publishing!LastOf, Pub!LastOf

LEMMA SameShown == Publishing!SnapshotShown <=> Pub!SnapshotShown
<1>1. Publishing!Visible = Pub!Visible
  BY SameVisible
<1>2. Publishing!Superseded <=> Pub!Superseded
  BY SameReading DEF Publishing!Superseded, Pub!Superseded
<1>3. Publishing!Quiet <=> Pub!Quiet
  BY DEF Publishing!Quiet, Pub!Quiet, Publishing!Ended, Pub!Ended
<1>4. Publishing!Untorn <=> Pub!Untorn
  BY SameTorn DEF Publishing!Untorn, Pub!Untorn
<1>5. QED
  BY <1>1, <1>2, <1>3, <1>4 DEF Publishing!SnapshotShown, Pub!SnapshotShown

\* As long as no lock was taken away from its holder, the publication ledger
\* validates up to a torn line and a reader between runs is shown what was
\* published: the lock of app/recommendations.py is enough for
\* validate_publication_ledger and for latest(), crashes included.
THEOREM LedgerProtected == Spec => []LockProtectsLedger
<1>1. /\ Serial
      /\ ~overlapped => Publishing!LedgerIntact
      /\ Publishing!PublishedIsShown
      => LockProtectsLedger
  BY SameIntact, SameShown DEF Serial, LockProtectsLedger, Publishing!PublishedIsShown
<1>2. Spec => []Serial
  BY LockSerializes, PTL DEF Serial
<1>3. QED
  BY <1>1, <1>2, PublicationFacts, PTL

\* Whatever happens to the lock, reclaimed under a live scan included, a reader of
\* latest() is never shown more than the daily cap: the ledger's validator and
\* the receipt take care of it, not the lock.
THEOREM ServiceShowsAtMostCap == Spec => [](Pub!Cardinality(Pub!Visible) <= Cap)
<1>1. Publishing!Cardinality(Publishing!Visible) <= Cap => Pub!Cardinality(Pub!Visible) <= Cap
  BY SameVisible, SameCardinality
<1>2. Spec => [](Publishing!Cardinality(Publishing!Visible) <= Cap)
  BY ConstantsFit, ImplementsPublication, SamePublication, Publishing!ReaderSeesAtMostCap, PTL
<1>3. QED
  BY <1>1, <1>2, PTL

LEMMA SamePromise == Publishing!KeepsDailyCap => Pub!KeepsDailyCap
<1>1. Publishing!Committed = Pub!Committed /\ (Publishing!Valid(ledger) <=> Pub!Valid(ledger))
  BY SameReading DEF Publishing!Committed, Pub!Committed
<1>2. Publishing!Valid(ledger) = Pub!Valid(ledger)
  BY <1>1 DEF Publishing!Valid, Pub!Valid
<1>3. (Publishing!Committed = Pub!Committed)' /\ (Publishing!Valid(ledger) = Pub!Valid(ledger))'
  BY <1>1, <1>2, PTL
<1>4. Publishing!Promise!Nothing = Pub!Promise!Nothing
  BY DEF Publishing!Promise!Nothing, Pub!Promise!Nothing
<1>5. Publishing!Promise!Init => Pub!Promise!Init
  BY <1>1, <1>2, <1>4 DEF Publishing!Promise!Init, Pub!Promise!Init
<1>6. ASSUME NEW S PROVE Publishing!Promise!Cardinality(S) = Pub!Promise!Cardinality(S)
  BY DEF Publishing!Promise!Cardinality, Pub!Promise!Cardinality
<1>7. ASSUME NEW d \in Dates, NEW S \in SUBSET Symbols
      PROVE  Publishing!Promise!Publish(d, S) <=> Pub!Promise!Publish(d, S)
  BY <1>1, <1>2, <1>3, <1>6 DEF Publishing!Promise!Publish, Pub!Promise!Publish
<1>8. Publishing!Promise!Break <=> Pub!Promise!Break
  BY <1>1, <1>2, <1>3, <1>4 DEF Publishing!Promise!Break, Pub!Promise!Break
<1>9. [Publishing!Promise!Next]_<<Publishing!Committed, Publishing!Valid(ledger)>>
        => [Pub!Promise!Next]_<<Pub!Committed, Pub!Valid(ledger)>>
  BY <1>1, <1>2, <1>3, <1>7, <1>8 DEF Publishing!Promise!Next, Pub!Promise!Next
<1>10. QED
  BY <1>5, <1>9, PTL DEF
      Publishing!KeepsDailyCap, Pub!KeepsDailyCap, Publishing!Promise!Spec, Pub!Promise!Spec

\* The ledger of the service implements the daily cap, reclaimed locks and all: two
\* rows of scans that overlapped, or a line two runs wrote on, may break the record
\* for good, but as long as it validates no date shows more than the cap and none
\* loses a symbol.
THEOREM ServiceKeepsDailyCap == Spec => Pub!KeepsDailyCap
  BY ConstantsFit, ImplementsPublication, SamePublication, SamePromise,
     Publishing!LedgerKeepsDailyCap, PTL
=============================================================================
