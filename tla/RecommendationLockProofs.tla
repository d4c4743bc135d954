----------------------- MODULE RecommendationLockProofs -----------------------
(***************************************************************************)
(* For any number of runs, any age limit and an unbounded clock: the scan  *)
(* lock admits a second holder only by taking the first one's file away,   *)
(* never leaks the lock of a run that ended, and never recovers from an    *)
(* empty file.                                                             *)
(***************************************************************************)
EXTENDS RecommendationLock, TLAPS

\* The path names the lock of every run that holds it, until somebody else
\* unlinks that lock.
HolderOwnsFile ==
  \A r \in Runs : pc[r] \in Holding => OwnedBy(r) \/ r \in evicted

\* An empty lock file is one whose creator is between open and write, or died
\* there.
EmptyMeansUnwritten ==
  lockFile # NoFile /\ ~lockFile.written =>
    pc[lockFile.token] \in {"write", "crashed"}

\* The inductive invariant.
LockInv ==
  /\ TypeOK
  /\ HolderOwnsFile
  /\ NoLeakedLock
  /\ EmptyMeansUnwritten

\* The invariant holds in the initial state.
LEMMA LockInvInit == ASSUME LockAssumption PROVE Init => LockInv
  BY DEF LockAssumption, Init, LockInv, TypeOK, HolderOwnsFile, NoLeakedLock,
         EmptyMeansUnwritten, Holding, OwnedBy

\* Every step keeps the types (recommendations.py 1536-1575).
LEMMA TypeStep ==
  ASSUME LockAssumption, TypeOK, [Next]_vars PROVE TypeOK'
<1> USE DEF TypeOK, Inode, Acquiring, Holding, Ended
<1>1. CASE UNCHANGED vars  BY <1>1 DEF vars
<1>2. CASE Tick  BY <1>2 DEF Tick
<1>3. ASSUME NEW r \in Runs, Begin(r) \/ Step(r) \/ Crash(r)  PROVE TypeOK'
  <2>1. CASE Begin(r)  BY <2>1 DEF Begin, Go
  <2>2. CASE CreateExclusive(r)  BY <2>2 DEF CreateExclusive, Go
  <2>3. CASE CreateFails(r)  BY <2>3 DEF CreateFails, Go
  <2>4. CASE Look(r)  BY <2>4 DEF Look, Go
  <2>5. CASE ReadMetadata(r)  BY <2>5 DEF ReadMetadata, Go
  <2>6. CASE Reclaim(r)
    <3>1. evicted' \subseteq Runs  BY <2>6 DEF Reclaim, Unlink
    <3> QED  BY <3>1, <2>6 DEF Reclaim, Unlink, Go
  <2>7. CASE WriteToken(r)  BY <2>7 DEF WriteToken, Go, OwnedBy
  <2>8. CASE FinishScan(r)  BY <2>8 DEF FinishScan, Go
  <2>9. CASE ReleaseLook(r)  BY <2>9 DEF ReleaseLook, Go
  <2>10. CASE ReleaseRead(r)  BY <2>10 DEF ReleaseRead, Go
  <2>11. CASE ReleaseUnlink(r)
    <3>1. evicted' \subseteq Runs  BY <2>11 DEF ReleaseUnlink, Unlink
    <3> QED  BY <3>1, <2>11 DEF ReleaseUnlink, Unlink, Go
  <2>12. CASE Crash(r)  BY <2>12 DEF Crash
  <2> QED  BY <1>3, <2>1, <2>2, <2>3, <2>4, <2>5, <2>6, <2>7, <2>8, <2>9,
              <2>10, <2>11, <2>12 DEF Step
<1> QED  BY <1>1, <1>2, <1>3 DEF Next

\* An inode is not the absence of a file.
LEMMA InodeIsAFile ==
  ASSUME LockAssumption, NEW r \in Runs, NEW w \in BOOLEAN
  PROVE  [token |-> r, written |-> w] # NoFile
<1>1. [token |-> r, written |-> w] \in [token : Runs, written : BOOLEAN]
  OBVIOUS
<1> QED  BY <1>1, LockAssumption, Zenon DEF LockAssumption

\* Every step keeps the invariant.
LEMMA LockInvStep ==
  ASSUME LockAssumption, LockInv, [Next]_vars PROVE LockInv'
<1>0. TypeOK'  BY TypeStep DEF LockInv
<1> USE <1>0 DEF LockInv, TypeOK, Inode, HolderOwnsFile, NoLeakedLock,
                 EmptyMeansUnwritten, Acquiring, Holding, Ended, OwnedBy
<1>1. CASE UNCHANGED vars  BY <1>1 DEF vars
<1>2. CASE Tick  BY <1>2 DEF Tick
<1>3. ASSUME NEW r \in Runs, Begin(r) \/ Step(r) \/ Crash(r)  PROVE LockInv'
  <2>1. CASE Begin(r)  BY <2>1 DEF Begin, Go
  <2>2. CASE CreateExclusive(r)
    <3>1. /\ lockFile'.token = r /\ pc'[r] = "write"
          /\ \A s \in Runs \ {r} : pc'[s] = pc[s]
      BY <2>2 DEF CreateExclusive, Go
    <3>2. HolderOwnsFile'
      <4>1. lockFile' # NoFile
        BY <2>2, LockAssumption, InodeIsAFile DEF CreateExclusive
      <4> QED  BY <2>2, <3>1, <4>1 DEF CreateExclusive
    <3>3. NoLeakedLock' /\ EmptyMeansUnwritten'  BY <3>1
    <3> QED  BY <3>2, <3>3
  <2>3. CASE CreateFails(r)  BY <2>3 DEF CreateFails, Go
  <2>4. CASE Look(r)  BY <2>4 DEF Look, Go
  <2>5. CASE ReadMetadata(r)  BY <2>5 DEF ReadMetadata, Go
  <2>6. CASE Reclaim(r)
    <3>1. HolderOwnsFile'
      BY <2>6 DEF Reclaim, Unlink, Go
    <3> QED  BY <3>1, <2>6 DEF Reclaim, Unlink, Go
  <2>7. CASE WriteToken(r)
    <3>1. CASE OwnedBy(r)
      <4>1. /\ lockFile'.token = r /\ lockFile'.written /\ pc'[r] = "hold"
            /\ \A s \in Runs \ {r} : pc'[s] = pc[s]
        BY <2>7, <3>1 DEF WriteToken, Go
      <4>2. lockFile' # NoFile
        <5>1. lockFile' = [token |-> r, written |-> TRUE]
          BY <2>7, <3>1 DEF WriteToken
        <5> QED  BY <5>1, LockAssumption, InodeIsAFile
      <4> QED  BY <4>1, <4>2, <2>7, <3>1 DEF WriteToken
    <3>2. CASE ~OwnedBy(r)
      <4>1. lockFile' = lockFile  BY <2>7, <3>2 DEF WriteToken
      <4>2. \A s \in Runs : s # r => pc'[s] = pc[s]  BY <2>7 DEF WriteToken, Go
      <4>3. pc[r] = "write" /\ pc'[r] = "hold"  BY <2>7 DEF WriteToken, Go
      <4>4. evicted' = evicted  BY <2>7 DEF WriteToken
      <4> QED  BY <4>1, <4>2, <4>3, <4>4, <3>2
    <3> QED  BY <3>1, <3>2
  <2>8. CASE FinishScan(r)  BY <2>8 DEF FinishScan, Go
  <2>9. CASE ReleaseLook(r)  BY <2>9 DEF ReleaseLook, Go
  <2>10. CASE ReleaseRead(r)  BY <2>10 DEF ReleaseRead, Go, Readable
  <2>11. CASE ReleaseUnlink(r)
    <3>1. HolderOwnsFile'
      BY <2>11 DEF ReleaseUnlink, Unlink, Go
    <3> QED  BY <3>1, <2>11 DEF ReleaseUnlink, Unlink, Go
  <2>12. CASE Crash(r)  BY <2>12 DEF Crash
  <2> QED  BY <1>3, <2>1, <2>2, <2>3, <2>4, <2>5, <2>6, <2>7, <2>8, <2>9,
              <2>10, <2>11, <2>12 DEF Step
<1> QED  BY <1>1, <1>2, <1>3 DEF Next

\* The invariant holds always.
LEMMA LockInvHolds == ASSUME LockAssumption PROVE Spec => []LockInv
<1>1. Init => LockInv  BY LockInvInit
<1>2. LockInv /\ [Next]_vars => LockInv'  BY LockInvStep
<1> QED  BY <1>1, <1>2, PTL DEF Spec

\* Exclusive creation never admits two runs: two hold the lock at once only
\* after the lock of one of them was unlinked by a reclaim or by a release
\* that had read older metadata (recommendations.py 1551-1556, 1569-1575).
THEOREM Exclusion == Spec => []AtMostOneUnevicted
<1>1. LockInv => AtMostOneUnevicted
  BY DEF LockInv, HolderOwnsFile, AtMostOneUnevicted, OwnedBy
<1> QED  BY <1>1, LockInvHolds, LockAssumption, PTL

\* A run that ended without dying has left no lock behind
\* (the finally clause of generate_daily_recommendations, 1924-1925).
THEOREM NoLeak == Spec => []NoLeakedLock
<1>1. LockInv => NoLeakedLock  BY DEF LockInv
<1> QED  BY <1>1, LockInvHolds, LockAssumption, PTL

\* The type invariant of the module.
THEOREM TypeCorrect == Spec => []TypeOK
<1>1. LockInv => TypeOK  BY DEF LockInv
<1> QED  BY <1>1, LockInvHolds, LockAssumption, PTL

\* The empty file of a creator that died between open and write is never
\* taken away by a run that has yet to read it (1551, storage.read_json).
THEOREM WedgeStays == Spec => WedgeIsPermanent
<1>1. TypeOK /\ Wedged /\ [Next]_vars => Wedged'
  <2> SUFFICES ASSUME TypeOK, Wedged, [Next]_vars PROVE Wedged'
    OBVIOUS
  <2>1. lockFile' = lockFile
    BY DEF TypeOK, Wedged, Next, Step, vars, Tick, Begin, CreateExclusive,
           CreateFails, Look, ReadMetadata, Reclaim, WriteToken, FinishScan,
           ReleaseLook, ReleaseRead, ReleaseUnlink, Crash, Go, OwnedBy
  <2>2. \A r \in Runs : pc'[r] \notin {"unlink", "releasing"}
    BY DEF TypeOK, Wedged, Next, Step, vars, Tick, Begin, CreateExclusive,
           CreateFails, Look, ReadMetadata, Reclaim, WriteToken, FinishScan,
           ReleaseLook, ReleaseRead, ReleaseUnlink, Crash, Go, Readable
  <2>3. pc'[lockFile.token] = "crashed"
    <3>1. lockFile.token \in Runs  BY DEF TypeOK, Inode, Wedged
    <3> QED  BY <3>1 DEF TypeOK, Wedged, Next, Step, vars, Tick, Begin,
           CreateExclusive, CreateFails, Look, ReadMetadata, Reclaim,
           WriteToken, FinishScan, ReleaseLook, ReleaseRead, ReleaseUnlink,
           Crash, Go, Acquiring, Holding
  <2> QED  BY <2>1, <2>2, <2>3 DEF Wedged
<1> QED  BY <1>1, TypeCorrect, PTL DEF Spec, WedgeIsPermanent
=============================================================================
