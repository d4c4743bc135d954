------------------------ MODULE ExperimentLedgerProofs ------------------------
(***************************************************************************)
(* For any experiments and any number of processes: what is checked under  *)
(* the ledger's lock still holds when the row is written, so the rows      *)
(* implement the abstract lifecycle; an experiment that has lost the tip   *)
(* never moves again; a half-done bootstrap is never repaired.             *)
(***************************************************************************)
EXTENDS ExperimentLedger, LogLemmas, Integers, TLAPS

\* Each stage is reached only by the kinds whose path has it.
OnPath ==
  \A e \in Experiments :
    /\ Latest(e) = "precompute_launch_started" => Kind[e] \in Controlled
    /\ Latest(e) = "precompute_completed" => Kind[e] \in Controlled \cup {"supervised"}
    /\ Latest(e) = "validation_started" => Kind[e] # "plain"

\* The conditions of the operation that proposed d, as far as they matter.
Admitted(d) ==
  /\ Follows(Kind[d.exp], Latest(d.exp), d.type)
  /\ ~Stranded(d.exp)
  /\ d.type = "registered" =>
       \A f \in Experiments : Latest(f) # "precompute_launch_started"
  /\ d.type = "precompute_launch_started" => CanLaunch(d.exp)
  /\ d.type = "reviewed" => Kind[d.exp] \notin Controlled

\* flock: one process is between its checks and its write.
OneWriter ==
  \A p, q \in Procs : pc[p] = "write" /\ pc[q] = "write" => p = q

DraftsAdmitted ==
  \A p \in Procs : pc[p] = "write" => draft[p] \in Row /\ Admitted(draft[p])

\* The inductive invariant.
LedgerInv == TypeOK /\ OneWriter /\ DraftsAdmitted /\ OnPath

-----------------------------------------------------------------------------
\* A row changes the latest event of its own experiment and of no other.
LEMMA LatestAppend ==
  ASSUME rows \in Seq(Row), NEW x \in Row, rows' = Append(rows, x),
         NEW e \in Experiments
  PROVE  Latest(e)' = IF e = x.exp THEN x.type ELSE Latest(e)
<1> DEFINE n == Len(rows)
<1>1. n \in Nat /\ n + 1 \in Nat /\ Len(rows') = n + 1  OBVIOUS
<1>2. \A i \in 1 .. n : rows'[i] = rows[i]  OBVIOUS
<1>3. rows'[n + 1] = x  OBVIOUS
<1>4. CASE e = x.exp
  <2>1. n + 1 \in RowsOf(e)'  BY <1>1, <1>3, <1>4 DEF RowsOf
  <2>2. RowsOf(e)' \in SUBSET (1 .. n + 1)  BY <1>1 DEF RowsOf
  <2>3. \A j \in RowsOf(e)' : j <= n + 1  BY <2>2
  <2>4. LastOf(RowsOf(e)') = n + 1
    BY <1>1, <2>1, <2>2, <2>3, LastOfUnique
  <2> QED  BY <2>1, <2>4, <1>3, <1>4 DEF Latest
<1>5. CASE e # x.exp
  <2>1. RowsOf(e)' = RowsOf(e)  BY <1>1, <1>2, <1>3, <1>5 DEF RowsOf
  <2>2. CASE RowsOf(e) = {}  BY <2>1, <2>2, <1>5 DEF Latest
  <2>3. CASE RowsOf(e) # {}
    <3>1. RowsOf(e) \in SUBSET (1 .. n)  BY DEF RowsOf
    <3>2. LastOf(RowsOf(e)) \in 1 .. n
      BY <1>1, <2>3, <3>1, LastOfProperties
    <3> QED  BY <2>1, <2>3, <3>2, <1>2, <1>5 DEF Latest
  <2> QED  BY <2>2, <2>3
<1> QED  BY <1>4, <1>5

\* After a row was appended the tip is that row.
LEMMA TipAppend ==
  ASSUME rows \in Seq(Row), NEW x \in Row, rows' = Append(rows, x),
         NEW e \in Experiments, NEW t
  PROVE  Tip(e, t)' <=> x = [exp |-> e, type |-> t]
<1>1. Len(rows') = Len(rows) + 1 /\ Len(rows) \in Nat  OBVIOUS
<1>2. rows'[Len(rows')] = x /\ rows' # <<>>  BY <1>1
<1> QED  BY <1>2 DEF Tip

\* The latest event of a tip.
LEMMA TipIsLatest ==
  ASSUME rows \in Seq(Row), NEW e \in Experiments, NEW t, Tip(e, t)
  PROVE  Latest(e) = t
<1> DEFINE n == Len(rows)
<1>1. n \in Nat /\ n >= 1 /\ rows[n] = [exp |-> e, type |-> t]
  BY DEF Tip
<1>2. n \in RowsOf(e)  BY <1>1 DEF RowsOf
<1>3. RowsOf(e) \in SUBSET (1 .. n)  BY DEF RowsOf
<1>4. \A j \in RowsOf(e) : j <= n  BY <1>3, <1>1
<1>5. LastOf(RowsOf(e)) = n  BY <1>1, <1>2, <1>3, <1>4, LastOfUnique
<1> QED  BY <1>1, <1>2, <1>5 DEF Latest

\* The latest event is an event or nothing.
LEMMA LatestTyped ==
  ASSUME rows \in Seq(Row), NEW e \in Experiments
  PROVE  Latest(e) \in Types \cup {"none"}
<1>1. CASE RowsOf(e) = {}  BY <1>1 DEF Latest
<1>2. CASE RowsOf(e) # {}
  <2>1. RowsOf(e) \in SUBSET (1 .. Len(rows))  BY DEF RowsOf
  <2>2. Len(rows) \in Nat  OBVIOUS
  <2>3. LastOf(RowsOf(e)) \in 1 .. Len(rows)
    BY <1>2, <2>1, <2>2, LastOfProperties
  <2>4. rows[LastOf(RowsOf(e))] \in Row  BY <2>3
  <2> QED  BY <1>2, <2>4 DEF Latest, Row
<1> QED  BY <1>1, <1>2

-----------------------------------------------------------------------------
\* Nothing is added to the file, and nobody starts to write.
Quiet ==
  /\ rows' = rows
  /\ \A q \in Procs : pc'[q] = "write" => pc[q] = "write" /\ draft'[q] = draft[q]

\* p appends the row it has proposed.
Appends(p) ==
  /\ pc[p] = "write"
  /\ rows' = Append(rows, draft[p])
  /\ \A q \in Procs : pc'[q] = "write" => pc[q] = "write" /\ q # p

\* What every operation has checked when it proposes its row
\* (the operations from append_experiment_event to claim_registered_experiment).
LEMMA OperationsAdmit ==
  ASSUME TypeOK, NEW p \in Procs, NEW e \in Experiments, Operation(p, e)
  PROVE  \E t \in Types : Propose(p, e, t) /\ Admitted([exp |-> e, type |-> t])
<1> USE DEF TypeOK, Types, Closed, Admitted, Stranded
<1>1. ASSUME NEW t \in Types, AppendEvent(p, e, t)
      PROVE  Propose(p, e, t) /\ Admitted([exp |-> e, type |-> t])
  BY <1>1 DEF AppendEvent, CanAppend, Propose
<1>2. CASE Register(p, e)
  <2>1. \A f \in Experiments : Latest(f) # "precompute_launch_started"
    BY <1>2 DEF Register, CanRegister, Open, Listable
  <2> QED  BY <1>2, <2>1 DEF Register, CanRegister, Propose
<1>3. CASE AuthorizeLaunch(p, e)
  <2>1. Latest(e) = "registered"
    BY <1>3, TipIsLatest DEF AuthorizeLaunch, CanLaunch
  <2> QED  BY <1>3, <2>1 DEF AuthorizeLaunch, Propose
<1>4. CASE CompleteLaunch(p, e) \/ FailLaunch(p, e)
  <2>1. Latest(e) = "precompute_launch_started" /\ Tip(e, "precompute_launch_started")
    BY <1>4, TipIsLatest DEF CompleteLaunch, FailLaunch, CanEndLaunch
  <2> QED  BY <1>4, <2>1 DEF CompleteLaunch, FailLaunch, Propose
<1>5. CASE FailRegistered(p, e) \/ CompleteRegistered(p, e) \/ ClaimRegistered(p, e)
  BY <1>5 DEF FailRegistered, CompleteRegistered, ClaimRegistered, IsRegistered, Propose
<1>6. CASE FailPrecomputed(p, e) \/ ClaimPrecomputed(p, e)
  BY <1>6 DEF FailPrecomputed, ClaimPrecomputed, IsPrecomputed, Propose
<1>7. CASE FailValidation(p, e) \/ CompleteValidation(p, e)
  <2>1. Latest(e) = "validation_started" /\ Tip(e, "validation_started")
    BY <1>7, TipIsLatest DEF FailValidation, CompleteValidation, IsTipOf
  <2> QED  BY <1>7, <2>1 DEF FailValidation, CompleteValidation, Propose
<1>8. CASE Decide(p, e)
  <2>1. Latest(e) = "completed" /\ Tip(e, "completed")
    BY <1>8, TipIsLatest DEF Decide, IsTipOf
  <2> QED  BY <1>8, <2>1 DEF Decide, Propose
<1> QED
  BY <1>1, <1>2, <1>3, <1>4, <1>5, <1>6, <1>7, <1>8 DEF Operation

\* Every step is quiet, proposes a row, or appends the proposed one.
LEMMA StepForms ==
  ASSUME TypeOK, [Next]_vars
  PROVE  \/ Quiet
         \/ \E p \in Procs, e \in Experiments, t \in Types :
              Propose(p, e, t) /\ Admitted([exp |-> e, type |-> t])
         \/ \E p \in Procs : Appends(p)
<1> USE DEF TypeOK, fileVars
<1>1. CASE UNCHANGED vars  BY <1>1 DEF vars, Quiet
<1>2. ASSUME NEW p \in Procs,
             \/ Enter(p) \/ CreateLock(p) \/ CreateLockFails(p) \/ WriteMarker(p)
             \/ Refuse(p) \/ Crash(p)
      PROVE  Quiet
  BY <1>2 DEF Enter, CreateLock, CreateLockFails, WriteMarker, Refuse, Crash, Go, Quiet
<1>3. ASSUME NEW p \in Procs, Write(p) \/ CrashWriting(p)
      PROVE  Quiet \/ Appends(p)
  BY <1>3 DEF Write, CrashWriting, Go, Quiet, Appends
<1>4. ASSUME NEW p \in Procs, NEW e \in Experiments, Operation(p, e)
      PROVE  \E t \in Types : Propose(p, e, t) /\ Admitted([exp |-> e, type |-> t])
  BY <1>4, OperationsAdmit
<1> QED  BY <1>1, <1>2, <1>3, <1>4 DEF Next

\* What is read in unchanged rows does not change.
LEMMA SameRows ==
  ASSUME rows' = rows
  PROVE  /\ \A e : Latest(e)' = Latest(e)
         /\ \A e, t : Tip(e, t)' = Tip(e, t)
         /\ \A d : Admitted(d)' = Admitted(d)
<1>1. \A e : Latest(e)' = Latest(e)  BY DEF Latest, RowsOf
<1>2. \A e, t : Tip(e, t)' = Tip(e, t)  BY DEF Tip
<1>3. \A e : Stranded(e)' = Stranded(e)  BY <1>1, <1>2 DEF Stranded
<1>4. \A e : CanLaunch(e)' = CanLaunch(e)  BY <1>1, <1>2 DEF CanLaunch, Open
<1> QED  BY <1>1, <1>2, <1>3, <1>4 DEF Admitted

-----------------------------------------------------------------------------
\* The invariant holds in the initial state.
LEMMA LedgerInvInit == Init => LedgerInv
<1> SUFFICES ASSUME Init PROVE LedgerInv  OBVIOUS
<1>1. \A e : Latest(e) = "none"  BY DEF Init, Latest, RowsOf
<1>2. OnPath  BY <1>1 DEF OnPath
<1>3. \A p \in Procs : pc[p] # "write"  BY DEF Init
<1>4. <<>> \in Seq(Row) /\ draft \in [Procs -> Row \cup {NoRow}]  BY DEF Init
<1>5. TypeOK  BY <1>4 DEF Init, TypeOK
<1> QED  BY <1>2, <1>3, <1>5 DEF LedgerInv, OneWriter, DraftsAdmitted

\* Every step keeps the types.
LEMMA TypeStep == ASSUME LedgerInv, [Next]_vars PROVE TypeOK'
<1>0. TypeOK  BY DEF LedgerInv
<1> USE <1>0 DEF TypeOK, fileVars
<1>1. CASE UNCHANGED vars  BY <1>1 DEF vars
<1>2. ASSUME NEW p \in Procs,
             \/ Enter(p) \/ CreateLock(p) \/ CreateLockFails(p) \/ WriteMarker(p)
             \/ Refuse(p) \/ Crash(p)
      PROVE  TypeOK'
  BY <1>2 DEF Enter, CreateLock, CreateLockFails, WriteMarker, Refuse, Crash, Go
<1>3. ASSUME NEW p \in Procs, Write(p) \/ CrashWriting(p)
      PROVE  TypeOK'
  <2>1. draft[p] \in Row
    BY <1>3 DEF LedgerInv, DraftsAdmitted, Write, CrashWriting, Go
  <2>2. Append(rows, draft[p]) \in Seq(Row)  BY <2>1
  <2> QED  BY <1>3, <2>2 DEF Write, CrashWriting, Go
<1>4. ASSUME NEW p \in Procs, NEW e \in Experiments, Operation(p, e)
      PROVE  TypeOK'
  <2>1. PICK t \in Types : Propose(p, e, t)  BY <1>4, OperationsAdmit
  <2>2. [exp |-> e, type |-> t] \in Row  BY DEF Row
  <2> QED  BY <2>1, <2>2 DEF Propose
<1> QED  BY <1>1, <1>2, <1>3, <1>4 DEF Next

\* Appending the proposed row keeps every experiment on the path of its kind.
LEMMA AppendOnPath ==
  ASSUME LedgerAssumption, LedgerInv, NEW p \in Procs, Appends(p)
  PROVE  OnPath'
<1> DEFINE x == draft[p]
<1>1. x \in Row /\ Follows(Kind[x.exp], Latest(x.exp), x.type)
  BY DEF LedgerInv, DraftsAdmitted, Admitted, Appends
<1>2. \A e \in Experiments : Latest(e)' = IF e = x.exp THEN x.type ELSE Latest(e)
  BY <1>1, LatestAppend DEF Appends, LedgerInv, TypeOK
<1>3. x.exp \in Experiments  BY <1>1 DEF Row
<1> HIDE DEF x
<1>4. Kind[x.exp] \in Controlled \/ Kind[x.exp] \notin Controlled  OBVIOUS
<1>5. /\ x.type = "precompute_launch_started" => Kind[x.exp] \in Controlled
      /\ x.type = "precompute_completed" => Kind[x.exp] \in Controlled \cup {"supervised"}
      /\ x.type = "validation_started" => Kind[x.exp] # "plain"
  BY <1>1, <1>3 DEF Follows, LedgerInv, OnPath, Controlled
<1> QED  BY <1>2, <1>5 DEF OnPath, LedgerInv

\* Every step keeps the invariant.
LEMMA LedgerInvStep ==
  ASSUME LedgerAssumption, LedgerInv, [Next]_vars PROVE LedgerInv'
<1>0. TypeOK /\ TypeOK'  BY TypeStep DEF LedgerInv
<1>1. CASE Quiet
  <2>1. OnPath'  BY <1>1, SameRows DEF Quiet, OnPath, LedgerInv
  <2>2. OneWriter'  BY <1>1 DEF Quiet, OneWriter, LedgerInv
  <2>3. DraftsAdmitted'
    <3>1. \A d : Admitted(d)' = Admitted(d)  BY <1>1, SameRows DEF Quiet
    <3> QED  BY <1>1, <3>1 DEF Quiet, DraftsAdmitted, LedgerInv
  <2> QED  BY <1>0, <2>1, <2>2, <2>3 DEF LedgerInv
<1>2. ASSUME NEW p \in Procs, NEW e \in Experiments, NEW t \in Types,
             Propose(p, e, t), Admitted([exp |-> e, type |-> t])
      PROVE  LedgerInv'
  <2>1. rows' = rows  BY <1>2 DEF Propose, fileVars
  <2>2. OnPath'  BY <2>1, SameRows DEF OnPath, LedgerInv
  <2>3. \A q \in Procs : pc'[q] = "write" => q = p
    BY <1>0, <1>2 DEF Propose, Locked, Free, TypeOK
  <2>4. draft'[p] = [exp |-> e, type |-> t]  BY <1>0, <1>2 DEF Propose, TypeOK
  <2>5. draft'[p] \in Row  BY <2>4 DEF Row
  <2>6. Admitted([exp |-> e, type |-> t])'  BY <1>2, <2>1, SameRows
  <2>7. DraftsAdmitted'  BY <2>3, <2>4, <2>5, <2>6 DEF DraftsAdmitted
  <2> QED  BY <1>0, <2>2, <2>3, <2>7 DEF LedgerInv, OneWriter
<1>3. ASSUME NEW p \in Procs, Appends(p) PROVE LedgerInv'
  <2>1. \A q \in Procs : pc'[q] # "write"
    BY <1>3 DEF Appends, LedgerInv, OneWriter
  <2>2. OnPath'  BY <1>3, AppendOnPath
  <2> QED  BY <1>0, <2>1, <2>2 DEF LedgerInv, OneWriter, DraftsAdmitted
<1> QED  BY <1>0, <1>1, <1>2, <1>3, StepForms

\* The invariant holds always.
LEMMA LedgerInvHolds == ASSUME LedgerAssumption PROVE Spec => []LedgerInv
<1>1. Init => LedgerInv  BY LedgerInvInit
<1>2. LedgerInv /\ [Next]_vars => LedgerInv'  BY LedgerInvStep
<1> QED  BY <1>1, <1>2, PTL DEF Spec

\* The type invariant of the module.
THEOREM TypeCorrect == Spec => []TypeOK
<1>1. LedgerInv => TypeOK  BY DEF LedgerInv
<1> QED  BY <1>1, LedgerInvHolds, LedgerAssumption, PTL

-----------------------------------------------------------------------------
\* No step moves an experiment that has lost the tip, nor gives it the tip
\* back: complete_, fail_ and decide_ ask for it
\* (research_validation.py 2518, 2603, 3001, 3108, 3201).
LEMMA StrandedStep ==
  ASSUME LedgerInv, [Next]_vars, NEW e \in Experiments, Stranded(e)
  PROVE  Stranded(e)'
<1>1. CASE rows' = rows
  <2>1. Latest(e)' = Latest(e) /\ \A t : Tip(e, t)' = Tip(e, t)
    BY <1>1, SameRows
  <2> QED  BY <2>1 DEF Stranded
<1>2. ASSUME NEW p \in Procs, Appends(p) PROVE Stranded(e)'
  <2>1. draft[p] \in Row /\ ~Stranded(draft[p].exp)
    BY <1>2 DEF LedgerInv, DraftsAdmitted, Admitted, Appends
  <2>2. e # draft[p].exp  BY <2>1
  <2>3. Latest(e)' = Latest(e)
    BY <1>2, <2>1, <2>2, LatestAppend DEF Appends, LedgerInv, TypeOK
  <2>4. \A t : ~Tip(e, t)'
    BY <1>2, <2>1, <2>2, TipAppend DEF Appends, LedgerInv, TypeOK
  <2> QED  BY <2>3, <2>4 DEF Stranded
<1> QED  BY <1>1, <1>2, StepForms DEF LedgerInv, Quiet, Propose, fileVars

\* An experiment that has lost the tip of the ledger stays where it is.
THEOREM StrandedForever == Spec => StrandedStays
<1>1. LedgerInv /\ [Next]_vars => \A e \in Experiments : Stranded(e) => Stranded(e)'
  BY StrandedStep
<1>2. LedgerInv /\ [Next]_vars =>
        [\A e \in Experiments : Stranded(e) => Stranded(e)']_vars
  BY <1>1
<1> QED  BY <1>2, LedgerInvHolds, LedgerAssumption, PTL DEF Spec, StrandedStays

\* No step completes or removes a bootstrap that nobody is at work on
\* (_ledger_lock, 1308).
THEOREM OrphanForever == Spec => OrphanStays
<1>1. TypeOK /\ Orphan /\ [Next]_vars => Orphan'
  <2> SUFFICES ASSUME TypeOK, Orphan, [Next]_vars PROVE Orphan'  OBVIOUS
  <2> USE DEF TypeOK, Orphan, fileVars
  <2>1. CASE UNCHANGED vars  BY <2>1 DEF vars
  <2>2. ASSUME NEW p \in Procs,
               \/ Enter(p) \/ CreateLock(p) \/ CreateLockFails(p) \/ WriteMarker(p)
               \/ Refuse(p) \/ Write(p) \/ Crash(p) \/ CrashWriting(p)
        PROVE  Orphan'
    BY <2>2 DEF Enter, Consistent, CreateLock, CreateLockFails, WriteMarker, Refuse,
                Write, Crash, CrashWriting, Go
  <2>3. ASSUME NEW p \in Procs, NEW e \in Experiments, Operation(p, e)
        PROVE  Orphan'
    BY <2>3, OperationsAdmit DEF Propose, Locked
  <2> QED  BY <2>1, <2>2, <2>3 DEF Next
<1> QED  BY <1>1, TypeCorrect, PTL DEF Spec, OrphanStays

-----------------------------------------------------------------------------
\* The transition table follows the path of each kind, apart from failures and
\* from what comes after completion (_validate_event_transition, 1720-1807).
LEMMA FollowsPath ==
  ASSUME NEW k \in Kinds, NEW last, NEW t, Follows(k, last, t),
         last = "precompute_launch_started" => k \in Controlled,
         last = "precompute_completed" => k \in Controlled \cup {"supervised"},
         last = "validation_started" => k # "plain",
         t \notin {"registered", "failed", "aborted", "reviewed", "decision"}
  PROVE  \E i \in 1 .. Len(Promise!Path(k)) - 1 :
           last = Promise!Path(k)[i] /\ t = Promise!Path(k)[i + 1]
<1> DEFINE path == Promise!Path(k)
<1>1. CASE k = "plain"
  <2>1. path = <<"registered", "completed">>  BY <1>1 DEF Promise!Path
  <2>2. last = "registered" /\ t = "completed"
    BY <1>1 DEF Follows, Controlled
  <2>3. last = path[1] /\ t = path[1 + 1] /\ 1 \in 1 .. Len(path) - 1
    BY <2>1, <2>2
  <2> QED  BY <2>3
<1>2. CASE k = "contract"
  <2>1. path = <<"registered", "validation_started", "completed">>
    BY <1>2 DEF Promise!Path
  <2>2. \/ last = "registered" /\ t = "validation_started"
        \/ last = "validation_started" /\ t = "completed"
    BY <1>2 DEF Follows, Controlled
  <2>3. \/ last = path[1] /\ t = path[1 + 1] /\ 1 \in 1 .. Len(path) - 1
        \/ last = path[2] /\ t = path[2 + 1] /\ 2 \in 1 .. Len(path) - 1
    BY <2>1, <2>2
  <2> QED  BY <2>3
<1>3. CASE k = "supervised"
  <2>1. path = <<"registered", "precompute_completed", "validation_started", "completed">>
    BY <1>3 DEF Promise!Path
  <2>2. \/ last = "registered" /\ t = "precompute_completed"
        \/ last = "precompute_completed" /\ t = "validation_started"
        \/ last = "validation_started" /\ t = "completed"
    BY <1>3 DEF Follows, Controlled
  <2>3. \/ last = path[1] /\ t = path[1 + 1] /\ 1 \in 1 .. Len(path) - 1
        \/ last = path[2] /\ t = path[2 + 1] /\ 2 \in 1 .. Len(path) - 1
        \/ last = path[3] /\ t = path[3 + 1] /\ 3 \in 1 .. Len(path) - 1
    BY <2>1, <2>2
  <2> QED  BY <2>3
<1>4. CASE k \in Controlled
  <2>1. path = <<"registered", "precompute_launch_started", "precompute_completed",
                 "validation_started", "completed">>
    BY <1>4 DEF Promise!Path, Controlled
  <2>2. \/ last = "registered" /\ t = "precompute_launch_started"
        \/ last = "precompute_launch_started" /\ t = "precompute_completed"
        \/ last = "precompute_completed" /\ t = "validation_started"
        \/ last = "validation_started" /\ t = "completed"
    BY <1>4 DEF Follows, Controlled
  <2>3. \/ last = path[1] /\ t = path[1 + 1] /\ 1 \in 1 .. Len(path) - 1
        \/ last = path[2] /\ t = path[2 + 1] /\ 2 \in 1 .. Len(path) - 1
        \/ last = path[3] /\ t = path[3 + 1] /\ 3 \in 1 .. Len(path) - 1
        \/ last = path[4] /\ t = path[4 + 1] /\ 4 \in 1 .. Len(path) - 1
    BY <2>1, <2>2
  <2> QED  BY <2>3
<1> QED  BY <1>1, <1>2, <1>3, <1>4 DEF Kinds, Controlled

\* Appending the proposed row is a step of the abstract lifecycle.
LEMMA AppendImplements ==
  ASSUME LedgerAssumption, LedgerInv, NEW p \in Procs, Appends(p)
  PROVE  Promise!Next
<1> DEFINE x == draft[p]
           e == x.exp
           status == [f \in Experiments |-> Latest(f)]
<1>1. x \in Row /\ Admitted(x)
  BY DEF LedgerInv, DraftsAdmitted, Appends
<1>2. e \in Experiments /\ x.type \in Types  BY <1>1 DEF Row
<1>3. \A f \in Experiments : Latest(f)' = IF f = e THEN x.type ELSE Latest(f)
  BY <1>1, LatestAppend DEF Appends, LedgerInv, TypeOK
<1>4. status' = [status EXCEPT ![e] = x.type]  BY <1>2, <1>3
<1>5. Promise!Set(e, x.type)  BY <1>4 DEF Promise!Set
<1>6. Follows(Kind[e], Latest(e), x.type) /\ ~Stranded(e)  BY <1>1 DEF Admitted
<1>7. x.type = "registered" =>
        \A f \in Experiments : Latest(f) # "precompute_launch_started"
  BY <1>1 DEF Admitted
<1>8. x.type = "precompute_launch_started" => CanLaunch(e)
  BY <1>1 DEF Admitted
<1> HIDE DEF x, status
<1>9. \A f \in Experiments : status[f] = Latest(f)  BY DEF status
<1>10. CASE x.type = "registered"
  <2>1. Latest(e) = "none"  BY <1>6, <1>10 DEF Follows
  <2>2. Promise!Register(e)
    BY <1>2, <1>5, <1>7, <1>9, <1>10, <2>1
       DEF Promise!Register, Promise!Launching, status
  <2> QED  BY <1>2, <2>2 DEF Promise!Next
<1>11. CASE x.type \in {"failed", "aborted"}
  <2>1. Latest(e) \in {"registered", "precompute_launch_started",
                       "precompute_completed", "validation_started"}
    BY <1>6, <1>11 DEF Follows
  <2>2. Promise!GiveUp(e)
    BY <1>2, <1>5, <1>9, <1>11, <2>1
       DEF Promise!GiveUp, Promise!Open, Promise!Closed, status
  <2> QED  BY <1>2, <2>2 DEF Promise!Next
<1>12. CASE x.type \in {"reviewed", "decision"}
  <2>1. \/ Latest(e) = "completed"
        \/ Latest(e) = "reviewed" /\ x.type = "decision"
    BY <1>6, <1>12 DEF Follows
  <2>2. Promise!Conclude(e)
    BY <1>2, <1>5, <1>9, <1>12, <2>1 DEF Promise!Conclude, status
  <2> QED  BY <1>2, <2>2 DEF Promise!Next
<1>13. CASE x.type \notin {"registered", "failed", "aborted", "reviewed", "decision"}
  <2>1. Kind[e] \in Kinds  BY <1>2 DEF LedgerAssumption
  <2>2. PICK i \in 1 .. Len(Promise!Path(Kind[e])) - 1 :
          Latest(e) = Promise!Path(Kind[e])[i] /\ x.type = Promise!Path(Kind[e])[i + 1]
    BY <1>2, <1>6, <1>13, <2>1, FollowsPath DEF LedgerInv, OnPath
  <2>3. x.type = "precompute_launch_started" => Promise!Alone(e)
    BY <1>2, <1>8, <1>9
       DEF CanLaunch, Open, Closed, Promise!Alone, Promise!Open, Promise!Closed, status
  <2>4. Promise!Proceed(e)
    BY <1>2, <1>5, <1>9, <2>2, <2>3 DEF Promise!Proceed, status
  <2> QED  BY <1>2, <2>4 DEF Promise!Next
<1> QED  BY <1>10, <1>11, <1>12, <1>13

\* The rows of the ledger, read as the status of each experiment, implement
\* the abstract lifecycle whatever the processes do and wherever they die.
THEOREM LifecycleKept == Spec => KeepsLifecycle
<1>1. Init => Promise!Init
  BY DEF Init, Promise!Init, Latest, RowsOf
<1>2. LedgerInv /\ [Next]_vars => [Promise!Next]_[e \in Experiments |-> Latest(e)]
  <2> SUFFICES ASSUME LedgerInv, [Next]_vars PROVE [Promise!Next]_[e \in Experiments |-> Latest(e)]
    OBVIOUS
  <2>1. CASE rows' = rows
    <3>1. \A f : Latest(f)' = Latest(f)  BY <2>1, SameRows
    <3> QED  BY <3>1
  <2>2. ASSUME NEW p \in Procs, Appends(p) PROVE Promise!Next
    BY <2>2, AppendImplements, LedgerAssumption
  <2> QED  BY <2>1, <2>2, StepForms DEF LedgerInv, Quiet, Propose, fileVars
<1> QED
  BY <1>1, <1>2, LedgerInvHolds, LedgerAssumption, PTL
     DEF Spec, KeepsLifecycle, Promise!Spec

-----------------------------------------------------------------------------
\* Whoever is launching is alone but for the quarantine, and owns the tip until
\* somebody in the quarantine moves.
LaunchInv ==
  \A e \in Experiments : Latest(e) = "precompute_launch_started" =>
    /\ \A f \in Experiments \ {e} : Open(f) => Kind[e] = "v4" /\ f \in Quarantined
    /\ \/ Tip(e, "precompute_launch_started")
       \/ Kind[e] = "v4" /\ \E q \in Quarantined : Latest(q) \notin {"none", "registered"}

\* The appended row keeps it: nobody registers beside a launch, and only the
\* quarantine is open beside it.
LEMMA LaunchAppend ==
  ASSUME LedgerAssumption, LedgerInv, LaunchInv, NEW p \in Procs, Appends(p)
  PROVE  LaunchInv'
<1>0. PICK x : x = draft[p]  OBVIOUS
<1>1. x \in Row /\ Admitted(x) /\ rows' = Append(rows, x)
  BY <1>0 DEF LedgerInv, DraftsAdmitted, Appends
<1>2. \A f \in Experiments : Latest(f)' = IF f = x.exp THEN x.type ELSE Latest(f)
  BY <1>1, LatestAppend DEF LedgerInv, TypeOK
<1>3. \A f \in Experiments : f # x.exp => (Open(f)' <=> Open(f))
  BY <1>2 DEF Open
<1>4. x.exp \in Experiments  BY <1>1 DEF Row
<1> SUFFICES ASSUME NEW e \in Experiments, Latest(e)' = "precompute_launch_started"
             PROVE  /\ \A f \in Experiments \ {e} :
                         Open(f)' => Kind[e] = "v4" /\ f \in Quarantined
                    /\ \/ Tip(e, "precompute_launch_started")'
                       \/ Kind[e] = "v4" /\ \E q \in Quarantined : Latest(q)' \notin {"none", "registered"}
  BY DEF LaunchInv
<1>5. CASE e = x.exp
  <2>1. x.type = "precompute_launch_started"  BY <1>2, <1>5
  <2>2. CanLaunch(e)  BY <1>1, <1>5, <2>1 DEF Admitted
  <2>3. x = [exp |-> e, type |-> "precompute_launch_started"]
    BY <1>1, <1>5, <2>1 DEF Row
  <2>4. Tip(e, "precompute_launch_started")'
    BY <1>1, <2>3, TipAppend DEF LedgerInv, TypeOK
  <2>5. \A f \in Experiments \ {e} : Open(f)' => Kind[e] = "v4" /\ f \in Quarantined
    BY <1>3, <1>5, <2>2 DEF CanLaunch
  <2> QED  BY <2>4, <2>5
<1>6. CASE e # x.exp
  <2>1. Latest(e) = "precompute_launch_started"  BY <1>2, <1>6
  <2>2. x.type # "registered"  BY <1>1, <2>1 DEF Admitted
  <2>3. Follows(Kind[x.exp], Latest(x.exp), x.type)  BY <1>1 DEF Admitted
  <2>4. Open(x.exp)  BY <2>2, <2>3 DEF Follows, Open, Closed
  <2>5. Kind[e] = "v4" /\ x.exp \in Quarantined
    BY <1>4, <1>6, <2>1, <2>4 DEF LaunchInv
  <2>6. Latest(x.exp)' \notin {"none", "registered"}
    BY <1>1, <1>2, <1>4, <2>2 DEF Row, Types, Closed
  <2>7. \A f \in Experiments \ {e} : Open(f)' => Kind[e] = "v4" /\ f \in Quarantined
    BY <1>3, <2>1, <2>5 DEF LaunchInv
  <2> QED  BY <2>5, <2>6, <2>7
<1> QED  BY <1>5, <1>6

\* The launch invariant holds always.
LEMMA LaunchInvHolds == ASSUME LedgerAssumption PROVE Spec => []LaunchInv
<1>1. Init => LaunchInv  BY DEF Init, LaunchInv, Latest, RowsOf
<1>2. LedgerInv /\ LaunchInv /\ [Next]_vars => LaunchInv'
  <2> SUFFICES ASSUME LedgerInv, LaunchInv, [Next]_vars PROVE LaunchInv'  OBVIOUS
  <2>1. CASE rows' = rows
    BY <2>1, SameRows DEF LaunchInv, Open
  <2>2. ASSUME NEW p \in Procs, Appends(p) PROVE LaunchInv'
    BY <2>2, LaunchAppend
  <2> QED  BY <2>1, <2>2, StepForms DEF LedgerInv, Quiet, Propose, fileVars
<1> QED  BY <1>1, <1>2, LedgerInvHolds, PTL DEF Spec

\* A launch loses the tip of the ledger only to an experiment in quarantine
\* (append_experiment_event 2034-2053, the allowlists and open sets of 2283 and
\* 2358-2372).
THEOREM LaunchTip == Spec => []LaunchKeepsTip
<1>1. LaunchInv => LaunchKeepsTip
  BY DEF LaunchInv, LaunchKeepsTip, Stranded
<1> QED  BY <1>1, LaunchInvHolds, LedgerAssumption, PTL

\* Two precompute launches never run at once, whoever authorized them and from
\* whatever reading of the ledger: the open set of 2358-2372 names no launch, and
\* what the quarantine tolerates (no v4) cannot tolerate the other way round.
THEOREM OneLaunchAtATime ==
  Spec => [](\A e, f \in Experiments :
               /\ Latest(e) = "precompute_launch_started"
               /\ Latest(f) = "precompute_launch_started"
               => e = f)
<1>1. LaunchInv => \A e, f \in Experiments :
        /\ Latest(e) = "precompute_launch_started"
        /\ Latest(f) = "precompute_launch_started"
        => e = f
  <2> SUFFICES ASSUME LaunchInv, NEW e \in Experiments, NEW f \in Experiments, e # f,
                      Latest(e) = "precompute_launch_started",
                      Latest(f) = "precompute_launch_started"
               PROVE  FALSE
    OBVIOUS
  <2>1. Open(e) /\ Open(f)  BY DEF Open, Closed
  <2>2. Kind[e] = "v4" /\ e \in Quarantined  BY <2>1 DEF LaunchInv
  <2> QED  BY <2>2, LedgerAssumption DEF LedgerAssumption
<1> QED  BY <1>1, LaunchInvHolds, LedgerAssumption, PTL

-----------------------------------------------------------------------------
\* Where the rows of a controlled experiment are in the file: its launch right
\* after its registration, its result right after its launch; it is not reviewed.
Placed(i) ==
  /\ rows[i].type = "precompute_launch_started" =>
       i > 1 /\ rows[i - 1] = [exp |-> rows[i].exp, type |-> "registered"]
  /\ rows[i].type = "precompute_completed" /\ Kind[rows[i].exp] \in Controlled =>
       i > 1 /\ rows[i - 1] = [exp |-> rows[i].exp, type |-> "precompute_launch_started"]
  /\ rows[i].type = "reviewed" => Kind[rows[i].exp] \notin Controlled

RowsPlaced == \A i \in 1 .. Len(rows) : Placed(i)

\* The appended row is placed right: a launch and its result were proposed by an
\* operation that asks for the tip (2358-2372, 2518), and nothing is appended
\* between the check and the write.
LEMMA PlacedAppend ==
  ASSUME LedgerInv, RowsPlaced, NEW p \in Procs, Appends(p)
  PROVE  RowsPlaced'
<1>0. PICK x : x = draft[p]  OBVIOUS
<1>n. PICK n : n = Len(rows)  OBVIOUS
<1>1. x \in Row /\ Admitted(x) /\ rows' = Append(rows, x) /\ rows \in Seq(Row)
  BY <1>0 DEF LedgerInv, DraftsAdmitted, Appends, TypeOK
<1>2. n \in Nat /\ Len(rows') = n + 1 /\ rows'[n + 1] = x
  BY <1>1, <1>n
<1>3. \A i \in 1 .. n : rows'[i] = rows[i]
  BY <1>1, <1>n
<1>4. x.type = "precompute_launch_started" =>
        n >= 1 /\ rows[n] = [exp |-> x.exp, type |-> "registered"]
  BY <1>1, <1>2, <1>n DEF Admitted, CanLaunch, Tip
<1>5. x.type = "precompute_completed" /\ Kind[x.exp] \in Controlled =>
        n >= 1 /\ rows[n] = [exp |-> x.exp, type |-> "precompute_launch_started"]
  <2> SUFFICES ASSUME x.type = "precompute_completed", Kind[x.exp] \in Controlled
               PROVE  n >= 1 /\ rows[n] = [exp |-> x.exp, type |-> "precompute_launch_started"]
    OBVIOUS
  <2>1. Latest(x.exp) = "precompute_launch_started"
    BY <1>1 DEF Admitted, Follows, Controlled
  <2>2. Tip(x.exp, "precompute_launch_started")
    BY <1>1, <2>1 DEF Admitted, Stranded
  <2> QED  BY <1>1, <1>2, <1>n, <2>2 DEF Tip
<1>6. Placed(n + 1)'
  BY <1>1, <1>2, <1>3, <1>4, <1>5 DEF Placed, Admitted
<1>7. ASSUME NEW i \in 1 .. n PROVE Placed(i)'
  <2>1. Placed(i)  BY <1>n DEF RowsPlaced
  <2>2. i > 1 => i - 1 \in 1 .. n  BY <1>2
  <2>3. rows'[i] = rows[i] /\ (i > 1 => rows'[i - 1] = rows[i - 1])  BY <1>3, <2>2
  <2> QED  BY <2>1, <2>3 DEF Placed
<1> QED  BY <1>2, <1>6, <1>7 DEF RowsPlaced

\* Every step keeps the rows in place.
LEMMA RowsPlacedHolds == ASSUME LedgerAssumption PROVE Spec => []RowsPlaced
<1>1. Init => RowsPlaced  BY DEF Init, RowsPlaced
<1>2. LedgerInv /\ RowsPlaced /\ [Next]_vars => RowsPlaced'
  <2> SUFFICES ASSUME LedgerInv, RowsPlaced, [Next]_vars PROVE RowsPlaced'  OBVIOUS
  <2>1. CASE rows' = rows
    BY <2>1 DEF RowsPlaced, Placed
  <2>2. ASSUME NEW p \in Procs, Appends(p) PROVE RowsPlaced'
    BY <2>2, PlacedAppend
  <2> QED  BY <2>1, <2>2, StepForms DEF LedgerInv, Quiet, Propose, fileVars
<1> QED  BY <1>1, <1>2, LedgerInvHolds, PTL DEF Spec

\* The row of the latest event.
LEMMA LatestRow ==
  ASSUME TypeOK, NEW e \in Experiments, Latest(e) # "none"
  PROVE  \E i \in 1 .. Len(rows) : rows[i] = [exp |-> e, type |-> Latest(e)]
<1>1. RowsOf(e) # {} /\ RowsOf(e) \in SUBSET (1 .. Len(rows))  BY DEF Latest, RowsOf
<1>2. Len(rows) \in Nat  BY DEF TypeOK
<1>3. LastOf(RowsOf(e)) \in RowsOf(e)  BY <1>1, <1>2, LastOfProperties
<1>4. LastOf(RowsOf(e)) \in 1 .. Len(rows) /\ rows[LastOf(RowsOf(e))].exp = e
  BY <1>3 DEF RowsOf
<1>5. rows[LastOf(RowsOf(e))] \in Row  BY <1>4 DEF TypeOK
<1> QED  BY <1>1, <1>4, <1>5 DEF Latest, Row

\* A controlled experiment with a result has its registration, its launch and the
\* result as three rows in a row.
LEMMA ResultIsChained ==
  ASSUME TypeOK, RowsPlaced, NEW e \in Experiments,
         Kind[e] \in Controlled, Latest(e) = "precompute_completed"
  PROVE  LaunchChain(e)
<1>1. PICK i \in 1 .. Len(rows) : rows[i] = [exp |-> e, type |-> "precompute_completed"]
  BY LatestRow
<1>2. Len(rows) \in Nat  BY DEF TypeOK
<1>3. i > 1 /\ rows[i - 1] = [exp |-> e, type |-> "precompute_launch_started"]
  <2>1. Placed(i) /\ rows[i].type = "precompute_completed" /\ rows[i].exp = e
    BY <1>1 DEF RowsPlaced
  <2> QED  BY <2>1 DEF Placed
<1>4. i - 1 \in 1 .. Len(rows)  BY <1>2, <1>3
<1>5. i - 1 > 1 /\ rows[i - 1 - 1] = [exp |-> e, type |-> "registered"]
  <2>1. /\ Placed(i - 1)
        /\ rows[i - 1].type = "precompute_launch_started" /\ rows[i - 1].exp = e
    BY <1>3, <1>4 DEF RowsPlaced
  <2> QED  BY <2>1 DEF Placed
<1>6. /\ i - 2 \in 1 .. Len(rows) - 2
      /\ (i - 2) + 1 = i - 1 /\ (i - 2) + 2 = i /\ i - 2 = i - 1 - 1
  BY <1>2, <1>5
<1>7. /\ rows[i - 2] = [exp |-> e, type |-> "registered"]
      /\ rows[(i - 2) + 1] = [exp |-> e, type |-> "precompute_launch_started"]
      /\ rows[(i - 2) + 2] = [exp |-> e, type |-> "precompute_completed"]
  BY <1>1, <1>3, <1>5, <1>6
<1> QED  BY <1>6, <1>7 DEF LaunchChain

\* No open experiment is without an operation that moves it on, whatever rows the
\* others appended, but for the tip of the ledger lost to somebody and for the
\* generic append while a controlled experiment is open
\* (append_experiment_event 2034-2053, _validated_precomputed_state, 3001-3201).
THEOREM OpenMoves == Spec => []OpenCanMoveOn
<1>1. LedgerInv /\ RowsPlaced => OpenCanMoveOn
  <2> SUFFICES ASSUME LedgerInv, RowsPlaced, NEW e \in Experiments, Open(e)
               PROVE  \/ IsRegistered(e) \/ IsPrecomputed(e) \/ CanEndLaunch(e)
                      \/ IsTipOf(e, "validation_started") \/ IsTipOf(e, "completed")
                      \/ ClosableByAppend(e) \/ Stranded(e)
                      \/ /\ Kind[e] \notin Controlled
                         /\ \E f \in Experiments : Kind[f] \in Controlled /\ Open(f)
    BY DEF OpenCanMoveOn
  <2>0. TypeOK /\ rows \in Seq(Row)  BY DEF LedgerInv, TypeOK
  <2>1. CASE Latest(e) = "registered"
    BY <2>1 DEF IsRegistered
  <2>2. CASE Latest(e) = "precompute_launch_started"
    BY <2>2 DEF LedgerInv, OnPath, CanEndLaunch, Stranded
  <2>3. CASE Latest(e) = "precompute_completed"
    BY <2>0, <2>3, ResultIsChained DEF IsPrecomputed
  <2>4. CASE Kind[e] \in Controlled /\ Latest(e) \in {"validation_started", "completed"}
    BY <2>4 DEF IsTipOf, Stranded
  <2>5. CASE Kind[e] \notin Controlled
             /\ Latest(e) \in {"validation_started", "completed", "reviewed"}
    <3>1. PICK t \in {"completed", "decision"} : Follows(Kind[e], Latest(e), t)
      BY <2>5 DEF Follows
    <3>2. t \in Types \ {"registered"}  BY DEF Types, Closed
    <3>3. CASE \A f \in Experiments : Kind[f] \in Controlled => ~Open(f)
      <4>1. \A f \in Experiments : Latest(f) # "precompute_launch_started"
        BY <3>3 DEF LedgerInv, OnPath, Open, Closed
      <4>2. CanAppend(e, t)  BY <2>5, <3>3, <4>1 DEF CanAppend
      <4> QED  BY <3>1, <3>2, <4>2 DEF ClosableByAppend
    <3> QED  BY <2>5, <3>3
  <2>6. CASE Kind[e] \in Controlled /\ Latest(e) = "reviewed"
    <3>1. PICK i \in 1 .. Len(rows) : rows[i] = [exp |-> e, type |-> "reviewed"]
      BY <2>0, <2>6, LatestRow
    <3>2. Placed(i) /\ rows[i].type = "reviewed" /\ rows[i].exp = e
      BY <3>1 DEF RowsPlaced
    <3> QED  BY <2>6, <3>2 DEF Placed
  <2>7. Latest(e) \in Types \cup {"none"} /\ Latest(e) \notin Closed \cup {"none"}
    BY <2>0, LatestTyped DEF Open
  <2> QED  BY <2>1, <2>2, <2>3, <2>4, <2>5, <2>6, <2>7 DEF Types
<1> QED  BY <1>1, LedgerInvHolds, RowsPlacedHolds, LedgerAssumption, PTL

-----------------------------------------------------------------------------
(* What a controlled launch sees of the ledger. *)

\* Which rows of the past an experiment has at each stage.
PastFits ==
  \A e \in Experiments : Kind[e] \in Controlled =>
    /\ Latest(e) \in {"none", "registered", "precompute_launch_started"} =>
         ~Had(e, "precompute_completed")
    /\ Latest(e) \in {"none", "registered"} => ~Had(e, "precompute_launch_started")
    /\ Latest(e) \in {"validation_started", "completed", "reviewed", "decision"} =>
         Had(e, "precompute_completed")

\* A row is had by its own experiment from then on.
LEMMA HadAppend ==
  ASSUME rows \in Seq(Row), NEW x \in Row, rows' = Append(rows, x),
         NEW e \in Experiments, NEW t
  PROVE  Had(e, t)' <=> Had(e, t) \/ (x.exp = e /\ x.type = t)
<1>n. PICK n : n = Len(rows)  OBVIOUS
<1>1. n \in Nat /\ Len(rows') = n + 1 /\ rows'[n + 1] = x  BY <1>n
<1>2. \A i \in 1 .. n : rows'[i] = rows[i]  BY <1>n
<1>3. Had(e, t)' <=> \E i \in 1 .. n + 1 : rows'[i].exp = e /\ rows'[i].type = t
  BY <1>1 DEF Had, RowsOf
<1>4. Had(e, t) <=> \E i \in 1 .. n : rows[i].exp = e /\ rows[i].type = t
  BY <1>n DEF Had, RowsOf
<1>5. \A i \in 1 .. n + 1 : i \in 1 .. n \/ i = n + 1  BY <1>1
<1>6. \A i \in 1 .. n : i \in 1 .. n + 1  BY <1>1
<1>7. n + 1 \in 1 .. n + 1  BY <1>1
<1>8. Had(e, t)' => Had(e, t) \/ (x.exp = e /\ x.type = t)
  BY <1>1, <1>2, <1>3, <1>4, <1>5
<1>9. Had(e, t) => Had(e, t)'  BY <1>2, <1>3, <1>4, <1>6
<1>10. x.exp = e /\ x.type = t => Had(e, t)'  BY <1>1, <1>3, <1>7
<1> QED  BY <1>8, <1>9, <1>10

\* An experiment has its latest event.
LEMMA LatestIsHad ==
  ASSUME TypeOK, NEW e \in Experiments, Latest(e) # "none"
  PROVE  Had(e, Latest(e))
<1>1. PICK i \in 1 .. Len(rows) : rows[i] = [exp |-> e, type |-> Latest(e)]
  BY LatestRow
<1>2. rows[i].exp = e /\ rows[i].type = Latest(e)  BY <1>1
<1> QED  BY <1>2 DEF Had, RowsOf

\* Who has no latest event has no rows.
LEMMA NoneHad ==
  ASSUME TypeOK, NEW e \in Experiments, Latest(e) = "none", NEW t
  PROVE  ~Had(e, t)
<1>1. ASSUME RowsOf(e) # {} PROVE FALSE
  <2>1. RowsOf(e) \in SUBSET (1 .. Len(rows)) /\ Len(rows) \in Nat
    BY DEF RowsOf, TypeOK
  <2>2. LastOf(RowsOf(e)) \in 1 .. Len(rows)  BY <1>1, <2>1, LastOfProperties
  <2>3. rows[LastOf(RowsOf(e))] \in Row  BY <2>2 DEF TypeOK
  <2>4. rows[LastOf(RowsOf(e))].type \in Types  BY <2>3 DEF Row
  <2> QED  BY <1>1, <2>4 DEF Latest, Types, Closed
<1> QED  BY <1>1 DEF Had

\* What the proposed row of a controlled experiment may be, and what it has at that
\* stage.
LEMMA ControlledDraft ==
  ASSUME LedgerInv, NEW p \in Procs, Appends(p),
         NEW x, x = draft[p], Kind[x.exp] \in Controlled
  PROVE  /\ x \in Row /\ x.exp \in Experiments
         /\ \/ Latest(x.exp) = "none" /\ x.type = "registered"
            \/ Latest(x.exp) = "registered"
                 /\ x.type \in {"failed", "aborted", "precompute_launch_started"}
            \/ Latest(x.exp) = "precompute_launch_started"
                 /\ x.type \in {"precompute_completed", "failed", "aborted"}
            \/ Latest(x.exp) = "precompute_completed"
                 /\ x.type \in {"validation_started", "failed", "aborted"}
            \/ Latest(x.exp) = "validation_started"
                 /\ x.type \in {"completed", "failed", "aborted"}
            \/ Latest(x.exp) = "completed" /\ x.type \in {"reviewed", "decision"}
            \/ Latest(x.exp) = "reviewed" /\ x.type = "decision"
<1>1. x \in Row /\ Follows(Kind[x.exp], Latest(x.exp), x.type)
  BY DEF LedgerInv, DraftsAdmitted, Admitted, Appends
<1> QED  BY <1>1 DEF Row, Follows, Controlled

\* The appended row keeps the past of every controlled experiment.
LEMMA PastFitsAppend ==
  ASSUME LedgerInv, PastFits, NEW p \in Procs, Appends(p)
  PROVE  PastFits'
<1>0. PICK x : x = draft[p]  OBVIOUS
<1>1. x \in Row /\ rows' = Append(rows, x) /\ rows \in Seq(Row)
  BY <1>0 DEF LedgerInv, DraftsAdmitted, Appends, TypeOK
<1>2. \A e \in Experiments : Latest(e)' = IF e = x.exp THEN x.type ELSE Latest(e)
  BY <1>1, LatestAppend
<1>3. \A e \in Experiments : \A t : Had(e, t)' <=> Had(e, t) \/ (x.exp = e /\ x.type = t)
  BY <1>1, HadAppend
<1> SUFFICES ASSUME NEW e \in Experiments, Kind[e] \in Controlled
             PROVE  /\ Latest(e)' \in {"none", "registered", "precompute_launch_started"} =>
                         ~Had(e, "precompute_completed")'
                    /\ Latest(e)' \in {"none", "registered"} =>
                         ~Had(e, "precompute_launch_started")'
                    /\ Latest(e)' \in {"validation_started", "completed", "reviewed", "decision"} =>
                         Had(e, "precompute_completed")'
  BY DEF PastFits
<1>4. CASE e # x.exp
  BY <1>2, <1>3, <1>4 DEF PastFits
<1>5. CASE e = x.exp
  <2>1. Latest(e) = "precompute_completed" => Had(e, "precompute_completed")
    BY LatestIsHad DEF LedgerInv
  <2> QED  BY <1>0, <1>2, <1>3, <1>5, <2>1, ControlledDraft DEF PastFits
<1> QED  BY <1>4, <1>5

LEMMA PastFitsHolds == ASSUME LedgerAssumption PROVE Spec => []PastFits
<1>1. Init => PastFits  BY DEF Init, PastFits, Latest, Had, RowsOf
<1>2. LedgerInv /\ PastFits /\ [Next]_vars => PastFits'
  <2> SUFFICES ASSUME LedgerInv, PastFits, [Next]_vars PROVE PastFits'  OBVIOUS
  <2>1. CASE rows' = rows
    <3>1. \A e, t : Had(e, t)' = Had(e, t)  BY <2>1 DEF Had, RowsOf
    <3> QED  BY <2>1, <3>1, SameRows DEF PastFits
  <2>2. ASSUME NEW p \in Procs, Appends(p) PROVE PastFits'
    BY <2>2, PastFitsAppend
  <2> QED  BY <2>1, <2>2, StepForms DEF LedgerInv, Quiet, Propose, fileVars
<1> QED  BY <1>1, <1>2, LedgerInvHolds, PTL DEF Spec

\* Somebody else's row takes the tip, and from an open launch only the quarantine
\* takes it.
LEMMA OthersTakeTip ==
  ASSUME LedgerAssumption, LedgerInv, LaunchInv, NEW p \in Procs, Appends(p),
         NEW e \in Experiments, Kind[e] \in Controlled, e # draft[p].exp
  PROVE  Launch(e)!OthersAppend \/ UNCHANGED <<OwnRow(e), OwnTip(e)>>
<1>0. PICK x : x = draft[p]  OBVIOUS
<1>1. x \in Row /\ Admitted(x) /\ rows' = Append(rows, x) /\ rows \in Seq(Row) /\ e # x.exp
  BY <1>0 DEF LedgerInv, DraftsAdmitted, Appends, TypeOK
<1>2. Latest(e)' = Latest(e)  BY <1>1, LatestAppend
<1>3. \A t : Had(e, t)' <=> Had(e, t)  BY <1>1, HadAppend
<1>4. OwnRow(e)' = OwnRow(e)  BY <1>2, <1>3 DEF OwnRow
<1>5. Len(rows') = Len(rows) + 1 /\ rows'[Len(rows')] = x  BY <1>1
<1>6. OwnTip(e)' <=> OwnRow(e) = "moved"  BY <1>1, <1>4, <1>5 DEF OwnTip
<1>7. OwnRow(e) = "launched" => Kind[e] = "v4"
  <2> SUFFICES ASSUME OwnRow(e) = "launched" PROVE Kind[e] = "v4"  OBVIOUS
  <2>1. Latest(e) = "precompute_launch_started"  BY DEF OwnRow
  <2>2. x.type # "registered" /\ Follows(Kind[x.exp], Latest(x.exp), x.type)
    BY <1>1, <2>1 DEF Admitted
  <2>3. Open(x.exp)  BY <2>2 DEF Follows, Open, Closed
  <2>4. x.exp \in Experiments  BY <1>1 DEF Row
  <2> QED  BY <1>1, <2>1, <2>3, <2>4 DEF LaunchInv
<1>8. CASE OwnTip(e) /\ OwnRow(e) # "moved"
  <2>1. OwnTip(e)' = FALSE  BY <1>6, <1>8 DEF OwnTip
  <2> QED  BY <1>4, <1>7, <1>8, <2>1 DEF Launch!OthersAppend
<1>9. CASE ~(OwnTip(e) /\ OwnRow(e) # "moved")
  <2>1. OwnTip(e)' = OwnTip(e)  BY <1>6, <1>9 DEF OwnTip
  <2> QED  BY <1>4, <2>1
<1> QED  BY <1>8, <1>9

\* Its own row, at the tip where the launch needs it.
LEMMA OwnRowMoves ==
  ASSUME LedgerInv, PastFits, NEW p \in Procs, Appends(p),
         NEW e \in Experiments, Kind[e] \in Controlled, e = draft[p].exp
  PROVE  Launch(e)!Next \/ UNCHANGED <<OwnRow(e), OwnTip(e)>>
<1>0. PICK x : x = draft[p]  OBVIOUS
<1>1. /\ x \in Row /\ Admitted(x) /\ rows' = Append(rows, x) /\ rows \in Seq(Row)
      /\ e = x.exp
  BY <1>0 DEF LedgerInv, DraftsAdmitted, Appends, TypeOK
<1>2. Latest(e)' = x.type  BY <1>1, LatestAppend
<1>3. \A t : Had(e, t)' <=> Had(e, t) \/ x.type = t  BY <1>1, HadAppend
<1>4. Len(rows') = Len(rows) + 1 /\ rows'[Len(rows')] = x /\ rows' # <<>>  BY <1>1
<1>5. OwnTip(e)' = TRUE  BY <1>1, <1>4 DEF OwnTip
<1>6. TypeOK  BY DEF LedgerInv
<1>7. \A t : Tip(e, t) => OwnTip(e)  BY DEF Tip, OwnTip
<1>8. CASE Latest(e) = "none"
  <2>1. OwnRow(e) = "none"  BY <1>6, <1>8, NoneHad DEF OwnRow
  <2>2. x.type = "registered"  BY <1>0, <1>1, <1>8, ControlledDraft
  <2>3. OwnRow(e)' = "registered"
    BY <1>2, <1>3, <1>6, <1>8, <2>2, NoneHad DEF OwnRow
  <2> QED  BY <1>5, <2>1, <2>3 DEF Launch!Next, Launch!Register
<1>9. CASE Latest(e) = "registered"
  <2>1. ~Had(e, "precompute_completed") /\ ~Had(e, "precompute_launch_started")
    BY <1>9 DEF PastFits
  <2>2. OwnRow(e) = "registered"  BY <1>9, <2>1 DEF OwnRow
  <2>3. CASE x.type = "precompute_launch_started"
    <3>1. OwnTip(e)  BY <1>1, <1>7, <2>3 DEF Admitted, CanLaunch
    <3>2. OwnRow(e)' = "launched"  BY <1>2, <1>3, <2>1, <2>3 DEF OwnRow
    <3>3. OwnTip(e) = TRUE  BY <3>1 DEF OwnTip
    <3> QED  BY <1>5, <2>2, <3>2, <3>3
             DEF Launch!Next, Launch!Launch, Launch!AppendRow
  <2>4. CASE x.type \in {"failed", "aborted"}
    <3>1. OwnRow(e)' = "withdrawn"  BY <1>2, <1>3, <2>1, <2>4 DEF OwnRow
    <3> QED  BY <1>5, <2>2, <3>1 DEF Launch!Next, Launch!OthersMove
  <2> QED  BY <1>0, <1>1, <1>9, <2>3, <2>4, ControlledDraft
<1>10. CASE Latest(e) = "precompute_launch_started"
  <2>1. ~Had(e, "precompute_completed") /\ Had(e, "precompute_launch_started")
    BY <1>6, <1>10, LatestIsHad DEF PastFits
  <2>2. OwnRow(e) = "launched"  BY <1>10, <2>1 DEF OwnRow
  <2>3. Tip(e, "precompute_launch_started")  BY <1>1, <1>10 DEF Admitted, Stranded
  <2>4. OwnTip(e) = TRUE  BY <1>7, <2>3 DEF OwnTip
  <2>5. x.type \in {"precompute_completed", "failed", "aborted"}
    BY <1>0, <1>1, <1>10, ControlledDraft
  <2>6. OwnRow(e)' \in {"completed", "failed"}
    BY <1>2, <1>3, <2>1, <2>5 DEF OwnRow
  <2> QED  BY <1>5, <2>2, <2>4, <2>6 DEF Launch!Next, Launch!End, Launch!AppendRow
<1>11. CASE Latest(e) = "precompute_completed"
  <2>1. Had(e, "precompute_completed")  BY <1>6, <1>11, LatestIsHad
  <2>2. OwnRow(e) = "completed"  BY <1>11, <2>1 DEF OwnRow
  <2>3. x.type \in {"validation_started", "failed", "aborted"}
    BY <1>0, <1>1, <1>11, ControlledDraft
  <2>4. OwnRow(e)' = "moved"  BY <1>2, <1>3, <2>1, <2>3 DEF OwnRow
  <2> QED  BY <1>5, <2>2, <2>4 DEF Launch!Next, Launch!OthersMove
<1>12. CASE Latest(e) \in {"validation_started", "completed", "reviewed"}
  <2>1. Had(e, "precompute_completed")  BY <1>12 DEF PastFits
  <2>2. OwnRow(e) = "moved"  BY <1>12, <2>1 DEF OwnRow
  <2>3. x.type # "precompute_completed"  BY <1>0, <1>1, <1>12, ControlledDraft
  <2>4. OwnRow(e)' = "moved"  BY <1>2, <1>3, <2>1, <2>3 DEF OwnRow
  <2>5. OwnTip(e) = TRUE  BY <2>2 DEF OwnTip
  <2> QED  BY <1>5, <2>2, <2>4, <2>5
<1> QED
  BY <1>0, <1>1, <1>8, <1>9, <1>10, <1>11, <1>12, ControlledDraft

\* However the users of the ledger compete and wherever they die, a controlled
\* launch sees of it what PrecomputeLaunch expects: the environment of that module
\* leaves out nothing that append_experiment_event, the claims, the failures and the
\* other launches can do (research_validation.py 2034-2053, 2283, 2358-2372, 2518).
THEOREM LaunchesSeeTheirLedger == Spec => SeenByLaunches
<1>1. ASSUME NEW e \in Experiments, Kind[e] \in Controlled
      PROVE  Spec => Launch(e)!Spec
  <2>1. Init => Launch(e)!Init
    BY DEF Init, Launch!Init, OwnRow, OwnTip, Had, Latest, RowsOf
  <2>2. LedgerInv /\ LaunchInv /\ PastFits /\ [Next]_vars =>
          [Launch(e)!Next]_<<OwnRow(e), OwnTip(e)>>
    <3> SUFFICES ASSUME LedgerInv, LaunchInv, PastFits, [Next]_vars
                 PROVE  Launch(e)!Next \/ UNCHANGED <<OwnRow(e), OwnTip(e)>>
      OBVIOUS
    <3>1. CASE rows' = rows
      BY <3>1 DEF OwnRow, OwnTip, Had, Latest, RowsOf
    <3>2. ASSUME NEW p \in Procs, Appends(p)
          PROVE  Launch(e)!Next \/ UNCHANGED <<OwnRow(e), OwnTip(e)>>
      <4>1. CASE e = draft[p].exp  BY <1>1, <3>2, <4>1, OwnRowMoves
      <4>2. CASE e # draft[p].exp
        BY <1>1, <3>2, <4>2, OthersTakeTip, LedgerAssumption DEF Launch!Next
      <4> QED  BY <4>1, <4>2
    <3> QED  BY <3>1, <3>2, StepForms DEF LedgerInv, Quiet, Propose, fileVars
  <2> QED
    BY <2>1, <2>2, LedgerInvHolds, LaunchInvHolds, PastFitsHolds, LedgerAssumption, PTL
       DEF Spec, Launch!Spec
<1> QED  BY <1>1 DEF SeenByLaunches
=============================================================================
