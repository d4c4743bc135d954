--------------------------- MODULE PublicationProofs ---------------------------
(***************************************************************************)
(* For any number of runs, exclusive or racing, with crashes and torn      *)
(* appends at every point: as long as the publication ledger validates it  *)
(* shows of a date a growing set of at most Cap symbols, once it does not  *)
(* it never does again, and what a reader sees is recorded, unless a torn  *)
(* line swallowed the record, and never more than the cap.  For runs that  *)
(* have not overlapped: only a torn append breaks the ledger, and what was *)
(* published is shown.                                                     *)
(***************************************************************************)
EXTENDS Publication, LogLemmas, FiniteSetTheorems

Lines == Row \cup Torn

\* A torn line is no row and no entry: it has none of their fields.
LEMMA TornApart == Row \cap Torn = {} /\ Entry \cap Torn = {}
<1>1. ASSUME NEW x \in Torn PROVE DOMAIN x = {"by"}
  BY <1>1 DEF Torn
<1>2. ASSUME NEW x \in Row PROVE "id" \in DOMAIN x
  BY <1>2 DEF Row
<1>3. ASSUME NEW x \in Entry PROVE "id" \in DOMAIN x
  BY <1>3 DEF Entry
<1>4. QED
  BY <1>1, <1>2, <1>3

LEMMA WritersTyped ==
  ASSUME NEW x \in Row \cup Entry \cup Torn
  PROVE  Writers(x) \in SUBSET (Runs \cup {NoRun})
  BY DEF Writers, Torn, Row, Entry

\* What one append of x to log leaves: a line of its own, or one torn line with the
\* last, which had been cut.
Left(S, isCut, log, x, left) ==
  /\ left \in Seq(S \cup Torn) /\ left # <<>>
  /\ ~isCut => left = Append(log, x)
  /\ isCut => log # <<>> /\ \E y \in Torn :
       /\ left = [log EXCEPT ![Len(log)] = y]
       /\ y.by = Writers(log[Len(log)]) \cup Writers(x)

LEMMA ExtendedLeaves ==
  ASSUME NEW S, \A y \in S \cup Torn : Writers(y) \in SUBSET (Runs \cup {NoRun}),
         NEW log \in Seq(S \cup Torn), NEW file, file \in cut => log # <<>>,
         NEW x \in S \cup Torn
  PROVE  Left(S, file \in cut, log, x, Extended(file, log, x))
<1>1. CASE file \notin cut
  BY <1>1 DEF Extended, Written, Left
<1>2. CASE file \in cut
  <2> DEFINE y == [by |-> Writers(log[Len(log)]) \cup Writers(x)]
  <2>1. Len(log) \in 1 .. Len(log) /\ log[Len(log)] \in S \cup Torn
    BY <1>2
  <2>2. y \in Torn /\ y.by = Writers(log[Len(log)]) \cup Writers(x)
    BY <2>1 DEF Torn
  <2>3. Extended(file, log, x) = [log EXCEPT ![Len(log)] = y]
    BY <1>2 DEF Extended, Written
  <2>4. [log EXCEPT ![Len(log)] = y] \in Seq(S \cup Torn) /\ [log EXCEPT ![Len(log)] = y] # <<>>
    <3> HIDE DEF y
    <3>1. QED
      BY <1>2, <2>2
  <2> HIDE DEF y
  <2>5. QED
    BY <1>2, <2>2, <2>3, <2>4 DEF Left
<1>3. QED
  BY <1>1, <1>2

LEMMA LedgerLeft ==
  ASSUME TypeOK, NEW x \in Row \cup Torn
  PROVE  Left(Row, "ledger" \in cut, ledger, x, Extended("ledger", ledger, x))
<1>1. ledger \in Seq(Row \cup Torn) /\ ("ledger" \in cut => ledger # <<>>)
  BY DEF TypeOK
<1>2. \A y \in Row \cup Torn : Writers(y) \in SUBSET (Runs \cup {NoRun})
  BY WritersTyped
<1>3. QED
  BY <1>1, <1>2, ExtendedLeaves

LEMMA HistoryLeft ==
  ASSUME TypeOK, NEW x \in Entry \cup Torn
  PROVE  Left(Entry, "history" \in cut, history, x, Extended("history", history, x))
<1>1. history \in Seq(Entry \cup Torn) /\ ("history" \in cut => history # <<>>)
  BY DEF TypeOK
<1>2. \A y \in Entry \cup Torn : Writers(y) \in SUBSET (Runs \cup {NoRun})
  BY WritersTyped
<1>3. QED
  BY <1>1, <1>2, ExtendedLeaves

-----------------------------------------------------------------------------
(* Typing. *)

\* Reading what a date already shows returns symbols.
LEMMA PublishedTyped ==
  ASSUME TypeOK, NEW d \in Dates, Readable(d)
  PROVE  PublishedOn(d) \subseteq Symbols
<1>1. CASE RowsOn(ledger, d) # {}
  <2>1. Len(ledger) \in Nat /\ RowsOn(ledger, d) \in SUBSET (1 .. Len(ledger))
    BY DEF TypeOK, RowsOn
  <2>2. LastOf(RowsOn(ledger, d)) \in 1 .. Len(ledger)
    BY <1>1, <2>1, LastOfProperties
  <2>3. \A i \in 1 .. Len(ledger) : ledger[i] \in Row
    BY DEF TypeOK, Readable, Valid, RowOK
  <2>4. ledger[LastOf(RowsOn(ledger, d))] \in Row  BY <2>2, <2>3
  <2> QED  BY <1>1, <2>4 DEF PublishedOn, StateOn, Row
<1>2. CASE RowsOn(ledger, d) = {}
  <2>1. \A i \in 1 .. Len(history) : history[i] \in Entry
    BY <1>2 DEF TypeOK, Readable
  <2>2. \A i \in 1 .. Len(history) : history[i].items \subseteq Symbols
    BY <2>1 DEF Entry
  <2> QED  BY <1>2, <2>2 DEF PublishedOn
<1> QED  BY <1>1, <1>2

\* A capped selection is made of selected symbols.
LEMMA CappedTyped ==
  ASSUME NEW selected \in SUBSET Symbols, NEW prior, NEW items \in Capped(selected, prior)
  PROVE  items \subseteq Symbols
  BY DEF Capped

\* The locals of a run before it begins.
LEMMA NoJobTyped == ASSUME PublicationAssumption PROVE NoJob \in Job
<1>1. (CHOOSE d \in Dates : TRUE) \in Dates  BY DEF PublicationAssumption
<1> QED  BY <1>1 DEF NoJob, Job

LEMMA TypeInit == ASSUME PublicationAssumption, Init PROVE TypeOK
<1>1. NoJob \in Job  BY NoJobTyped
<1>2. ledger \in Seq(Lines)  BY DEF Init, Lines
<1>3. history \in Seq(Entry \cup Torn)
  <2>1. CASE history = <<>>  BY <2>1
  <2>2. ASSUME NEW d \in Dates, NEW x \in Symbols,
               history = <<[id |-> NoRun, target |-> d, items |-> {x}]>>
        PROVE  history \in Seq(Entry \cup Torn)
    <3>1. [id |-> NoRun, target |-> d, items |-> {x}] \in Entry  BY DEF Entry
    <3> QED  BY <2>2, <3>1
  <2> QED  BY <2>1, <2>2 DEF Init
<1>4. NoJob.target \in Dates  BY <1>1 DEF Job
<1>5. latest \in Snapshot  BY <1>4 DEF Init, Snapshot
<1>6. overlapped \in BOOLEAN  BY DEF Init
<1>7. stage \in [Runs -> Stages] /\ job \in [Runs -> Job] /\ pool \in Pools
  BY <1>1 DEF Init, Stages
<1>8. cut = {}  BY DEF Init
<1> QED  BY <1>2, <1>3, <1>5, <1>6, <1>7, <1>8 DEF TypeOK, Lines

\* Every step keeps the types.
LEMMA TypeStep ==
  ASSUME PublicationAssumption, TypeOK, [Next]_vars PROVE TypeOK'
<1>1. CASE UNCHANGED vars  BY <1>1 DEF vars, TypeOK
<1>2. CASE ChangePool  BY <1>2 DEF ChangePool, TypeOK
<1>3. ASSUME NEW r \in Runs, RunStep(r) PROVE TypeOK'
  <2>0. NoJob \in Job  BY NoJobTyped
  <2>00. job[r] \in Job /\ job[r].target \in Dates  BY DEF TypeOK, Job
  <2>01. ASSUME NEW status \in {"blocked", "failed"}
         PROVE  Blank(status, r) \in Snapshot
    BY <2>00 DEF Blank, Snapshot, TypeOK
  <2>02. ASSUME NEW how \in {"done", "crashed"}, End(r, how)
         PROVE  stage' \in [Runs -> Stages] /\ job' \in [Runs -> Job]
    BY <2>0, <2>02 DEF End, TypeOK, Stages
  <2>1. ASSUME NEW d \in Dates, Begin(r, d) PROVE TypeOK'
    <3>1. stage' \in [Runs -> Stages]  BY <2>1 DEF Begin, TypeOK, Stages
    <3>2. job' \in [Runs -> Job]
      <4>1. [job[r] EXCEPT !.target = d, !.pool = pool] \in Job
        BY <2>00 DEF Job, TypeOK
      <4>2. job' = [job EXCEPT ![r] = [job[r] EXCEPT !.target = d, !.pool = pool]]
        BY <2>1 DEF Begin, TypeOK
      <4> QED  BY <4>1, <4>2 DEF TypeOK
    <3>3. latest' \in Snapshot  BY <2>1 DEF Begin, TypeOK, Snapshot
    <3> QED  BY <2>1, <3>1, <3>2, <3>3 DEF Begin, TypeOK
  <2>2. CASE BlockAtGate(r)
    BY <2>2, <2>01 DEF BlockAtGate, TypeOK, Stages
  <2>3. CASE Revalidate(r)
    <3>1. job' \in [Runs -> Job]
      <4> DEFINE prior == PublishedOn(job[r].target)
      <4>1. prior \subseteq Symbols
        BY <2>3, <2>00, PublishedTyped DEF Revalidate
      <4>0. PICK selected \in SUBSET Allowed[job[r].pool], live \in BOOLEAN :
              \E items \in IF live THEN Capped(selected, prior) ELSE {{}} :
                job' = [job EXCEPT ![r].prior = prior, ![r].items = items,
                          ![r].live = live, ![r].pool = pool]
        BY <2>3 DEF Revalidate
      <4>2. PICK items \in IF live THEN Capped(selected, prior) ELSE {{}} :
              job' = [job EXCEPT ![r].prior = prior, ![r].items = items,
                        ![r].live = live, ![r].pool = pool]
        BY <4>0
      <4>3. selected \in SUBSET Symbols
        BY <2>3, <2>00 DEF Revalidate, PublicationAssumption, Job
      <4>4. items \subseteq Symbols  BY <4>2, <4>3, CappedTyped
      <4>5. [job[r] EXCEPT !.prior = prior, !.items = items,
                            !.live = live, !.pool = pool] \in Job
        BY <4>1, <4>4, <2>00 DEF Job, TypeOK
      <4>6. job' = [job EXCEPT ![r] =
              [job[r] EXCEPT !.prior = prior, !.items = items,
                             !.live = live, !.pool = pool]]
        BY <4>2 DEF TypeOK
      <4> QED  BY <4>5, <4>6 DEF TypeOK
    <3>2. stage' \in [Runs -> Stages]  BY <2>3 DEF Revalidate, TypeOK, Stages
    <3> QED  BY <2>3, <3>1, <3>2 DEF Revalidate, TypeOK
  <2>4. CASE CommitNothing(r)  BY <2>4 DEF CommitNothing, TypeOK, Stages
  <2>5. CASE BuildRow(r)
    <3> DEFINE seq == Len(ledger) + 1
               prev == IF ledger = <<>> THEN NoRun ELSE ledger[Len(ledger)].id
               seeded == RowsOn(ledger, job[r].target) = {} /\ job[r].prior # {}
    <3>1. seq \in Nat  BY DEF TypeOK
    <3>2. prev \in Runs \cup {NoRun}
      <4>1. CASE ledger # <<>>
        <5>1. Len(ledger) \in 1 .. Len(ledger)  BY <4>1 DEF TypeOK
        <5>2. Valid(ledger)  BY <2>5 DEF BuildRow, Readable
        <5>3. ledger[Len(ledger)] \notin Torn  BY <5>1, <5>2 DEF Valid, RowOK
        <5>4. ledger[Len(ledger)] \in Row  BY <5>1, <5>3 DEF TypeOK
        <5> QED  BY <5>4 DEF Row
      <4> QED  BY <4>1
    <3>3. [job[r] EXCEPT !.seq = seq, !.prev = prev, !.seeded = seeded] \in Job
      BY <3>1, <3>2, <2>00 DEF Job
    <3>4. job' = [job EXCEPT ![r] =
                   [job[r] EXCEPT !.seq = seq, !.prev = prev, !.seeded = seeded]]
      BY <2>5 DEF BuildRow, TypeOK
    <3>5. job' \in [Runs -> Job]
      <4> HIDE DEF seq, prev, seeded
      <4> QED  BY <3>3, <3>4 DEF TypeOK
    <3> QED  BY <2>5, <3>5 DEF BuildRow, TypeOK, Stages
  <2>03. RowOf(r) \in Row /\ EntryOf(r) \in Entry /\ [by |-> {r}] \in Torn
    BY <2>00 DEF RowOf, Row, EntryOf, Entry, Torn, Job
  <2>04. ASSUME NEW x \in {RowOf(r), [by |-> {r}]}, ledger' = Extended("ledger", ledger, x)
         PROVE  ledger' \in Seq(Row \cup Torn) /\ ledger' # <<>>
    <3>1. x \in Row \cup Torn  BY <2>03
    <3>3. /\ Extended("ledger", ledger, x) \in Seq(Row \cup Torn)
          /\ Extended("ledger", ledger, x) # <<>>
      BY <3>1, LedgerLeft DEF Left
    <3> QED  BY <2>04, <3>3
  <2>05. ASSUME NEW x \in {EntryOf(r), [by |-> {r}]}, history' = Extended("history", history, x)
         PROVE  history' \in Seq(Entry \cup Torn) /\ history' # <<>>
    <3>1. x \in Entry \cup Torn  BY <2>03
    <3>3. /\ Extended("history", history, x) \in Seq(Entry \cup Torn)
          /\ Extended("history", history, x) # <<>>
      BY <3>1, HistoryLeft DEF Left
    <3> QED  BY <2>05, <3>3
  <2>6. CASE AppendLedger(r)
    <3>1. ledger' \in Seq(Row \cup Torn) /\ ledger' # <<>>
      BY <2>6, <2>04 DEF AppendLedger
    <3> QED  BY <2>6, <3>1 DEF AppendLedger, TypeOK, Stages
  <2>7. CASE AppendHistory(r)
    <3>1. history' \in Seq(Entry \cup Torn) /\ history' # <<>>
      BY <2>7, <2>05 DEF AppendHistory
    <3> QED  BY <2>7, <3>1 DEF AppendHistory, TypeOK, Stages
  <2>8. CASE WriteLatest(r)
    <3>1. latest' \in Snapshot
      BY <2>8, <2>00 DEF WriteLatest, Snapshot, Job
    <3> QED  BY <2>8, <3>1 DEF WriteLatest, TypeOK, Stages
  <2>9. CASE AppendAudit(r)
    BY <2>9, <2>02 DEF AppendAudit, TypeOK
  <2>10. CASE Fail(r)
    BY <2>10, <2>01, <2>02 DEF Fail, TypeOK
  <2>11. CASE Crash(r)
    BY <2>11, <2>02 DEF Crash, TypeOK
  <2>06. ASSUME Tear(r)
         PROVE  /\ ledger' \in Seq(Row \cup Torn) /\ history' \in Seq(Entry \cup Torn)
                /\ cut' \subseteq {"ledger", "history"}
                /\ "ledger" \in cut' => ledger' # <<>>
                /\ "history" \in cut' => history' # <<>>
    BY <2>06, <2>04, <2>05 DEF Tear, TypeOK
  <2>12. CASE TearAppend(r)
    BY <2>12, <2>02, <2>06 DEF TearAppend, TypeOK
  <2>13. CASE AppendRaises(r)
    BY <2>13, <2>01, <2>02, <2>06 DEF AppendRaises, TypeOK
  <2> QED  BY <1>3, <2>1, <2>2, <2>3, <2>4, <2>5, <2>6, <2>7, <2>8, <2>9,
              <2>10, <2>11, <2>12, <2>13 DEF RunStep
<1> QED  BY <1>1, <1>2, <1>3 DEF Next

\* The state of the three files and of every run is well formed.
THEOREM TypeCorrect == Spec => []TypeOK
<1>1. Init => TypeOK  BY TypeInit, PublicationAssumption
<1>2. TypeOK /\ [Next]_vars => TypeOK'  BY TypeStep, PublicationAssumption
<1> QED  BY <1>1, <1>2, PTL DEF Spec

-----------------------------------------------------------------------------
(* Appending a line. *)

\* The verdict on a row depends on the rows up to it.
LEMMA RowOKStable ==
  ASSUME NEW l \in Seq(Lines), NEW i \in 1 .. Len(l),
         NEW m, \A k \in 1 .. i : m[k] = l[k]
  PROVE  RowOK(m, i) = RowOK(l, i)
<1>1. i \in Nat /\ i \in 1 .. i /\ 1 .. i - 1 \subseteq 1 .. i  OBVIOUS
<1>2. SameTargetBefore(m, i) = SameTargetBefore(l, i)
  BY <1>1 DEF SameTargetBefore
<1>3. SameTargetBefore(l, i) # {} =>
        m[LastOf(SameTargetBefore(l, i))] = l[LastOf(SameTargetBefore(l, i))]
  <2> SUFFICES ASSUME SameTargetBefore(l, i) # {}
               PROVE  LastOf(SameTargetBefore(l, i)) \in 1 .. i
    OBVIOUS
  <2>1. SameTargetBefore(l, i) \in SUBSET (1 .. i)
    BY <1>1 DEF SameTargetBefore
  <2> QED  BY <1>1, <2>1, LastOfProperties
<1>4. m[i] = l[i] /\ (i # 1 => m[i - 1] = l[i - 1])  BY <1>1
<1>5. PriorMatches(m, i) = PriorMatches(l, i)
  BY <1>2, <1>3, <1>4 DEF PriorMatches
<1> QED  BY <1>4, <1>5 DEF RowOK

\* A ledger validates row by row.
LEMMA ValidAppend ==
  ASSUME NEW l \in Seq(Lines), NEW x \in Lines
  PROVE  Valid(Append(l, x)) <=> Valid(l) /\ RowOK(Append(l, x), Len(l) + 1)
<1> DEFINE m == Append(l, x)
<1>1. Len(m) = Len(l) + 1 /\ Len(l) \in Nat  OBVIOUS
<1>2. \A i \in 1 .. Len(l) : RowOK(m, i) = RowOK(l, i)
  <2> TAKE i \in 1 .. Len(l)
  <2>1. \A k \in 1 .. i : m[k] = l[k]  OBVIOUS
  <2> HIDE DEF m
  <2> QED  BY <2>1, RowOKStable
<1> HIDE DEF m
<1>3. \A i : i \in 1 .. Len(m) <=> i \in 1 .. Len(l) \/ i = Len(l) + 1
  BY <1>1
<1>4. Valid(m) <=> Valid(l) /\ RowOK(m, Len(l) + 1)
  BY <1>2, <1>3 DEF Valid
<1> QED  BY <1>4 DEF m

\* The ledger grows by a line, or its last line is torn, or it stays.
LEMMA LedgerStep ==
  ASSUME PublicationAssumption, TypeOK, [Next]_vars
  PROVE  \/ ledger' = ledger
         \/ \E x \in Lines : ledger' = Append(ledger, x)
         \/ ledger # <<>> /\ \E y \in Torn : ledger' = [ledger EXCEPT ![Len(ledger)] = y]
<1>1. ASSUME NEW x \in Lines, ledger' = Extended("ledger", ledger, x)
      PROVE  \/ \E y \in Lines : ledger' = Append(ledger, y)
             \/ ledger # <<>> /\ \E y \in Torn : ledger' = [ledger EXCEPT ![Len(ledger)] = y]
  BY <1>1, LedgerLeft DEF Left, Lines
<1>2. ASSUME NEW r \in Runs PROVE RowOf(r) \in Lines /\ [by |-> {r}] \in Lines
  BY DEF TypeOK, RowOf, Row, Torn, Job, Lines
<1>3. ASSUME NEW r \in Runs, Tear(r)
      PROVE  ledger' = ledger \/ \E x \in Lines : ledger' = Extended("ledger", ledger, x)
  BY <1>2, <1>3 DEF Tear
<1>4. ASSUME NEW r \in Runs, RunStep(r)
      PROVE  ledger' = ledger \/ \E x \in Lines : ledger' = Extended("ledger", ledger, x)
  BY <1>2, <1>3, <1>4
  DEF RunStep, Begin, BlockAtGate, Revalidate, CommitNothing, BuildRow, AppendLedger,
      AppendHistory, WriteLatest, AppendAudit, Fail, Crash, TearAppend, AppendRaises
<1>5. CASE ChangePool \/ UNCHANGED vars
  BY <1>5 DEF ChangePool, vars
<1> QED  BY <1>1, <1>4, <1>5 DEF Next

\* A ledger that a reader rejects stays rejected: what could be added or torn is
\* behind the row it rejects, or torn itself.
LEMMA StaysInvalid ==
  ASSUME PublicationAssumption, TypeOK, [Next]_vars
  PROVE  /\ Valid(ledger)' => Valid(ledger)
         /\ Valid(ledger)' => ledger' = ledger \/ \E x \in Lines :
              ledger' = Append(ledger, x) /\ RowOK(ledger', Len(ledger) + 1)
<1>0. ledger \in Seq(Lines)  BY DEF TypeOK, Lines
<1>1. CASE ledger' = ledger  BY <1>1
<1>2. ASSUME NEW x \in Lines, ledger' = Append(ledger, x)
      PROVE  Valid(ledger)' <=> Valid(ledger) /\ RowOK(ledger', Len(ledger) + 1)
  <2>1. Valid(Append(ledger, x)) <=> Valid(ledger) /\ RowOK(Append(ledger, x), Len(ledger) + 1)
    BY <1>0, ValidAppend
  <2> QED  BY <1>2, <2>1
<1>3. ASSUME ledger # <<>>, NEW y \in Torn, ledger' = [ledger EXCEPT ![Len(ledger)] = y]
      PROVE  ~Valid(ledger)'
  <2>1. Len(ledger) \in 1 .. Len(ledger) /\ Len(ledger') = Len(ledger)
        /\ ledger'[Len(ledger)] = y
    BY <1>0, <1>3
  <2>2. ~RowOK(ledger', Len(ledger))  BY <2>1 DEF RowOK
  <2> QED  BY <2>1, <2>2 DEF Valid
<1> QED  BY <1>1, <1>2, <1>3, LedgerStep

-----------------------------------------------------------------------------
(* The refinement. *)

\* Two functions that differ at one argument.
LEMMA OneChange ==
  ASSUME NEW D, NEW f, NEW g, f = [e \in D |-> f[e]], g = [e \in D |-> g[e]],
         NEW d \in D, NEW v, g[d] = v, \A e \in D \ {d} : g[e] = f[e]
  PROVE  g = [f EXCEPT ![d] = v]
<1>1. [f EXCEPT ![d] = v] = [e \in D |-> IF e = d THEN v ELSE f[e]]
  OBVIOUS
<1>2. \A e \in D : g[e] = IF e = d THEN v ELSE f[e]
  OBVIOUS
<1> QED  BY <1>1, <1>2

\* A row that a reader accepts publishes: its date gets the prior symbols and its own.
LEMMA AcceptedPublishes ==
  ASSUME TypeOK, NEW x \in Lines, ledger' = Append(ledger, x),
         Valid(ledger), Valid(ledger)', RowOK(ledger', Len(ledger) + 1)
  PROVE  \E d \in Dates : \E S \in SUBSET Symbols : Promise!Publish(d, S)
<1> DEFINE n == Len(ledger) + 1
           d == x.target
           rows == RowsOn(ledger, d)
<1>1. /\ ledger \in Seq(Lines) /\ Len(ledger) \in Nat /\ Len(ledger') = n
      /\ ledger'[n] = x
      /\ \A k \in 1 .. Len(ledger) : ledger'[k] = ledger[k]
  BY DEF TypeOK, Lines
<1>2. x \in Row  BY <1>1 DEF RowOK, Lines
<1>3. d \in Dates /\ x.after \in SUBSET Symbols  BY <1>2 DEF Row
<1>4. rows = SameTargetBefore(ledger', n)
  BY <1>1 DEF RowsOn, SameTargetBefore
<1>5. rows \in SUBSET (1 .. Len(ledger))  BY <1>1 DEF RowsOn
<1>6. RowsOn(ledger', d) = rows \cup {n}
  BY <1>1, <1>5 DEF RowsOn
<1>7. \A e \in Dates \ {d} : RowsOn(ledger', e) = RowsOn(ledger, e)
  BY <1>1 DEF RowsOn
<1>8. LastOf(rows \cup {n}) = n
  <2>1. rows \cup {n} \in SUBSET (1 .. n) /\ n \in rows \cup {n} /\ n \in Nat
    BY <1>1, <1>5
  <2>2. \A j \in rows \cup {n} : j <= n  BY <1>1, <1>5
  <2> HIDE DEF n, rows
  <2> QED  BY <2>1, <2>2, LastOfUnique
<1>9. Committed'[d] = x.after
  <2>1. Committed'[d] = ledger'[n].after
    <3>1. RowsOn(ledger', d) # {} /\ LastOf(RowsOn(ledger', d)) = n
      <4> HIDE DEF rows, n, d
      <4> QED  BY <1>6, <1>8
    <3> QED  BY <1>3, <3>1 DEF Committed, StateOn
  <2> QED  BY <1>1, <2>1
<1>10. \A e \in Dates \ {d} : Committed'[e] = Committed[e]
  <2> TAKE e \in Dates \ {d}
  <2>1. Committed[e] = IF RowsOn(ledger, e) # {} THEN ledger[LastOf(RowsOn(ledger, e))].after
                       ELSE {}
    BY DEF Committed, StateOn
  <2>2. Committed'[e] = IF RowsOn(ledger', e) # {}
                        THEN ledger'[LastOf(RowsOn(ledger', e))].after ELSE {}
    BY DEF Committed, StateOn
  <2>3. RowsOn(ledger, e) # {} => LastOf(RowsOn(ledger, e)) \in 1 .. Len(ledger)
    <3>1. RowsOn(ledger, e) \in SUBSET (1 .. Len(ledger))
      BY DEF RowsOn
    <3> QED  BY <1>1, <3>1, LastOfProperties
  <2> QED  BY <1>1, <1>7, <2>1, <2>2, <2>3
<1>11. Committed[d] \subseteq x.after
  <2>1. Committed[d] = IF rows # {} THEN ledger[LastOf(rows)].after ELSE {}
    BY <1>3 DEF Committed, StateOn
  <2>2. CASE rows = {}  BY <2>1, <2>2
  <2>3. CASE rows # {}
    <3>1. LastOf(rows) \in 1 .. Len(ledger)
      BY <1>1, <1>5, <2>3, LastOfProperties
    <3>2. x.prior = ledger'[LastOf(rows)].after
      BY <1>1, <1>4, <2>3 DEF RowOK, PriorMatches
    <3>3. x.after = x.prior \cup x.published  BY <1>1 DEF RowOK
    <3> QED  BY <1>1, <2>1, <2>3, <3>1, <3>2, <3>3
  <2> QED  BY <2>2, <2>3
<1>12. Cardinality(Committed[d] \cup x.after) <= Cap
  <2>1. Committed[d] \cup x.after = x.after  BY <1>11
  <2> QED  BY <2>1, <1>1 DEF RowOK
<1>13. Committed' = [Committed EXCEPT ![d] = @ \cup x.after]
  <2>1. Committed' = [e \in Dates |-> Committed'[e]]  BY DEF Committed
  <2>2. Committed = [e \in Dates |-> Committed[e]]  BY DEF Committed
  <2>3. Committed'[d] = Committed[d] \cup x.after  BY <1>9, <1>11
  <2> DEFINE f == Committed
             g == Committed'
             v == Committed[d] \cup x.after
  <2>4. f = [e \in Dates |-> f[e]] /\ g = [e \in Dates |-> g[e]]
    BY <2>1, <2>2
  <2>5. g[d] = v /\ \A e \in Dates \ {d} : g[e] = f[e]
    BY <1>10, <2>3
  <2>6. g = [f EXCEPT ![d] = v]
    <3> HIDE DEF d, f, g, v
    <3> QED  BY <1>3, <2>4, <2>5, OneChange
  <2> QED  BY <2>6
<1>14. Promise!Publish(d, x.after)
  <2>1. Promise!Cardinality(Committed[d] \cup x.after) = Cardinality(Committed[d] \cup x.after)
    BY DEF Promise!Cardinality, Cardinality
  <2> QED  BY <1>12, <1>13, <2>1 DEF Promise!Publish
<1> QED  BY <1>3, <1>14

\* Every step of publication is a step of the promise or leaves it alone.
LEMMA StepRefines ==
  ASSUME PublicationAssumption, TypeOK, [Next]_vars
  PROVE  [Promise!Next]_<<Committed, Valid(ledger)>>
<1>0. ~Valid(ledger) => Committed = Promise!Nothing
  BY DEF Committed, Promise!Nothing
<1>00. ~Valid(ledger)' => Committed' = Promise!Nothing
  BY DEF Committed, Promise!Nothing
<1>1. CASE ~Valid(ledger)
  <2>1. ~Valid(ledger)'  BY <1>1, StaysInvalid
  <2> QED  BY <1>0, <1>00, <1>1, <2>1 DEF Valid
<1>2. CASE Valid(ledger) /\ ~Valid(ledger)'
  <2>1. Promise!Break  BY <1>00, <1>2 DEF Promise!Break, Valid
  <2> QED  BY <2>1 DEF Promise!Next
<1>3. CASE ledger' = ledger
  <2>1. Committed' = Committed /\ Valid(ledger)' = Valid(ledger)
    BY <1>3 DEF Committed
  <2> QED  BY <2>1
<1>4. ASSUME Valid(ledger), Valid(ledger)', NEW x \in Lines, ledger' = Append(ledger, x),
             RowOK(ledger', Len(ledger) + 1)
      PROVE  Promise!Next
  BY <1>4, AcceptedPublishes DEF Promise!Next
<1> QED  BY <1>1, <1>2, <1>3, <1>4, StaysInvalid

\* The publication ledger implements the promise to the reader
\* (_commit_publication_ledger with validate_publication_ledger): as long as it
\* validates the symbols of a date only grow and never exceed the cap, and a ledger
\* that a torn append or a race has broken shows nothing any more, of any date;
\* with or without the scan lock.
THEOREM LedgerKeepsDailyCap == Spec => KeepsDailyCap
<1>1. Init => Promise!Init
  <2> SUFFICES ASSUME Init PROVE Promise!Init
    OBVIOUS
  <2>1. Valid(ledger) /\ \A d \in Dates : RowsOn(ledger, d) = {}
    BY DEF Init, Valid, RowsOn
  <2>2. Committed = [d \in Dates |-> {}]  BY <2>1 DEF Committed
  <2> QED  BY <2>1, <2>2 DEF Promise!Init, Promise!Nothing, Valid
<1>2. TypeOK /\ [Next]_vars => [Promise!Next]_<<Committed, Valid(ledger)>>
  BY StepRefines, PublicationAssumption
<1> QED  BY <1>1, <1>2, TypeCorrect, PTL DEF Spec, KeepsDailyCap, Promise!Spec

-----------------------------------------------------------------------------
(* What a reader sees is recorded. *)

Stuck(log) == {log[i] : i \in DOMAIN log} \cap Torn

\* What an append leaves of the lines of a file: one whole row may be lost, the last
\* one of a file that is cut, and then a torn line names everybody who wrote on it.
Keeps(S, isCut, log, x, left) ==
  /\ RowsIn(left) \subseteq RowsIn(log) \cup {x}
  /\ ~isCut /\ x \in S => x \in RowsIn(left)
  /\ \A y \in RowsIn(log) : y \in RowsIn(left) \/ (isCut /\ y = log[Len(log)])
  /\ \A t \in Stuck(log) : \E u \in Stuck(left) : t.by \subseteq u.by
  /\ isCut => \E u \in Stuck(left) : Writers(log[Len(log)]) \cup Writers(x) \subseteq u.by
  /\ Writers(x) \subseteq Writers(left[Len(left)])
  /\ left[Len(left)] \in S => ~isCut /\ left[Len(left)] = x

LEMMA LeftLines ==
  ASSUME NEW S, S \cap Torn = {}, NEW log \in Seq(S \cup Torn), NEW isCut,
         NEW x \in S \cup Torn, NEW left, Left(S, isCut, log, x, left)
  PROVE  Keeps(S, isCut, log, x, left)
<1>1. Len(log) \in Nat /\ DOMAIN log = 1 .. Len(log)
  OBVIOUS
<1>2. CASE ~isCut
  <2>1. left = Append(log, x)
    BY <1>2 DEF Left
  <2>2. /\ DOMAIN left = DOMAIN log \cup {Len(log) + 1} /\ Len(left) = Len(log) + 1
        /\ \A i \in DOMAIN log : left[i] = log[i]
        /\ left[Len(log) + 1] = x
    BY <1>1, <2>1
  <2>3. RowsIn(left) = RowsIn(log) \cup ({x} \ Torn) /\ Stuck(log) \subseteq Stuck(left)
    BY <1>1, <2>2 DEF RowsIn, Stuck
  <2>4. left[Len(left)] = x /\ RowsIn(left) \subseteq RowsIn(log) \cup {x}
        /\ \A y \in RowsIn(log) : y \in RowsIn(left)
    BY <2>2, <2>3
  <2>5. x \in S => x \in RowsIn(left)
    BY <2>3
  <2>6. \A t \in Stuck(log) : \E u \in Stuck(left) : t.by \subseteq u.by
    BY <2>3
  <2>7. QED
    BY <1>2, <2>4, <2>5, <2>6, Zenon DEF Keeps
<1>3. CASE isCut
  <2> DEFINE n == Len(log)
  <2>1. PICK y \in Torn : left = [log EXCEPT ![n] = y] /\ y.by = Writers(log[n]) \cup Writers(x)
    BY <1>3 DEF Left
  <2>2. n \in DOMAIN log
    BY <1>1, <1>3 DEF Left
  <2>3. /\ DOMAIN left = DOMAIN log /\ Len(left) = n /\ left[n] = y
        /\ \A i \in DOMAIN log : i # n => left[i] = log[i]
    BY <1>1, <2>1, <2>2
  <2>4. y \in Stuck(left)
    BY <2>2, <2>3 DEF Stuck
  <2>5. RowsIn(left) \subseteq RowsIn(log)
    BY <2>3 DEF RowsIn
  <2>6. \A z \in RowsIn(log) : z \in RowsIn(left) \/ z = log[n]
    BY <2>3 DEF RowsIn
  <2>7. ASSUME NEW t \in Stuck(log) PROVE \E u \in Stuck(left) : t.by \subseteq u.by
    <3>1. PICK i \in DOMAIN log : t = log[i]
      BY DEF Stuck
    <3>2. CASE i = n
      BY <2>1, <2>4, <3>1, <3>2 DEF Stuck, Writers
    <3>3. CASE i # n
      BY <2>3, <3>1, <3>3 DEF Stuck
    <3>4. QED
      BY <3>2, <3>3
  <2>8. Writers(left[n]) = y.by /\ left[n] \notin S
    BY <2>3 DEF Writers
  <2>9. /\ Writers(log[n]) \cup Writers(x) \subseteq y.by
        /\ Writers(x) \subseteq Writers(left[Len(left)]) /\ left[Len(left)] \notin S
    BY <2>1, <2>3, <2>8
  <2>10. RowsIn(left) \subseteq RowsIn(log) \cup {x}
    BY <2>5
  <2>11. QED
    BY <1>3, <2>4, <2>6, <2>7, <2>9, <2>10, Zenon DEF Keeps
<1>4. QED
  BY <1>2, <1>3

\* A run past its ledger row, or past its history record, has it on file.
InLedger(r, d, items) ==
  \/ \E row \in RowsIn(ledger) : row.id = r /\ row.target = d /\ row.published = items
  \/ Swallowed(ledger, r)
InHistory(r, items) ==
  \/ \E entry \in RowsIn(history) : entry.id = r /\ entry.items = items
  \/ Swallowed(history, r)

Unwritten == {"idle", "scan", "commit", "append"}

RunsRecorded == \A r \in Runs : job[r].items # {} =>
  /\ stage[r] \in {"history", "latest"} => InLedger(r, job[r].target, job[r].items)
  /\ stage[r] = "latest" => InHistory(r, job[r].items)

LatestRecorded == latest.status = "live_proven" =>
  /\ latest.id \in Runs /\ stage[latest.id] \in {"audit"} \cup Ended
  /\ latest.items # {} => /\ InLedger(latest.id, latest.target, latest.items)
                          /\ InHistory(latest.id, latest.items)

HistoryLedgered == \A entry \in RowsIn(history) : entry.id # NoRun =>
  /\ stage[entry.id] \in {"latest", "audit"} \cup Ended
  /\ entry.items # {} => InLedger(entry.id, entry.target, entry.items)

\* A run appends one row at most, and none before its stage "append".
OneRowEach == \A a \in RowsIn(ledger) :
  /\ stage[a.id] \notin Unwritten
  /\ \A b \in RowsIn(ledger) : a.id = b.id => a = b

\* The last line of a file that is cut is that of a run that ended in its append:
\* nothing that run would have written later names it.
LedgerCut == "ledger" \in cut =>
  \E s \in Writers(ledger[Len(ledger)]) \cap Runs :
    /\ stage[s] \in Ended
    /\ ledger[Len(ledger)] \in Row =>
         /\ ~(latest.status = "live_proven" /\ latest.id = s)
         /\ \A entry \in RowsIn(history) : entry.id # s

HistoryCut == "history" \in cut =>
  \E s \in Writers(history[Len(history)]) \cap Runs :
    /\ stage[s] \in Ended
    /\ history[Len(history)] \in Entry =>
         ~(latest.status = "live_proven" /\ latest.id = s)

Recorded == /\ RunsRecorded /\ LatestRecorded /\ HistoryLedgered
            /\ OneRowEach /\ LedgerCut /\ HistoryCut

\* The steps that write neither of the two files: one run moves on.
LEMMA RecordedStays ==
  ASSUME PublicationAssumption, TypeOK, Recorded, NEW r \in Runs,
         UNCHANGED <<ledger, history, cut>>,
         \A s \in Runs : s # r => stage'[s] = stage[s] /\ job'[s] = job[s],
         stage'[r] \notin {"history", "latest"} \/ job'[r].items = {},
         stage[r] \in {"latest", "audit"} \cup Ended => stage'[r] \in {"audit"} \cup Ended,
         stage[r] \in Ended => stage'[r] \in Ended,
         stage[r] \notin Unwritten => stage'[r] \notin Unwritten,
         \/ latest' = latest
         \/ latest'.status # "live_proven"
         \/ /\ latest'.id = r /\ stage[r] = "latest" /\ stage'[r] = "audit"
            /\ latest'.items # {} => /\ InLedger(r, latest'.target, latest'.items)
                                     /\ InHistory(r, latest'.items)
  PROVE  Recorded'
<1>1. \A s \in Runs : stage[s] \in Ended => stage'[s] \in Ended
  OBVIOUS
<1>2. \A q : (Swallowed(ledger, q) => Swallowed(ledger, q)')
             /\ (Swallowed(history, q) => Swallowed(history, q)')
  BY <1>1 DEF Swallowed
<1>3. /\ \A q, d, items : InLedger(q, d, items) => InLedger(q, d, items)'
      /\ \A q, items : InHistory(q, items) => InHistory(q, items)'
  BY <1>2 DEF InLedger, InHistory
<1>4. RunsRecorded'
  BY <1>3 DEF Recorded, RunsRecorded
<1>5. HistoryLedgered'
  <2>1. \A entry \in RowsIn(history) : entry.id # NoRun => entry.id \in Runs
    BY DEF RowsIn, TypeOK, Entry
  <2>2. QED
    BY <1>3, <2>1 DEF Recorded, HistoryLedgered
<1>6. OneRowEach'
  <2>1. \A a \in RowsIn(ledger) : a.id \in Runs
    BY DEF RowsIn, TypeOK, Row
  <2>2. QED
    BY <2>1 DEF Recorded, OneRowEach
<1>7. LatestRecorded'
  BY <1>3 DEF Recorded, LatestRecorded, Ended
<1>8. \A s \in Runs : stage[s] \in Ended /\ ~(latest.status = "live_proven" /\ latest.id = s)
        => ~(latest'.status = "live_proven" /\ latest'.id = s)
  BY DEF Ended
<1>9. LedgerCut' /\ HistoryCut'
  BY <1>1, <1>8 DEF Recorded, LedgerCut, HistoryCut
<1>10. QED
  BY <1>4, <1>5, <1>6, <1>7, <1>9 DEF Recorded

\* An append to the ledger, whole or torn.
LEMMA LedgerWritten ==
  ASSUME PublicationAssumption, TypeOK, Recorded, NEW r \in Runs, stage[r] = "append",
         NEW x \in {RowOf(r), [by |-> {r}]}, ledger' = Extended("ledger", ledger, x),
         UNCHANGED history, "history" \in cut' <=> "history" \in cut,
         NEW w \in {"history"} \cup Ended, stage' = [stage EXCEPT ![r] = w],
         \A s \in Runs : s # r => job'[s] = job[s],
         w = "history" => x = RowOf(r) /\ job'[r] = job[r] /\ "ledger" \notin cut',
         latest' = latest \/ latest'.status # "live_proven"
  PROVE  Recorded'
<1>1. /\ RowOf(r) \in Row /\ [by |-> {r}] \in Torn /\ r \in Writers(x)
      /\ RowOf(r).id = r /\ RowOf(r).target = job[r].target /\ RowOf(r).published = job[r].items
  <2>1. RowOf(r) \in Row /\ [by |-> {r}] \in Torn /\ RowOf(r).id = r
        /\ RowOf(r).target = job[r].target /\ RowOf(r).published = job[r].items
    BY DEF TypeOK, RowOf, Row, Torn, Job
  <2>2. RowOf(r) \notin Torn
    BY <2>1, TornApart
  <2>3. r \in Writers(RowOf(r)) /\ r \in Writers([by |-> {r}])
    BY <2>1, <2>2 DEF Writers
  <2>4. QED
    BY <2>1, <2>3
<1>2. ledger \in Seq(Row \cup Torn) /\ Left(Row, "ledger" \in cut, ledger, x, ledger')
  BY <1>1, LedgerLeft DEF TypeOK
<1>3. /\ RowsIn(ledger') \subseteq RowsIn(ledger) \cup {x}
      /\ "ledger" \notin cut /\ x \in Row => x \in RowsIn(ledger')
      /\ \A y \in RowsIn(ledger) :
           y \in RowsIn(ledger') \/ ("ledger" \in cut /\ y = ledger[Len(ledger)])
      /\ \A t \in Stuck(ledger) : \E u \in Stuck(ledger') : t.by \subseteq u.by
      /\ "ledger" \in cut =>
           \E u \in Stuck(ledger') : Writers(ledger[Len(ledger)]) \cup Writers(x) \subseteq u.by
      /\ Writers(x) \subseteq Writers(ledger'[Len(ledger')])
      /\ ledger'[Len(ledger')] \in Row => ledger'[Len(ledger')] = x
  <2>1. Keeps(Row, "ledger" \in cut, ledger, x, ledger')
    <3>1. x \in Row \cup Torn /\ Row \cap Torn = {}
      BY <1>1, TornApart
    <3>2. QED
      BY <1>2, <3>1, LeftLines
  <2>2. QED
    BY <2>1 DEF Keeps
<1>4. /\ \A s \in Runs : s # r => stage'[s] = stage[s]
      /\ stage'[r] = w
      /\ \A s \in Runs : stage[s] \in Ended => s # r /\ stage'[s] \in Ended
  BY DEF TypeOK, Ended
<1>5. ASSUME NEW q, Swallowed(ledger, q) PROVE Swallowed(ledger, q)'
  BY <1>3, <1>4, <1>5 DEF Swallowed, Stuck
<1>6. ASSUME NEW q, Swallowed(history, q) PROVE Swallowed(history, q)'
  BY <1>4, <1>6 DEF Swallowed
<1>7. ASSUME NEW y \in RowsIn(ledger),
             \/ stage[y.id] \notin Ended
             \/ latest.status = "live_proven" /\ latest.id = y.id
             \/ \E entry \in RowsIn(history) : entry.id = y.id
      PROVE  y \in RowsIn(ledger')
  <2> SUFFICES ASSUME "ledger" \in cut, y = ledger[Len(ledger)]
               PROVE  FALSE
    BY <1>3
  <2>1. y \in Row /\ y \notin Torn
    BY DEF RowsIn, TypeOK
  <2>2. Writers(y) = {y.id}
    BY <2>1 DEF Writers
  <2>3. QED
    BY <1>7, <2>1, <2>2 DEF Recorded, LedgerCut
<1>8. ASSUME NEW q, NEW d, NEW items, InLedger(q, d, items),
             \/ stage[q] \notin Ended
             \/ latest.status = "live_proven" /\ latest.id = q
             \/ \E entry \in RowsIn(history) : entry.id = q
      PROVE  InLedger(q, d, items)'
  BY <1>5, <1>7, <1>8 DEF InLedger
<1>9. ASSUME NEW q, NEW items, InHistory(q, items) PROVE InHistory(q, items)'
  BY <1>6, <1>9 DEF InHistory
<1>10. ASSUME w = "history" PROVE InLedger(r, job[r].target, job[r].items)'
  <2>1. CASE "ledger" \notin cut
    BY <1>1, <1>3, <1>10, <2>1 DEF InLedger
  <2>2. CASE "ledger" \in cut
    <3>1. PICK u \in Stuck(ledger') : Writers(ledger[Len(ledger)]) \cup Writers(x) \subseteq u.by
      BY <1>3, <2>2
    <3>2. PICK s \in Writers(ledger[Len(ledger)]) \cap Runs : stage[s] \in Ended
      BY <2>2 DEF Recorded, LedgerCut
    <3>3. s # r /\ stage'[s] \in Ended /\ {r, s} \subseteq u.by
      BY <1>1, <1>4, <3>1, <3>2
    <3>4. Swallowed(ledger, r)'
      BY <3>2, <3>3 DEF Swallowed, Stuck
    <3>5. QED
      BY <3>4 DEF InLedger
  <2>3. QED
    BY <2>1, <2>2
<1>11. RunsRecorded'
  BY <1>4, <1>8, <1>9, <1>10 DEF Recorded, RunsRecorded, Ended
<1>12. LatestRecorded'
  BY <1>4, <1>8, <1>9 DEF Recorded, LatestRecorded, Ended
<1>13. HistoryLedgered'
  <2>1. \A entry \in RowsIn(history) : entry.id # NoRun => entry.id \in Runs
    BY DEF RowsIn, TypeOK, Entry
  <2>2. QED
    BY <1>4, <1>8, <2>1 DEF Recorded, HistoryLedgered, Ended
<1>14. OneRowEach'
  <2>1. \A a \in RowsIn(ledger) : a.id \in Runs /\ a.id # r
    BY DEF Recorded, OneRowEach, Unwritten, RowsIn, TypeOK, Row
  <2>2. ASSUME NEW a \in RowsIn(ledger') PROVE a \in RowsIn(ledger) \/ (a = RowOf(r) /\ a.id = r)
    <3>1. a \notin Torn
      BY DEF RowsIn
    <3>2. QED
      BY <1>1, <1>3, <3>1
  <2>3. stage'[r] \notin Unwritten
    BY <1>4 DEF Ended, Unwritten
  <2>4. QED
    BY <1>4, <2>1, <2>2, <2>3 DEF Recorded, OneRowEach
<1>15. LedgerCut'
  <2> SUFFICES ASSUME "ledger" \in cut'
               PROVE  /\ r \in Writers(ledger'[Len(ledger')])
                      /\ stage'[r] \in Ended
                      /\ ~(latest'.status = "live_proven" /\ latest'.id = r)
                      /\ \A entry \in RowsIn(history') : entry.id # r
    BY DEF LedgerCut
  <2>1. stage'[r] \in Ended
    BY <1>4
  <2>2. ~(latest'.status = "live_proven" /\ latest'.id = r)
    BY DEF Recorded, LatestRecorded, Ended
  <2>3. \A entry \in RowsIn(history') : entry.id # r
    BY PublicationAssumption DEF Recorded, HistoryLedgered, PublicationAssumption, Ended
  <2>4. QED
    BY <1>1, <1>3, <2>1, <2>2, <2>3
<1>16. HistoryCut'
  BY <1>4 DEF Recorded, HistoryCut
<1>17. QED
  BY <1>11, <1>12, <1>13, <1>14, <1>15, <1>16 DEF Recorded

\* An append to the history, whole or torn.
LEMMA HistoryWritten ==
  ASSUME PublicationAssumption, TypeOK, Recorded, NEW r \in Runs, stage[r] = "history",
         NEW x \in {EntryOf(r), [by |-> {r}]}, history' = Extended("history", history, x),
         UNCHANGED ledger, "ledger" \in cut' <=> "ledger" \in cut,
         NEW w \in {"latest"} \cup Ended, stage' = [stage EXCEPT ![r] = w],
         \A s \in Runs : s # r => job'[s] = job[s],
         w = "latest" => x = EntryOf(r) /\ job'[r] = job[r] /\ "history" \notin cut',
         latest' = latest \/ latest'.status # "live_proven"
  PROVE  Recorded'
<1>1. /\ EntryOf(r) \in Entry /\ [by |-> {r}] \in Torn /\ r \in Writers(x)
      /\ EntryOf(r).id = r /\ EntryOf(r).target = job[r].target /\ EntryOf(r).items = job[r].items
  <2>1. EntryOf(r) \in Entry /\ [by |-> {r}] \in Torn /\ EntryOf(r).id = r
        /\ EntryOf(r).target = job[r].target /\ EntryOf(r).items = job[r].items
    BY DEF TypeOK, EntryOf, Entry, Torn, Job
  <2>2. EntryOf(r) \notin Torn
    BY <2>1, TornApart
  <2>3. r \in Writers(EntryOf(r)) /\ r \in Writers([by |-> {r}])
    BY <2>1, <2>2 DEF Writers
  <2>4. QED
    BY <2>1, <2>3
<1>2. history \in Seq(Entry \cup Torn) /\ Left(Entry, "history" \in cut, history, x, history')
  BY <1>1, HistoryLeft DEF TypeOK
<1>3. /\ RowsIn(history') \subseteq RowsIn(history) \cup {x}
      /\ "history" \notin cut /\ x \in Entry => x \in RowsIn(history')
      /\ \A y \in RowsIn(history) :
           y \in RowsIn(history') \/ ("history" \in cut /\ y = history[Len(history)])
      /\ \A t \in Stuck(history) : \E u \in Stuck(history') : t.by \subseteq u.by
      /\ "history" \in cut =>
           \E u \in Stuck(history') : Writers(history[Len(history)]) \cup Writers(x) \subseteq u.by
      /\ Writers(x) \subseteq Writers(history'[Len(history')])
      /\ history'[Len(history')] \in Entry => history'[Len(history')] = x
  <2>1. Keeps(Entry, "history" \in cut, history, x, history')
    <3>1. x \in Entry \cup Torn /\ Entry \cap Torn = {}
      BY <1>1, TornApart
    <3>2. QED
      BY <1>2, <3>1, LeftLines
  <2>2. QED
    BY <2>1 DEF Keeps
<1>4. /\ \A s \in Runs : s # r => stage'[s] = stage[s]
      /\ stage'[r] = w
      /\ \A s \in Runs : stage[s] \in Ended => s # r /\ stage'[s] \in Ended
  BY DEF TypeOK, Ended
<1>5. ASSUME NEW q, Swallowed(history, q) PROVE Swallowed(history, q)'
  BY <1>3, <1>4, <1>5 DEF Swallowed, Stuck
<1>6. ASSUME NEW q, Swallowed(ledger, q) PROVE Swallowed(ledger, q)'
  BY <1>4, <1>6 DEF Swallowed
<1>7. ASSUME NEW y \in RowsIn(history),
             \/ stage[y.id] \notin Ended
             \/ latest.status = "live_proven" /\ latest.id = y.id
      PROVE  y \in RowsIn(history')
  <2> SUFFICES ASSUME "history" \in cut, y = history[Len(history)]
               PROVE  FALSE
    BY <1>3
  <2>1. y \in Entry /\ y \notin Torn
    BY DEF RowsIn, TypeOK
  <2>2. Writers(y) = {y.id}
    BY <2>1 DEF Writers
  <2>3. QED
    BY <1>7, <2>1, <2>2 DEF Recorded, HistoryCut
<1>8. ASSUME NEW q, NEW d, NEW items, InLedger(q, d, items) PROVE InLedger(q, d, items)'
  BY <1>6, <1>8 DEF InLedger
<1>9. ASSUME NEW q, NEW items, InHistory(q, items),
             \/ stage[q] \notin Ended
             \/ latest.status = "live_proven" /\ latest.id = q
      PROVE  InHistory(q, items)'
  BY <1>5, <1>7, <1>9 DEF InHistory
<1>10. ASSUME w = "latest" PROVE InHistory(r, job[r].items)'
  <2>1. CASE "history" \notin cut
    BY <1>1, <1>3, <1>10, <2>1 DEF InHistory
  <2>2. CASE "history" \in cut
    <3>1. PICK u \in Stuck(history') : Writers(history[Len(history)]) \cup Writers(x) \subseteq u.by
      BY <1>3, <2>2
    <3>2. PICK s \in Writers(history[Len(history)]) \cap Runs : stage[s] \in Ended
      BY <2>2 DEF Recorded, HistoryCut
    <3>3. s # r /\ stage'[s] \in Ended /\ {r, s} \subseteq u.by
      BY <1>1, <1>4, <3>1, <3>2
    <3>4. Swallowed(history, r)'
      BY <3>2, <3>3 DEF Swallowed, Stuck
    <3>5. QED
      BY <3>4 DEF InHistory
  <2>3. QED
    BY <2>1, <2>2
<1>11. RunsRecorded'
  BY <1>4, <1>8, <1>9, <1>10 DEF Recorded, RunsRecorded, Ended
<1>12. LatestRecorded'
  BY <1>4, <1>8, <1>9 DEF Recorded, LatestRecorded, Ended
<1>13. HistoryLedgered'
  <2>1. \A entry \in RowsIn(history) : entry.id # NoRun => entry.id \in Runs /\ entry.id # r
    BY DEF Recorded, HistoryLedgered, Ended, RowsIn, TypeOK, Entry
  <2>2. ASSUME NEW entry \in RowsIn(history')
        PROVE  entry \in RowsIn(history) \/ entry = EntryOf(r)
    <3>1. entry \notin Torn
      BY DEF RowsIn
    <3>2. QED
      BY <1>1, <1>3, <3>1
  <2>3. ASSUME NEW d, NEW items, d = job[r].target, items = job[r].items, items # {}
        PROVE  InLedger(r, d, items)'
    BY <1>8, <2>3 DEF Recorded, RunsRecorded
  <2>4. stage'[r] \in {"latest", "audit"} \cup Ended
    BY <1>4
  <2>5. ASSUME NEW entry \in RowsIn(history'), entry.id # NoRun
        PROVE  /\ stage'[entry.id] \in {"latest", "audit"} \cup Ended
               /\ entry.items # {} => InLedger(entry.id, entry.target, entry.items)'
    <3>1. CASE entry \in RowsIn(history)
      BY <1>4, <1>8, <2>1, <2>5, <3>1 DEF Recorded, HistoryLedgered
    <3>2. CASE entry = EntryOf(r)
      BY <1>1, <2>3, <2>4, <3>2
    <3>3. QED
      BY <2>2, <3>1, <3>2
  <2>6. QED
    BY <2>5 DEF HistoryLedgered
<1>14. OneRowEach'
  <2>1. \A a \in RowsIn(ledger) : a.id \in Runs
    BY DEF RowsIn, TypeOK, Row
  <2>2. stage'[r] \notin Unwritten
    BY <1>4 DEF Ended, Unwritten
  <2>3. QED
    BY <1>4, <2>1, <2>2 DEF Recorded, OneRowEach
<1>15. LedgerCut'
  <2> SUFFICES ASSUME "ledger" \in cut
               PROVE  LedgerCut'
    BY DEF LedgerCut
  <2>1. PICK s \in Writers(ledger[Len(ledger)]) \cap Runs :
          /\ stage[s] \in Ended
          /\ ledger[Len(ledger)] \in Row =>
               /\ ~(latest.status = "live_proven" /\ latest.id = s)
               /\ \A entry \in RowsIn(history) : entry.id # s
    BY DEF Recorded, LedgerCut
  <2>2. s # r /\ stage'[s] \in Ended
    BY <1>4, <2>1
  <2>3. \A entry \in RowsIn(history') : entry \in RowsIn(history) \/ entry.id = r
    <3>1. \A entry \in RowsIn(history') : entry \notin Torn
      BY DEF RowsIn
    <3>2. QED
      BY <1>1, <1>3, <3>1
  <2>4. QED
    BY <2>1, <2>2, <2>3 DEF LedgerCut
<1>16. HistoryCut'
  <2> SUFFICES ASSUME "history" \in cut'
               PROVE  /\ r \in Writers(history'[Len(history')])
                      /\ stage'[r] \in Ended
                      /\ ~(latest'.status = "live_proven" /\ latest'.id = r)
    BY DEF HistoryCut
  <2>1. stage'[r] \in Ended
    BY <1>4
  <2>2. ~(latest'.status = "live_proven" /\ latest'.id = r)
    BY DEF Recorded, LatestRecorded, Ended
  <2>3. QED
    BY <1>1, <1>3, <2>1, <2>2
<1>17. QED
  BY <1>11, <1>12, <1>13, <1>14, <1>15, <1>16 DEF Recorded

\* What is shown is recorded, whichever of the three files a step writes.
LEMMA RecordedStep ==
  ASSUME PublicationAssumption, TypeOK, Recorded, [Next]_vars
  PROVE  Recorded'
<1>1. ASSUME NEW r \in Runs, AppendLedger(r) PROVE Recorded'
  <2>1. /\ stage[r] = "append" /\ ledger' = Extended("ledger", ledger, RowOf(r))
        /\ cut' = cut \ {"ledger"} /\ stage' = [stage EXCEPT ![r] = "history"]
        /\ UNCHANGED <<history, latest, job>>
    BY <1>1 DEF AppendLedger
  <2>2. QED
    BY <2>1, LedgerWritten
<1>2. ASSUME NEW r \in Runs, AppendHistory(r) PROVE Recorded'
  <2>1. /\ stage[r] = "history" /\ history' = Extended("history", history, EntryOf(r))
        /\ cut' = cut \ {"history"} /\ stage' = [stage EXCEPT ![r] = "latest"]
        /\ UNCHANGED <<ledger, latest, job>>
    BY <1>2 DEF AppendHistory
  <2>2. QED
    BY <2>1, HistoryWritten
<1>3. ASSUME NEW r \in Runs, Tear(r), NEW w \in Ended, End(r, w),
             latest' = latest \/ latest'.status # "live_proven"
      PROVE  Recorded'
  <2>1. stage' = [stage EXCEPT ![r] = w] /\ \A s \in Runs : s # r => job'[s] = job[s]
    BY <1>3 DEF End, TypeOK
  <2>2. w # "history" /\ w # "latest"
    BY DEF Ended
  <2>3. ASSUME stage[r] = "append",
               NEW x \in {RowOf(r), [by |-> {r}]}, ledger' = Extended("ledger", ledger, x),
               cut' = cut \cup {"ledger"}, UNCHANGED history
        PROVE  Recorded'
    <3>1. "history" \in cut' <=> "history" \in cut
      BY <2>3
    <3>2. QED
      BY <1>3, <2>1, <2>2, <2>3, <3>1, LedgerWritten
  <2>4. ASSUME stage[r] = "history",
               NEW x \in {EntryOf(r), [by |-> {r}]}, history' = Extended("history", history, x),
               cut' = cut \cup {"history"}, UNCHANGED ledger
        PROVE  Recorded'
    <3>1. "ledger" \in cut' <=> "ledger" \in cut
      BY <2>4
    <3>2. QED
      BY <1>3, <2>1, <2>2, <2>4, <3>1, HistoryWritten
  <2>5. QED
    BY <1>3, <2>3, <2>4 DEF Tear
<1>4. ASSUME NEW r \in Runs, TearAppend(r) \/ AppendRaises(r) PROVE Recorded'
  <2>1. CASE TearAppend(r)
    BY <1>3, <2>1 DEF TearAppend, Ended
  <2>2. CASE AppendRaises(r)
    <3>1. Tear(r) /\ End(r, "done") /\ latest'.status # "live_proven"
      BY <2>2 DEF AppendRaises, Blank
    <3>2. QED
      BY <1>3, <3>1 DEF Ended
  <2>3. QED
    BY <1>4, <2>1, <2>2
<1>5. ASSUME NEW r \in Runs, WriteLatest(r) PROVE Recorded'
  <2>1. /\ UNCHANGED <<ledger, history, cut, job>> /\ stage[r] = "latest" /\ stage'[r] = "audit"
        /\ \A s \in Runs : s # r => stage'[s] = stage[s]
        /\ latest'.id = r /\ latest'.target = job[r].target /\ latest'.items = job[r].items
    BY <1>5 DEF WriteLatest, TypeOK
  <2>2. latest'.items # {} => /\ InLedger(r, latest'.target, latest'.items)
                              /\ InHistory(r, latest'.items)
    BY <2>1 DEF Recorded, RunsRecorded
  <2>3. QED
    BY <2>1, <2>2, RecordedStays DEF Ended, Unwritten
<1>6. ASSUME NEW r \in Runs, UNCHANGED <<ledger, history, cut>>,
             latest' = latest \/ latest'.status # "live_proven",
             \A s \in Runs : s # r => stage'[s] = stage[s] /\ job'[s] = job[s],
             stage[r] \notin Ended,
             \/ /\ stage[r] \in Unwritten /\ stage'[r] \notin Ended
                /\ stage'[r] \notin {"history", "latest"} \/ job'[r].items = {}
             \/ stage'[r] \in Ended
      PROVE  Recorded'
  <2>1. /\ stage[r] \in {"latest", "audit"} \cup Ended => stage'[r] \in {"audit"} \cup Ended
        /\ stage[r] \notin Unwritten => stage'[r] \notin Unwritten
        /\ stage'[r] \notin {"history", "latest"} \/ job'[r].items = {}
    BY <1>6 DEF Ended, Unwritten
  <2>2. QED
    BY <1>6, <2>1, RecordedStays
<1>7. ASSUME NEW r \in Runs, \E d \in Dates : Begin(r, d) PROVE Recorded'
  BY <1>6, <1>7 DEF Begin, TypeOK, Ended, Unwritten
<1>8. ASSUME NEW r \in Runs, BlockAtGate(r) \/ Revalidate(r) PROVE Recorded'
  <2>1. CASE BlockAtGate(r)
    BY <1>6, <2>1 DEF BlockAtGate, Blank, TypeOK, Ended, Unwritten
  <2>2. CASE Revalidate(r)
    <3>1. PICK prior, items, live :
            job' = [job EXCEPT ![r].prior = prior, ![r].items = items,
                      ![r].live = live, ![r].pool = pool]
      BY <2>2, ZenonT(30) DEF Revalidate
    <3>2. UNCHANGED <<ledger, history, cut, latest>> /\ stage[r] = "scan"
          /\ stage' = [stage EXCEPT ![r] = "commit"]
      BY <2>2 DEF Revalidate
    <3>3. QED
      BY <1>6, <3>1, <3>2 DEF TypeOK, Ended, Unwritten
  <2>3. QED
    BY <1>8, <2>1, <2>2
<1>9. ASSUME NEW r \in Runs, CommitNothing(r) \/ BuildRow(r) PROVE Recorded'
  BY <1>6, <1>9 DEF CommitNothing, BuildRow, TypeOK, Ended, Unwritten
<1>10. ASSUME NEW r \in Runs, AppendAudit(r) \/ Fail(r) \/ Crash(r) PROVE Recorded'
  <2>1. stage[r] \notin Ended
    BY <1>10 DEF AppendAudit, Fail, Crash, Active, Ended
  <2>2. QED
    BY <1>6, <1>10, <2>1 DEF AppendAudit, Fail, Crash, End, Blank, TypeOK, Ended
<1>11. CASE ChangePool \/ UNCHANGED vars
  BY <1>11 DEF ChangePool, vars, Recorded, RunsRecorded, LatestRecorded, HistoryLedgered,
     OneRowEach, LedgerCut, HistoryCut, InLedger, InHistory, Swallowed
<1>12. QED
  BY <1>1, <1>2, <1>4, <1>5, <1>7, <1>8, <1>9, <1>10, <1>11 DEF Next, RunStep

\* In a ledger that validates no line is torn, so no record was swallowed.
LEMMA ValidSwallowsNothing == ASSUME Valid(ledger), TypeOK, NEW q PROVE ~Swallowed(ledger, q)
<1>1. \A i \in DOMAIN ledger : ledger[i] \notin Torn
  BY DEF Valid, RowOK, TypeOK
<1>2. QED
  BY <1>1 DEF Swallowed

\* What is shown was published by the last row of its date.
LEMMA ShownIsCommitted ==
  ASSUME PublicationAssumption, TypeOK, Recorded
  PROVE  Visible \subseteq Committed[latest.target]
<1> SUFFICES ASSUME Visible # {} PROVE Visible \subseteq Committed[latest.target]
  OBVIOUS
<1> DEFINE d == latest.target
           i == LastOf(RowsOn(ledger, d))
<1>1. /\ latest.status = "live_proven" /\ Visible = latest.items /\ latest.items # {}
      /\ Valid(ledger) /\ RowsOn(ledger, d) # {} /\ ledger[i].id = latest.id
  BY DEF Visible
<1>2. i \in 1 .. Len(ledger)
  <2>1. RowsOn(ledger, d) \in SUBSET (1 .. Len(ledger)) /\ Len(ledger) \in Nat
    BY DEF RowsOn, TypeOK
  <2>2. QED
    BY <1>1, <2>1, LastOfProperties
<1>3. ledger[i] \in RowsIn(ledger) /\ ledger[i] \in Row /\ RowOK(ledger, i)
  <2>1. RowOK(ledger, i) /\ ledger[i] \notin Torn
    BY <1>1, <1>2 DEF Valid, RowOK
  <2>2. QED
    BY <1>2, <2>1 DEF RowsIn, TypeOK
<1>4. InLedger(latest.id, latest.target, latest.items)
  BY <1>1 DEF Recorded, LatestRecorded
<1>5. PICK row \in RowsIn(ledger) : row.id = latest.id /\ row.published = latest.items
  BY <1>1, <1>4, ValidSwallowsNothing DEF InLedger
<1>6. row = ledger[i]
  BY <1>1, <1>3, <1>5 DEF Recorded, OneRowEach
<1>7. latest.items \subseteq ledger[i].after
  BY <1>3, <1>5, <1>6 DEF RowOK
<1>8. Committed[d] = ledger[i].after
  <2>1. d \in Dates
    BY DEF TypeOK, Snapshot
  <2>2. QED
    BY <1>1, <2>1 DEF Committed, StateOn
<1>9. QED
  BY <1>1, <1>7, <1>8

LEMMA RecordedHolds == Spec => []Recorded
<1>1. Init => Recorded
  <2> SUFFICES ASSUME Init PROVE Recorded
    OBVIOUS
  <2>1. \A entry \in RowsIn(history) : entry.id = NoRun
    <3>1. CASE history = <<>>
      BY <3>1 DEF RowsIn
    <3>2. ASSUME NEW d \in Dates, NEW x \in Symbols,
                 history = <<[id |-> NoRun, target |-> d, items |-> {x}]>>
          PROVE  \A entry \in RowsIn(history) : entry.id = NoRun
      BY <3>2 DEF RowsIn
    <3>3. QED
      BY <3>1, <3>2 DEF Init
  <2>2. RowsIn(ledger) = {} /\ cut = {} /\ latest.status = "none"
        /\ \A r \in Runs : stage[r] = "idle"
    BY DEF Init, RowsIn
  <2>3. QED
    BY <2>1, <2>2 DEF Recorded, RunsRecorded, LatestRecorded, HistoryLedgered, OneRowEach,
       LedgerCut, HistoryCut
<1>2. TypeOK /\ Recorded /\ [Next]_vars => Recorded'
  BY RecordedStep, PublicationAssumption
<1>3. QED
  BY <1>1, <1>2, TypeCorrect, PTL DEF Spec

\* Whatever runs race, die between the three files or in the middle of a line: what
\* a reader sees is in the history and in what the date was committed to show, and
\* the history names only what a ledger row had committed.  A record of either file
\* is missing only if its line was begun by another run, since ended, whose append
\* had been torn.
THEOREM ShownRecorded == Spec => []ShownIsRecorded
<1>1. TypeOK /\ Recorded => ShownIsRecorded
  <2> SUFFICES ASSUME TypeOK, Recorded PROVE ShownIsRecorded
    OBVIOUS
  <2>1. Visible \subseteq Committed[latest.target]
    BY ShownIsCommitted, PublicationAssumption
  <2>2. Visible # {} => InHistory(latest.id, Visible)
    BY DEF Recorded, LatestRecorded, Visible
  <2>3. \A entry \in RowsIn(history) : entry.id # NoRun /\ entry.items # {} =>
          InLedger(entry.id, entry.target, entry.items)
    BY DEF Recorded, HistoryLedgered
  <2>4. QED
    BY <2>1, <2>2, <2>3 DEF ShownIsRecorded, InHistory, InLedger
<1>2. QED
  BY <1>1, RecordedHolds, TypeCorrect, PTL

-----------------------------------------------------------------------------
(* Runs that do not overlap. *)

\* The run that wrote the last row of a date.
LastOn(l, d) == l[LastOf(RowsOn(l, d))].id

OneActive == \A r, s \in Runs : Active(r) /\ Active(s) => r = s

\* What a run is to publish was selected under its audit and leaves its date
\* within the limit.
JobFits == \A r \in Runs : stage[r] \in {"commit", "append", "history", "latest"} =>
  /\ job[r].items # {} => job[r].live
  /\ job[r].live => /\ job[r].pool \in Pools /\ job[r].items \subseteq Allowed[job[r].pool]
                    /\ Cardinality(job[r].prior \cup job[r].items) <= Limit

\* The row a run is about to append is one a reader will accept.
DraftFits == \A r \in Runs : stage[r] = "append" =>
  /\ job[r].items # {} /\ Valid(ledger)
  /\ RowOK(Append(ledger, RowOf(r)), Len(ledger) + 1)

\* A run between its row and its snapshot has the last row of its date.
WrittenLast == \A r \in Runs :
  stage[r] \in {"history", "latest"} /\ job[r].items # {} /\ Untorn =>
    RowsOn(ledger, job[r].target) # {} /\ LastOn(ledger, job[r].target) = r

\* The last row of the snapshot's date is the snapshot's own, or one of a run
\* that has not got, or never got, to its snapshot.
LatestLast == latest.status = "live_proven" =>
  /\ latest.pool \in Pools /\ latest.items \subseteq Allowed[latest.pool]
  /\ latest.items # {} /\ Untorn =>
       /\ RowsOn(ledger, latest.target) # {}
       /\ \/ LastOn(ledger, latest.target) = latest.id
          \/ stage[LastOn(ledger, latest.target)] \in {"history", "latest", "crashed"}

AloneInv == OneActive /\ JobFits /\ DraftFits /\ LedgerIntact /\ WrittenLast /\ LatestLast

\* The selection is cut so that the date stays within the limit.
LEMMA CappedFits ==
  ASSUME PublicationAssumption, NEW selected \in SUBSET Symbols, NEW prior \in SUBSET Symbols,
         Cardinality(prior) <= Limit, NEW items \in Capped(selected, prior)
  PROVE  items \subseteq selected /\ Cardinality(prior \cup items) <= Limit
<1> DEFINE room == IF Cardinality(prior) <= Limit THEN Limit - Cardinality(prior) ELSE 0
           new == selected \ prior
<1>1. PICK T \in SUBSET new : /\ items = (selected \cap prior) \cup T
                              /\ Cardinality(T) = IF Cardinality(new) <= room THEN Cardinality(new)
                                                                             ELSE room
  BY DEF Capped
<1>2. /\ IsFiniteSet(prior) /\ IsFiniteSet(T) /\ IsFiniteSet(prior \cap T)
      /\ IsFiniteSet(new) /\ Limit \in Nat
  <2>1. IsFiniteSet(Symbols) /\ prior \cap T \subseteq Symbols /\ T \subseteq Symbols
        /\ new \subseteq Symbols
    BY DEF PublicationAssumption
  <2>2. QED
    BY <2>1, FS_Subset DEF PublicationAssumption
<1>3. /\ Cardinality(prior) \in Nat /\ Cardinality(T) \in Nat /\ Cardinality(prior \cap T) \in Nat
      /\ Cardinality(new) \in Nat
  BY <1>2, FS_CardinalityType
<1>4. Cardinality(T) <= room
  BY <1>1, <1>2, <1>3
<1>5. Cardinality(prior \cup T) = Cardinality(prior) + Cardinality(T) - Cardinality(prior \cap T)
  BY <1>2, FS_Union
<1>6. prior \cup items = prior \cup T /\ items \subseteq selected
  BY <1>1
<1>7. Cardinality(prior) + Cardinality(T) - Cardinality(prior \cap T) <= Limit
  BY <1>2, <1>3, <1>4
<1>8. QED
  BY <1>5, <1>6, <1>7

\* Lines that are whole and appended to a whole ledger.
LEMMA LastAppended ==
  ASSUME NEW l \in Seq(Row \cup Torn), NEW x \in Row, NEW d \in Dates,
         \A i \in 1 .. Len(l) : l[i] \notin Torn
  PROVE  /\ x.target = d => RowsOn(Append(l, x), d) # {} /\ LastOn(Append(l, x), d) = x.id
         /\ x.target # d => RowsOn(Append(l, x), d) = RowsOn(l, d)
         /\ x.target # d /\ RowsOn(l, d) # {} => LastOn(Append(l, x), d) = LastOn(l, d)
<1> DEFINE m == Append(l, x)
           n == Len(l) + 1
<1>1. /\ Len(l) \in Nat /\ n \in Nat /\ Len(m) = n /\ m[n] = x
      /\ \A i \in 1 .. Len(l) : m[i] = l[i]
  OBVIOUS
<1>2. RowsOn(l, d) \in SUBSET (1 .. Len(l)) /\ RowsOn(m, d) \in SUBSET (1 .. n)
  BY <1>1 DEF RowsOn
<1>3. CASE x.target = d
  <2>1. n \in RowsOn(m, d) /\ \A j \in RowsOn(m, d) : j <= n
    BY <1>1, <1>2, <1>3 DEF RowsOn
  <2>2. LastOf(RowsOn(m, d)) = n
    <3> HIDE DEF m, n
    <3>1. QED
      BY <1>1, <1>2, <2>1, LastOfUnique
  <2>3. QED
    BY <1>1, <1>3, <2>1, <2>2 DEF LastOn
<1>4. CASE x.target # d
  <2>1. RowsOn(m, d) = RowsOn(l, d)
    BY <1>1, <1>4 DEF RowsOn
  <2>2. RowsOn(l, d) # {} => LastOf(RowsOn(l, d)) \in 1 .. Len(l)
    BY <1>1, <1>2, LastOfProperties
  <2>3. QED
    BY <1>1, <1>4, <2>1, <2>2 DEF LastOn
<1>5. QED
  BY <1>3, <1>4

\* A row built on the rows read is one a reader accepts after them.
LEMMA BuiltRowFits ==
  ASSUME PublicationAssumption, TypeOK, JobFits, NEW r \in Runs, BuildRow(r)
  PROVE  RowOK(Append(ledger', RowOf(r)'), Len(ledger') + 1)
<1> DEFINE n == Len(ledger) + 1
           x == RowOf(r)'
           m == Append(ledger, x)
           d == job[r].target
<1>1. /\ job[r].items # {} /\ Valid(ledger) /\ PublishedOn(d) = job[r].prior
      /\ ledger' = ledger
      /\ job' = [job EXCEPT ![r].seq = n,
               ![r].prev = IF ledger = <<>> THEN NoRun ELSE ledger[Len(ledger)].id,
               ![r].seeded = RowsOn(ledger, d) = {} /\ job[r].prior # {}]
  BY DEF BuildRow, Readable
<1>2. /\ x.seq = n /\ x.target = d /\ x.prior = job[r].prior /\ x.published = job[r].items
      /\ x.after = job[r].prior \cup job[r].items
      /\ x.prev = IF ledger = <<>> THEN NoRun ELSE ledger[Len(ledger)].id
      /\ x.seeded <=> RowsOn(ledger, d) = {} /\ job[r].prior # {}
  BY <1>1 DEF RowOf, TypeOK, Job
<1>3. x \in Row /\ x \notin Torn
  <2>1. TypeOK'
    BY TypeStep DEF Next, RunStep
  <2>2. x \in Row
    BY <2>1 DEF TypeOK, RowOf, Row, Job
  <2>3. QED
    BY <2>2, TornApart
<1>4. /\ Len(ledger) \in Nat /\ m[n] = x /\ \A i \in 1 .. Len(ledger) : m[i] = ledger[i]
      /\ ledger = <<>> <=> n = 1
  BY DEF TypeOK
<1>5. SameTargetBefore(m, n) = RowsOn(ledger, d)
  BY <1>2, <1>4 DEF SameTargetBefore, RowsOn
<1>6. RowsOn(ledger, d) # {} => LastOf(RowsOn(ledger, d)) \in 1 .. Len(ledger)
  <2>1. RowsOn(ledger, d) \in SUBSET (1 .. Len(ledger))
    BY DEF RowsOn
  <2>2. QED
    BY <1>4, <2>1, LastOfProperties
<1>7. PriorMatches(m, n)
  BY <1>1, <1>2, <1>4, <1>5, <1>6 DEF PriorMatches, PublishedOn, StateOn
<1>8. Cardinality(x.after) <= Cap
  <2>1. stage[r] = "commit" /\ job[r].prior \cup job[r].items \subseteq Symbols
    BY DEF BuildRow, TypeOK, Job
  <2>2. Cardinality(x.after) <= Limit /\ Cardinality(x.after) \in Nat
    BY <1>1, <1>2, <2>1, FS_Subset, FS_CardinalityType DEF JobFits, PublicationAssumption
  <2>3. QED
    BY <2>2 DEF PublicationAssumption
<1>9. m[n].prev = IF n = 1 THEN NoRun ELSE m[n - 1].id
  BY <1>2, <1>4
<1>10. RowOK(m, n)
  <2> HIDE DEF x, m, n, d
  <2>1. QED
    BY <1>1, <1>2, <1>3, <1>4, <1>7, <1>8, <1>9 DEF RowOK
<1>11. QED
  BY <1>1, <1>10

\* A ledger with no torn line that is intact validates.
LEMMA IntactIsValid == ASSUME LedgerIntact, Untorn, TypeOK PROVE Valid(ledger)
  BY DEF LedgerIntact, Untorn, Valid, Accepted, TypeOK

\* The append of the row that its run had validated, whole or torn, while no other
\* run is active: only its own line may be torn by it, and a row that it did not
\* tear is the last of its date.
LEMMA LedgerGrows ==
  ASSUME PublicationAssumption, TypeOK, AloneInv, NEW r \in Runs, stage[r] = "append",
         NEW x \in {RowOf(r), [by |-> {r}]}, ledger' = Extended("ledger", ledger, x),
         NEW w, stage' = [stage EXCEPT ![r] = w]
  PROVE  /\ LedgerIntact'
         /\ Untorn' => /\ Untorn /\ RowsOn(ledger', job[r].target) # {}
                       /\ LastOn(ledger', job[r].target) = r
         /\ latest' = latest /\ w \in {"history", "crashed"} => LatestLast'
<1>1. /\ RowOf(r) \in Row /\ RowOf(r).id = r /\ RowOf(r).target = job[r].target
      /\ job[r].target \in Dates /\ [by |-> {r}] \in Torn /\ x \in Lines
      /\ ledger \in Seq(Lines) /\ Len(ledger) \in Nat
  BY DEF TypeOK, RowOf, Row, Torn, Job, Lines
<1>2. Valid(ledger) /\ RowOK(Append(ledger, RowOf(r)), Len(ledger) + 1)
  BY DEF AloneInv, DraftFits
<1>3. Left(Row, "ledger" \in cut, ledger, x, ledger')
  BY <1>1, LedgerLeft DEF Lines
<1>4. CASE "ledger" \in cut
  <2> DEFINE n == Len(ledger)
  <2>1. PICK y \in Torn : ledger' = [ledger EXCEPT ![n] = y]
    BY <1>3, <1>4 DEF Left
  <2>2. /\ n \in 1 .. n /\ Len(ledger') = n /\ ledger'[n] = y
        /\ \A k \in 1 .. n : k # n => ledger'[k] = ledger[k]
    BY <1>1, <1>3, <1>4, <2>1 DEF Left
  <2>3. ~Untorn'
    BY <2>2 DEF Untorn
  <2>4. ASSUME NEW i \in 1 .. n, i # n PROVE RowOK(ledger', i)
    <3>1. \A k \in 1 .. i : ledger'[k] = ledger[k]
      BY <1>1, <2>2, <2>4
    <3>2. RowOK(ledger', i) = RowOK(ledger, i)
      BY <1>1, <3>1, RowOKStable
    <3>3. QED
      BY <1>2, <3>2 DEF Valid
  <2>5. ASSUME NEW i \in 1 .. n, i # n PROVE i \in Accepted(ledger')
    <3>1. \A j \in 1 .. i : j \in 1 .. n /\ j # n
      BY <1>1, <2>5
    <3>2. QED
      BY <2>2, <2>4, <3>1 DEF Accepted
  <2>6. LedgerIntact'
    BY <2>2, <2>5 DEF LedgerIntact
  <2>7. QED
    BY <2>3, <2>6 DEF AloneInv, LatestLast
<1>5. CASE "ledger" \notin cut
  <2> DEFINE n == Len(ledger) + 1
  <2>1. ledger' = Append(ledger, x)
    BY <1>3, <1>5 DEF Left
  <2>2. /\ Len(ledger') = n /\ ledger'[n] = x
        /\ \A k \in 1 .. Len(ledger) : ledger'[k] = ledger[k]
    BY <1>1, <2>1
  <2>3. ASSUME NEW i \in 1 .. Len(ledger) PROVE RowOK(ledger', i)
    <3>1. \A k \in 1 .. i : ledger'[k] = ledger[k]
      BY <1>1, <2>2
    <3>2. RowOK(ledger', i) = RowOK(ledger, i)
      BY <1>1, <3>1, RowOKStable
    <3>3. QED
      BY <1>2, <3>2 DEF Valid
  <2>4. ASSUME NEW i \in 1 .. Len(ledger) PROVE i \in Accepted(ledger')
    <3>1. \A j \in 1 .. i : j \in 1 .. Len(ledger)
      BY <1>1
    <3>2. i \in 1 .. Len(ledger')
      BY <1>1, <2>2
    <3>3. QED
      BY <2>3, <3>1, <3>2 DEF Accepted
  <2>5. x \in Torn \/ n \in Accepted(ledger')
    <3>1. CASE x = RowOf(r)
      <4>1. RowOK(ledger', n)
        BY <1>2, <2>1, <3>1
      <4>2. \A j \in 1 .. n : j \in 1 .. Len(ledger) \/ j = n
        BY <1>1
      <4>3. QED
        BY <1>1, <2>2, <2>3, <4>1, <4>2 DEF Accepted
    <3>2. QED
      BY <1>1, <3>1
  <2>6. LedgerIntact'
    <3>1. \A j \in 1 .. n : j \in 1 .. Len(ledger) \/ j = n
      BY <1>1
    <3>2. QED
      BY <2>2, <2>4, <2>5, <3>1 DEF LedgerIntact
  <2>7. Untorn' => Untorn /\ x = RowOf(r)
    <3>1. \A k \in 1 .. Len(ledger) : k \in 1 .. Len(ledger')
      BY <1>1, <2>2
    <3>2. n \in 1 .. Len(ledger')
      BY <1>1, <2>2
    <3>3. QED
      BY <1>1, <2>2, <3>1, <3>2 DEF Untorn
  <2>8. ASSUME Untorn', NEW d \in Dates
        PROVE  /\ d = job[r].target => RowsOn(ledger', d) # {} /\ LastOn(ledger', d) = r
               /\ d # job[r].target /\ RowsOn(ledger, d) # {} =>
                    /\ RowsOn(ledger', d) = RowsOn(ledger, d)
                    /\ LastOn(ledger', d) = LastOn(ledger, d)
    <3>1. ledger' = Append(ledger, RowOf(r)) /\ \A i \in 1 .. Len(ledger) : ledger[i] \notin Torn
      BY <2>1, <2>7, <2>8 DEF Untorn
    <3>2. ledger \in Seq(Row \cup Torn)
      BY DEF TypeOK
    <3> DEFINE y == RowOf(r)
               m == Append(ledger, y)
    <3>3. y \in Row
      BY <1>1
    <3>4. /\ y.target = d => RowsOn(m, d) # {} /\ LastOn(m, d) = y.id
          /\ y.target # d => RowsOn(m, d) = RowsOn(ledger, d)
          /\ y.target # d /\ RowsOn(ledger, d) # {} => LastOn(m, d) = LastOn(ledger, d)
      <4> HIDE DEF y
      <4>1. QED
        BY <3>1, <3>2, <3>3, LastAppended
    <3>5. QED
      BY <1>1, <3>1, <3>4
  <2>9. ASSUME latest' = latest, w \in {"history", "crashed"} PROVE LatestLast'
    <3> SUFFICES ASSUME latest.status = "live_proven", latest.items # {}, Untorn'
                 PROVE  /\ RowsOn(ledger', latest.target) # {}
                        /\ \/ LastOn(ledger', latest.target) = latest.id
                           \/ stage'[LastOn(ledger', latest.target)] \in
                                {"history", "latest", "crashed"}
      BY <2>9 DEF AloneInv, LatestLast
    <3>1. latest.target \in Dates
      BY DEF TypeOK, Snapshot
    <3>2. stage'[r] \in {"history", "latest", "crashed"}
      BY <2>9 DEF TypeOK
    <3>3. CASE latest.target = job[r].target
      BY <2>8, <3>1, <3>2, <3>3
    <3>4. CASE latest.target # job[r].target
      <4>1. /\ RowsOn(ledger, latest.target) # {}
            /\ \/ LastOn(ledger, latest.target) = latest.id
               \/ stage[LastOn(ledger, latest.target)] \in {"history", "latest", "crashed"}
        BY <2>7 DEF AloneInv, LatestLast
      <4>2. RowsOn(ledger', latest.target) = RowsOn(ledger, latest.target)
            /\ LastOn(ledger', latest.target) = LastOn(ledger, latest.target)
        BY <2>8, <3>1, <3>4, <4>1
      <4>3. LastOn(ledger, latest.target) # r =>
              stage'[LastOn(ledger, latest.target)] = stage[LastOn(ledger, latest.target)]
        BY DEF TypeOK
      <4>4. QED
        BY <3>2, <4>1, <4>2, <4>3
    <3>5. QED
      BY <3>3, <3>4
  <2>10. QED
    BY <1>1, <2>6, <2>7, <2>8, <2>9
<1>6. QED
  BY <1>4, <1>5

LEMMA AppendLedgerStep ==
  ASSUME PublicationAssumption, TypeOK, AloneInv, NEW r \in Runs, AppendLedger(r)
  PROVE  AloneInv'
<1>1. /\ stage[r] = "append" /\ ledger' = Extended("ledger", ledger, RowOf(r))
      /\ stage' = [stage EXCEPT ![r] = "history"] /\ UNCHANGED <<latest, pool, job>>
  BY DEF AppendLedger
<1>2. \A s \in Runs : s # r => stage[s] \in Ended \cup {"idle"} /\ stage'[s] = stage[s]
  BY <1>1 DEF AloneInv, OneActive, Active, Ended, TypeOK
<1>3. OneActive'
  BY <1>1, <1>2 DEF OneActive, Active
<1>4. JobFits'
  BY <1>1, <1>2 DEF AloneInv, JobFits, TypeOK
<1>5. DraftFits'
  BY <1>1, <1>2 DEF DraftFits, Ended, TypeOK
<1>6. /\ LedgerIntact' /\ LatestLast'
      /\ Untorn' => RowsOn(ledger', job[r].target) # {} /\ LastOn(ledger', job[r].target) = r
  BY <1>1, LedgerGrows
<1>7. WrittenLast'
  BY <1>1, <1>2, <1>6 DEF WrittenLast, Ended
<1>8. QED
  BY <1>3, <1>4, <1>5, <1>6, <1>7 DEF AloneInv

\* A torn line ends what could be said of the snapshot, and leaves the rows
\* before it accepted; a row that lacks only its newline is the last of its date,
\* written by a run that has died or has announced its failure.
LEMMA TearStep ==
  ASSUME PublicationAssumption, TypeOK, AloneInv, NEW r \in Runs,
         TearAppend(r) \/ AppendRaises(r)
  PROVE  AloneInv'
<1>1. PICK w \in Ended :
        /\ Tear(r) /\ End(r, w)
        /\ (latest' = latest /\ w = "crashed") \/ latest'.status # "live_proven"
  BY DEF TearAppend, AppendRaises, Blank, Ended
<1>2. /\ stage' = [stage EXCEPT ![r] = w] /\ job' = [job EXCEPT ![r] = NoJob]
      /\ Active(r) /\ stage'[r] = w
  BY <1>1 DEF Tear, End, Active, Ended, TypeOK
<1>3. \A s \in Runs : s # r => stage[s] \in Ended \cup {"idle"} /\ stage'[s] = stage[s]
  BY <1>2 DEF AloneInv, OneActive, Active, Ended, TypeOK
<1>4. OneActive' /\ JobFits' /\ DraftFits' /\ WrittenLast'
  BY <1>2, <1>3 DEF OneActive, Active, JobFits, DraftFits, WrittenLast, Ended
<1>5. ASSUME NEW x \in {RowOf(r), [by |-> {r}]}, ledger' = Extended("ledger", ledger, x),
             stage[r] = "append"
      PROVE  LedgerIntact' /\ LatestLast'
  <2>1. LedgerIntact' /\ (latest' = latest /\ w \in {"history", "crashed"} => LatestLast')
    BY <1>2, <1>5, LedgerGrows
  <2>2. latest'.status # "live_proven" => LatestLast'
    BY DEF LatestLast
  <2>3. QED
    BY <1>1, <2>1, <2>2
<1>6. CASE ledger' = ledger
  <2>1. LedgerIntact'
    BY <1>6 DEF AloneInv, LedgerIntact, Accepted
  <2>2. w = "crashed" => \A s : stage[s] \in {"history", "latest", "crashed"} =>
               stage'[s] \in {"history", "latest", "crashed"}
    BY <1>2 DEF TypeOK
  <2>3. LatestLast'
    <3>1. CASE latest'.status # "live_proven"
      BY <3>1 DEF LatestLast
    <3>2. CASE latest' = latest /\ w = "crashed"
      BY <1>6, <2>2, <3>2 DEF AloneInv, LatestLast, Untorn, RowsOn, LastOn
    <3>3. QED
      BY <1>1, <3>1, <3>2
  <2>4. QED
    BY <1>4, <2>1, <2>3 DEF AloneInv
<1>7. QED
  BY <1>1, <1>4, <1>5, <1>6 DEF Tear, AloneInv

\* The steps that leave the ledger alone move one run, while all others rest.
LEMMA LedgerStays ==
  ASSUME PublicationAssumption, TypeOK, AloneInv, NEW r \in Runs, UNCHANGED ledger,
         \A s \in Runs : s # r => ~Active(s),
         \A s \in Runs : s # r => stage'[s] = stage[s] /\ job'[s] = job[s]
  PROVE  /\ OneActive' /\ LedgerIntact' /\ Untorn' = Untorn
         /\ stage'[r] \notin {"commit", "append", "history", "latest"} =>
              JobFits' /\ DraftFits' /\ WrittenLast'
         /\ (\/ latest'.status # "live_proven"
             \/ /\ latest' = latest
                /\ \/ stage[r] \notin {"history", "latest", "crashed"}
                   \/ stage'[r] \in {"history", "latest", "crashed"}) => LatestLast'
<1>1. OneActive'
  BY DEF OneActive, Active
<1>2. LedgerIntact' /\ Untorn' = Untorn
  BY DEF AloneInv, LedgerIntact, Accepted, Untorn
<1>3. \A s \in Runs : s # r => stage[s] \in Ended \cup {"idle"}
  BY DEF Active
<1>4. ASSUME stage'[r] \notin {"commit", "append", "history", "latest"}
      PROVE  JobFits' /\ DraftFits' /\ WrittenLast'
  BY <1>3, <1>4 DEF JobFits, DraftFits, WrittenLast, Ended
<1>5. ASSUME latest' = latest,
             \/ stage[r] \notin {"history", "latest", "crashed"}
             \/ stage'[r] \in {"history", "latest", "crashed"}
      PROVE  LatestLast'
  <2> DEFINE w == LastOn(ledger, latest.target)
  <2> SUFFICES ASSUME latest.status = "live_proven", latest.items # {}, Untorn, w # latest.id
               PROVE  stage'[w] \in {"history", "latest", "crashed"}
    BY <1>2, <1>5 DEF AloneInv, LatestLast, LastOn
  <2>1. stage[w] \in {"history", "latest", "crashed"} /\ RowsOn(ledger, latest.target) # {}
    BY DEF AloneInv, LatestLast
  <2>2. w \in Runs
    <3>1. RowsOn(ledger, latest.target) \in SUBSET (1 .. Len(ledger)) /\ Len(ledger) \in Nat
      BY DEF RowsOn, TypeOK
    <3>2. LastOf(RowsOn(ledger, latest.target)) \in 1 .. Len(ledger)
      BY <2>1, <3>1, LastOfProperties
    <3>3. ledger[LastOf(RowsOn(ledger, latest.target))] \in Row
      BY <3>2 DEF Untorn, TypeOK
    <3>4. QED
      BY <3>3 DEF LastOn, Row
  <2>3. QED
    BY <1>5, <2>1, <2>2
<1>6. ASSUME latest'.status # "live_proven" PROVE LatestLast'
  BY <1>6 DEF LatestLast
<1>7. QED
  BY <1>1, <1>2, <1>4, <1>5, <1>6

LEMMA AloneStep ==
  ASSUME PublicationAssumption, TypeOK, AloneInv, [Next]_vars, OneActive'
  PROVE  AloneInv'
<1>1. ASSUME NEW r \in Runs, Active(r), NEW s \in Runs, s # r PROVE ~Active(s)
  BY <1>1 DEF AloneInv, OneActive
<1>2. ASSUME NEW r \in Runs, NEW d \in Dates, Begin(r, d) PROVE AloneInv'
  <2>1. /\ UNCHANGED ledger /\ stage[r] = "idle" /\ stage'[r] = "scan"
        /\ \A s \in Runs : s # r => ~Active(s) /\ stage'[s] = stage[s] /\ job'[s] = job[s]
    BY <1>2 DEF Begin, OneActive, Active, Ended, TypeOK
  <2>2. latest' = latest \/ latest'.status # "live_proven"
    BY <1>2 DEF Begin
  <2>3. QED
    BY <2>1, <2>2, LedgerStays DEF AloneInv
<1>3. ASSUME NEW r \in Runs, BlockAtGate(r) \/ AppendAudit(r) \/ Fail(r) \/ Crash(r)
      PROVE  AloneInv'
  <2>1. /\ UNCHANGED ledger /\ Active(r) /\ stage'[r] \in {"audit", "done", "crashed"}
        /\ \A s \in Runs : s # r => stage'[s] = stage[s] /\ job'[s] = job[s]
    BY <1>3 DEF BlockAtGate, AppendAudit, Fail, Crash, Active, End, Ended, TypeOK
  <2>2. \/ latest' = latest /\ (stage[r] = "audit" \/ stage'[r] = "crashed")
        \/ latest'.status # "live_proven"
    BY <1>3 DEF BlockAtGate, AppendAudit, Fail, Crash, Blank, End, TypeOK
  <2>3. QED
    BY <1>1, <2>1, <2>2, LedgerStays DEF AloneInv
<1>4. ASSUME NEW r \in Runs, Revalidate(r) PROVE AloneInv'
  <2> DEFINE prior == PublishedOn(job[r].target)
  <2>1. /\ UNCHANGED <<ledger, latest, pool>> /\ stage[r] = "scan"
        /\ stage' = [stage EXCEPT ![r] = "commit"]
        /\ job[r].pool # NoPool /\ Readable(job[r].target)
    BY <1>4 DEF Revalidate
  <2>2. PICK selected \in SUBSET Allowed[job[r].pool], evidence \in BOOLEAN, sound \in BOOLEAN :
          /\ ~(evidence /\ pool # job[r].pool)
          /\ LET unchanged == pool = job[r].pool
                 live == evidence /\ (unchanged => sound /\ Cardinality(prior) <= Limit)
             IN  \E items \in IF live THEN Capped(selected, prior) ELSE {{}} :
                   job' = [job EXCEPT ![r].prior = prior, ![r].items = items,
                             ![r].live = live, ![r].pool = pool]
    BY <1>4, ZenonT(30) DEF Revalidate
  <2> DEFINE live ==
        evidence /\ (pool = job[r].pool => sound /\ Cardinality(prior) <= Limit)
  <2>21. PICK items \in IF live THEN Capped(selected, prior) ELSE {{}} :
          job' = [job EXCEPT ![r].prior = prior, ![r].items = items,
                    ![r].live = live, ![r].pool = pool]
    BY <2>2, Zenon
  <2>22. /\ live \in BOOLEAN
         /\ live => pool = job[r].pool /\ Cardinality(prior) <= Limit
    BY <2>2
  <2> HIDE DEF live
  <2>3. /\ live => pool = job[r].pool /\ Cardinality(prior) <= Limit
        /\ items \in IF live THEN Capped(selected, prior) ELSE {{}}
    BY <2>21, <2>22
  <2>4. /\ job'[r].prior = prior /\ job'[r].items = items /\ job'[r].live = live
        /\ job'[r].pool = pool
        /\ \A s \in Runs : s # r => job'[s] = job[s]
    <3> HIDE DEF prior
    <3>1. QED
      BY <2>21, <2>22 DEF TypeOK, Job
  <2>5. /\ items # {} => live
        /\ live => pool \in Pools /\ items \subseteq Allowed[pool]
                   /\ Cardinality(prior \cup items) <= Limit
    <3>1. prior \in SUBSET Symbols /\ job[r].target \in Dates /\ job[r].pool \in Pools
      BY <2>1, PublishedTyped DEF TypeOK, Job
    <3>2. selected \in SUBSET Symbols
      BY <3>1 DEF PublicationAssumption
    <3>3. CASE live
      <4>1. /\ items \in Capped(selected, prior) /\ Cardinality(prior) <= Limit
            /\ pool = job[r].pool
        BY <2>3, <3>3
      <4>2. items \subseteq selected /\ Cardinality(prior \cup items) <= Limit
        <5> HIDE DEF prior
        <5>1. QED
          BY <3>1, <3>2, <4>1, CappedFits
      <4>3. pool \in Pools /\ items \subseteq Allowed[pool]
        BY <3>1, <4>1, <4>2
      <4>4. QED
        BY <3>3, <4>2, <4>3, Zenon
    <3>4. CASE ~live
      BY <2>3, <3>4
    <3>5. QED
      BY <3>3, <3>4
  <2>6. /\ stage'[r] = "commit" /\ Active(r)
        /\ \A s \in Runs : s # r => ~Active(s) /\ stage'[s] = stage[s]
    BY <1>1, <2>1 DEF Active, Ended, TypeOK
  <2>7. OneActive' /\ LedgerIntact' /\ LatestLast'
    BY <2>1, <2>4, <2>6, LedgerStays
  <2>8. JobFits' /\ DraftFits' /\ WrittenLast'
    BY <2>4, <2>5, <2>6 DEF JobFits, DraftFits, WrittenLast, Active, Ended
  <2>9. QED
    BY <2>7, <2>8 DEF AloneInv
<1>5. ASSUME NEW r \in Runs, CommitNothing(r) PROVE AloneInv'
  <2>1. /\ UNCHANGED <<ledger, latest, job>> /\ stage[r] = "commit" /\ Active(r)
        /\ job[r].items = {} /\ stage'[r] = "history"
        /\ \A s \in Runs : s # r => stage'[s] = stage[s]
    BY <1>5 DEF CommitNothing, Active, Ended, TypeOK
  <2>2. OneActive' /\ LedgerIntact' /\ LatestLast'
    BY <1>1, <2>1, LedgerStays
  <2>3. JobFits' /\ DraftFits' /\ WrittenLast'
    BY <1>1, <2>1 DEF AloneInv, JobFits, DraftFits, WrittenLast, Active, Ended
  <2>4. QED
    BY <2>2, <2>3 DEF AloneInv
<1>6. ASSUME NEW r \in Runs, BuildRow(r) PROVE AloneInv'
  <2>1. /\ UNCHANGED <<ledger, latest>> /\ stage[r] = "commit" /\ Active(r)
        /\ job[r].items # {} /\ Valid(ledger) /\ stage'[r] = "append"
        /\ \A s \in Runs : s # r => stage'[s] = stage[s] /\ job'[s] = job[s]
    BY <1>6 DEF BuildRow, Readable, Active, Ended, TypeOK
  <2>2. /\ job'[r].items = job[r].items /\ job'[r].live = job[r].live
        /\ job'[r].pool = job[r].pool /\ job'[r].prior = job[r].prior
    BY <1>6 DEF BuildRow, TypeOK, Job
  <2>3. OneActive' /\ LedgerIntact' /\ LatestLast'
    BY <1>1, <2>1, LedgerStays
  <2>4. JobFits' /\ WrittenLast'
    <3>1. \A s \in Runs : s # r => stage'[s] \in Ended \cup {"idle"}
      BY <1>1, <2>1 DEF Active
    <3>2. JobFits'
      BY <2>1, <2>2, <3>1 DEF AloneInv, JobFits, Ended
    <3>3. WrittenLast'
      BY <2>1, <3>1 DEF WrittenLast, Ended
    <3>4. QED
      BY <3>2, <3>3
  <2>5. Valid(ledger') /\ RowOK(Append(ledger', RowOf(r)'), Len(ledger') + 1)
    BY <1>6, <2>1, BuiltRowFits DEF AloneInv
  <2>6. DraftFits'
    BY <1>1, <2>1, <2>2, <2>5 DEF DraftFits, Active, Ended
  <2>7. QED
    BY <2>3, <2>4, <2>6 DEF AloneInv
<1>7. ASSUME NEW r \in Runs, AppendHistory(r) PROVE AloneInv'
  <2>1. /\ UNCHANGED <<ledger, latest, job>> /\ stage[r] = "history" /\ Active(r)
        /\ stage'[r] = "latest"
        /\ \A s \in Runs : s # r => stage'[s] = stage[s]
    BY <1>7 DEF AppendHistory, Active, Ended, TypeOK
  <2>2. OneActive' /\ LedgerIntact' /\ LatestLast' /\ Untorn' = Untorn
    BY <1>1, <2>1, LedgerStays
  <2>3. JobFits' /\ DraftFits' /\ WrittenLast'
    BY <1>1, <2>1, <2>2 DEF AloneInv, JobFits, DraftFits, WrittenLast, Active, Ended
  <2>4. QED
    BY <2>2, <2>3 DEF AloneInv
<1>8. ASSUME NEW r \in Runs, WriteLatest(r) PROVE AloneInv'
  <2>1. /\ UNCHANGED <<ledger, job>> /\ stage[r] = "latest" /\ Active(r) /\ stage'[r] = "audit"
        /\ \A s \in Runs : s # r => stage'[s] = stage[s]
        /\ latest' = [status |-> IF job[r].live THEN "live_proven" ELSE "blocked",
                      id |-> r, target |-> job[r].target, items |-> job[r].items,
                      pool |-> job[r].pool]
    BY <1>8 DEF WriteLatest, Active, Ended, TypeOK
  <2>2. OneActive' /\ LedgerIntact' /\ Untorn' = Untorn /\ JobFits' /\ DraftFits' /\ WrittenLast'
    BY <1>1, <2>1, LedgerStays
  <2>3. LatestLast'
    BY <2>1, <2>2 DEF AloneInv, JobFits, WrittenLast, LatestLast
  <2>4. QED
    BY <2>2, <2>3 DEF AloneInv
<1>9. CASE ChangePool \/ UNCHANGED vars
  <2>1. UNCHANGED <<ledger, latest, stage, job>>
    BY <1>9 DEF ChangePool, vars
  <2>2. QED
    BY <2>1 DEF AloneInv, OneActive, Active, JobFits, DraftFits, LedgerIntact, WrittenLast,
       LatestLast, Untorn, RowOf
<1>10. QED
  BY <1>2, <1>3, <1>4, <1>5, <1>6, <1>7, <1>8, <1>9, AppendLedgerStep, TearStep DEF Next, RunStep

\* Unless it overlaps with another, a step leaves one run active at most.
LEMMA NoOverlapStep ==
  ASSUME TypeOK, OneActive, [Next]_vars, ~overlapped'
  PROVE  ~overlapped /\ OneActive'
<1>1. ASSUME NEW r \in Runs, NEW d \in Dates, Begin(r, d) PROVE ~overlapped /\ OneActive'
  <2>1. ~overlapped /\ \A s \in Runs : ~Active(s)
    BY <1>1 DEF Begin, TypeOK
  <2>2. \A s \in Runs : Active(s)' => s = r
    BY <1>1, <2>1 DEF Begin, Active, Ended, TypeOK
  <2>3. QED
    BY <2>1, <2>2 DEF OneActive
<1>2. ASSUME NEW r \in Runs, RunStep(r), \A d \in Dates : ~Begin(r, d)
      PROVE  ~overlapped /\ OneActive'
  <2>1. /\ Active(r) /\ UNCHANGED overlapped
        /\ \A s \in Runs : s # r => stage'[s] = stage[s]
    BY <1>2 DEF RunStep, BlockAtGate, Revalidate, CommitNothing, BuildRow, AppendLedger,
       AppendHistory, WriteLatest, AppendAudit, Fail, Crash, TearAppend, AppendRaises, Tear, End,
       Active, Ended, TypeOK
  <2>2. QED
    BY <2>1 DEF OneActive, Active
<1>3. CASE ChangePool \/ UNCHANGED vars
  BY <1>3 DEF ChangePool, vars, OneActive, Active
<1>4. QED
  BY <1>1, <1>2, <1>3 DEF Next

LEMMA AloneInvHolds == Spec => [](~overlapped => AloneInv)
<1>1. Init => AloneInv
  <2> SUFFICES ASSUME Init PROVE AloneInv
    OBVIOUS
  <2>1. ledger = <<>> /\ latest.status = "none" /\ \A r \in Runs : stage[r] = "idle"
    BY DEF Init
  <2>2. QED
    BY <2>1 DEF AloneInv, OneActive, Active, JobFits, DraftFits, LedgerIntact, WrittenLast,
       LatestLast
<1>2. TypeOK /\ (~overlapped => AloneInv) /\ [Next]_vars => (~overlapped => AloneInv)'
  <2> SUFFICES ASSUME TypeOK, ~overlapped => AloneInv, [Next]_vars, ~overlapped'
               PROVE  AloneInv'
    OBVIOUS
  <2>1. ~overlapped
    BY DEF Next, vars, RunStep, ChangePool, Begin, BlockAtGate, Revalidate, CommitNothing,
       BuildRow, AppendLedger, AppendHistory, WriteLatest, AppendAudit, Fail, Crash, TearAppend,
       AppendRaises, TypeOK
  <2>2. OneActive'
    BY <2>1, NoOverlapStep DEF AloneInv
  <2>3. QED
    BY <2>1, <2>2, AloneStep, PublicationAssumption
<1>3. QED
  BY <1>1, <1>2, TypeCorrect, PTL DEF Spec

\* Runs of which one at a time is active, which is what the scan lock is for,
\* leave a publication ledger that only a torn append can break: every row was
\* validated against the very rows it is appended to.
THEOREM NoOverlapKeepsLedger == Spec => [](~overlapped => LedgerIntact)
<1>1. (~overlapped => AloneInv) => (~overlapped => LedgerIntact)
  BY DEF AloneInv
<1>2. QED
  BY <1>1, AloneInvHolds, PTL

\* What runs that did not overlap published (save_recommendations) is shown to a
\* reader, until a line is torn or the pool changes, or a later run dies between
\* its row and its snapshot.
THEOREM PublishedShown == Spec => []PublishedIsShown
<1>1. TypeOK /\ (~overlapped => AloneInv) => PublishedIsShown
  <2> SUFFICES ASSUME TypeOK, AloneInv, Quiet, latest.status = "live_proven",
                      pool = latest.pool, Untorn, ~Superseded
               PROVE  Visible = latest.items
    BY DEF PublishedIsShown, SnapshotShown
  <2>1. Untorn /\ Valid(ledger)
    BY IntactIsValid DEF AloneInv
  <2>2. /\ latest.pool \in Pools /\ latest.pool # NoPool
        /\ latest.items \subseteq Allowed[latest.pool]
    BY PublicationAssumption DEF AloneInv, LatestLast
  <2>3. ASSUME latest.items # {}
        PROVE  RowsOn(ledger, latest.target) # {}
               /\ ledger[LastOf(RowsOn(ledger, latest.target))].id = latest.id
    <3> DEFINE i == LastOf(RowsOn(ledger, latest.target))
    <3>1. /\ RowsOn(ledger, latest.target) # {}
          /\ ledger[i].id = latest.id \/ stage[ledger[i].id] \in {"history", "latest", "crashed"}
      BY <2>1, <2>3 DEF AloneInv, LatestLast, LastOn
    <3>2. i \in RowsOn(ledger, latest.target) /\ i \in 1 .. Len(ledger)
      <4>1. RowsOn(ledger, latest.target) \in SUBSET (1 .. Len(ledger)) /\ Len(ledger) \in Nat
        BY DEF RowsOn, TypeOK
      <4>2. QED
        BY <3>1, <4>1, LastOfProperties
    <3>3. ledger[i].id \in Runs
      BY <2>1, <3>2 DEF Untorn, TypeOK, Row
    <3>4. stage[ledger[i].id] \notin {"history", "latest", "crashed"}
      BY <3>2, <3>3 DEF Quiet, Ended, Superseded
    <3>5. QED
      BY <3>1, <3>4
  <2>4. QED
    BY <2>1, <2>2, <2>3 DEF Visible
<1>2. QED
  BY <1>1, AloneInvHolds, TypeCorrect, PTL

\* No reader of latest() is ever shown more than Cap symbols for a date, whatever
\* runs race, fail, die or tear a line.
THEOREM ReaderSeesAtMostCap == Spec => [](Cardinality(Visible) <= Cap)
<1>1. TypeOK /\ Recorded => Cardinality(Visible) <= Cap
  <2> SUFFICES ASSUME TypeOK, Recorded PROVE Cardinality(Visible) <= Cap
    OBVIOUS
  <2> DEFINE d == latest.target
             rows == RowsOn(ledger, d)
  <2>1. d \in Dates /\ Visible \subseteq Committed[d]
    BY ShownIsCommitted, PublicationAssumption DEF TypeOK, Snapshot
  <2>2. CASE ~Valid(ledger) \/ rows = {}
    <3>1. Visible = {}
      BY <2>1, <2>2 DEF Committed
    <3>2. QED
      BY <3>1, FS_EmptySet, PublicationAssumption DEF PublicationAssumption
  <2>3. CASE Valid(ledger) /\ rows # {}
    <3> DEFINE i == LastOf(rows)
    <3>1. i \in 1 .. Len(ledger)
      <4>1. rows \in SUBSET (1 .. Len(ledger)) /\ Len(ledger) \in Nat
        BY DEF RowsOn, TypeOK
      <4>2. QED
        BY <2>3, <4>1, LastOfProperties
    <3>2. RowOK(ledger, i) /\ ledger[i] \in Row
      BY <2>3, <3>1 DEF Valid, RowOK, TypeOK
    <3>3. Cardinality(ledger[i].after) <= Cap /\ ledger[i].after \in SUBSET Symbols
      BY <3>2 DEF RowOK, Row
    <3>4. Visible \subseteq ledger[i].after
      BY <2>1, <2>3 DEF Committed, StateOn
    <3> HIDE DEF i
    <3>5. IsFiniteSet(ledger[i].after)
      BY <3>3, FS_Subset, PublicationAssumption DEF PublicationAssumption
    <3>6. Cardinality(Visible) <= Cardinality(ledger[i].after) /\ IsFiniteSet(Visible)
      BY <3>4, <3>5, FS_Subset
    <3>7. /\ Cardinality(Visible) \in Nat /\ Cardinality(ledger[i].after) \in Nat
          /\ Cap \in Nat
      BY <3>5, <3>6, FS_CardinalityType, PublicationAssumption DEF PublicationAssumption
    <3>8. QED
      BY <3>3, <3>6, <3>7
  <2>4. QED
    BY <2>2, <2>3
<1>2. QED
  BY <1>1, RecordedHolds, TypeCorrect, PTL
=============================================================================
