----------------------------- MODULE RecordsProofs -----------------------------
(***************************************************************************)
(* Proofs about records that actors write without a lock.                  *)
(*                                                                         *)
(* The pool: what was settled survives.  The personal book: its fills are  *)
(* explained and a ticket at rest fits it.  The alerts: a repeated one was *)
(* out of sight.  Health: what is on file was heard.  The caches: a fresh  *)
(* entry hides no old news, and answers are the newest.                    *)
(*                                                                         *)
(* The receipts: types, the agreement of events and receipts, that a fetch *)
(* which returned is indexed, and that closing an attempt whose body is    *)
(* the receipt brings its part into the index.                             *)
(***************************************************************************)
EXTENDS PitReceipts, MonitorAlerts, HealthAlert, PersonalBook, PoolPublication,
        ContextCache, FiniteSetTheorems, SequenceTheorems, TLAPS

-----------------------------------------------------------------------------
(* The publication of the pool. *)

PoolSteps == {"idle", "verified", "same", "replacing", "syncing", "restoring", "resyncing"}

PoolTypeOK ==
  /\ ppc \in [Publishers -> PoolSteps]
  /\ audit \in [Publishers -> Audits \cup {Missing}]
  /\ before \in [Publishers -> Audits \cup {Missing}]
  /\ target \in Audits \cup {Missing, Linked}
  /\ survivors \in SUBSET (Audits \cup {Missing, Linked})
  /\ settled \in Audits \cup {Missing}
  /\ alone \in SUBSET Publishers

\* A publisher with an audit of its own.
Busy(p) == ppc[p] # "idle"
HasAudit == \A p \in Publishers : Busy(p) => audit[p] \in Audits

\* While a publisher that nobody overlapped is busy all others are idle; unless
\* something is in doubt, a busy publisher is one of those.
AloneIsAlone ==
  /\ \A p \in alone, q \in Publishers : Busy(p) /\ Busy(q) => p = q
  /\ ~doubtful => \A p \in Publishers : Busy(p) => p \in alone

\* Such a publisher synchronises its own audit.
OwnAudit == \A p \in alone : ppc[p] = "syncing" => target = audit[p]

\* Nothing is in doubt: the target is as it was settled, or will be again when
\* the publisher that replaced it restores what it found.
Undoubted == ~doubtful =>
  /\ (\A p \in Publishers : ~CutShort(p)) => survivors = {target}
  /\ settled # Missing =>
       /\ (\A p \in Publishers : ~CutShort(p)) => target = settled
       /\ \A p \in Publishers :
            /\ ppc[p] \in {"replacing", "syncing", "restoring"} => before[p] = settled
            /\ ppc[p] = "resyncing" => target = settled
  /\ \A p \in Publishers : ppc[p] = "same" => target = audit[p]

PoolInv == PoolTypeOK /\ HasAudit /\ AloneIsAlone /\ OwnAudit /\ Undoubted

LEMMA PoolStep ==
  ASSUME PoolInv, [PoolNext]_poolVars
  PROVE  PoolInv'
<1> USE PoolAssumption DEF PoolInv, PoolTypeOK, PoolSteps, HasAudit, AloneIsAlone,
          OwnAudit, Undoubted, Busy, CutShort, PStep, PEnd
<1>1. CASE PowerFails
  <2>1. PoolTypeOK'
    BY <1>1 DEF PowerFails
  <2>2. alone' \subseteq Publishers /\ \A p \in Publishers : ppc'[p] = "idle"
    BY <1>1 DEF PowerFails
  <2>3. HasAudit' /\ AloneIsAlone' /\ OwnAudit'
    BY <2>2
  <2>4. ~doubtful' => ~doubtful /\ \A p \in Publishers : ~CutShort(p)
    BY <1>1, Zenon DEF PowerFails
  <2>5. ~doubtful' => target' = target /\ survivors' = {target}
    BY <1>1, <2>4 DEF PowerFails
  <2>6. Undoubted'
    BY <1>1, <2>2, <2>4, <2>5 DEF PowerFails
  <2>7. QED
    BY <2>1, <2>3, <2>6
<1>2. ASSUME NEW p \in Publishers, Verify(p) PROVE PoolInv'
  <2>1. PoolTypeOK' /\ HasAudit'
    BY <1>2 DEF Verify
  <2>2. ~doubtful' => ~doubtful /\ alone' = {p} /\ \A q \in Publishers : ppc[q] = "idle"
    BY <1>2 DEF Verify
  <2>3. AloneIsAlone' /\ OwnAudit'
    BY <1>2, <2>2 DEF Verify
  <2>4. Undoubted'
    BY <1>2, <2>2 DEF Verify
  <2>5. QED
    BY <2>1, <2>3, <2>4
<1>3. ASSUME NEW p \in Publishers, Compare(p) PROVE PoolInv'
  <2>1. PoolTypeOK' /\ HasAudit' /\ AloneIsAlone' /\ OwnAudit'
    BY <1>3 DEF Compare
  <2>2. Undoubted'
    BY <1>3 DEF Compare
  <2>3. QED
    BY <2>1, <2>2
<1>4. ASSUME NEW p \in Publishers, Replace(p) PROVE PoolInv'
  <2>1. PoolTypeOK' /\ HasAudit' /\ AloneIsAlone'
    BY <1>4 DEF Replace, Put
  <2>2. OwnAudit'
    BY <1>4 DEF Replace, Put
  <2>3. Undoubted'
    BY <1>4 DEF Replace, Put
  <2>4. QED
    BY <2>1, <2>2, <2>3
<1>5. ASSUME NEW p \in Publishers, Sync(p) PROVE PoolInv'
  <2>1. PoolTypeOK' /\ HasAudit' /\ OwnAudit'
    BY <1>5 DEF Sync, Synced
  <2>2. AloneIsAlone' /\ (~doubtful' => \A q \in Publishers : ppc'[q] = "idle")
    <3>1. ~doubtful' => p \in alone \/ ~doubtful
      BY <1>5 DEF Sync
    <3>2. ~doubtful' => \A q \in Publishers : ppc'[q] = "idle"
      BY <1>5, <3>1 DEF Sync
    <3>3. QED
      BY <1>5, <3>2 DEF Sync
  <2>3. Undoubted'
    BY <1>5, <2>2 DEF Sync, Synced
  <2>4. QED
    BY <2>1, <2>2, <2>3
<1>6. ASSUME NEW p \in Publishers, Same(p) PROVE PoolInv'
  <2>1. PoolTypeOK' /\ HasAudit' /\ AloneIsAlone' /\ OwnAudit'
    BY <1>6 DEF Same
  <2>2. Undoubted'
    BY <1>6 DEF Same
  <2>3. QED
    BY <2>1, <2>2
<1>7. ASSUME NEW p \in Publishers, SyncFails(p) PROVE PoolInv'
  <2>1. PoolTypeOK' /\ HasAudit' /\ AloneIsAlone' /\ OwnAudit'
    BY <1>7 DEF SyncFails
  <2>2. Undoubted'
    BY <1>7 DEF SyncFails
  <2>3. QED
    BY <2>1, <2>2
<1>8. ASSUME NEW p \in Publishers, Restore(p) PROVE PoolInv'
  <2>1. PoolTypeOK' /\ HasAudit' /\ AloneIsAlone' /\ OwnAudit'
    BY <1>8 DEF Restore, Put
  <2>2. Undoubted'
    BY <1>8 DEF Restore, Put
  <2>3. QED
    BY <2>1, <2>2
<1>9. ASSUME NEW p \in Publishers, Resync(p) PROVE PoolInv'
  <2>1. PoolTypeOK' /\ HasAudit' /\ AloneIsAlone' /\ OwnAudit'
    BY <1>9 DEF Resync, Synced
  <2>2. Undoubted'
    BY <1>9 DEF Resync, Synced
  <2>3. QED
    BY <2>1, <2>2
<1>10. ASSUME NEW p \in Publishers, Uncertain(p) PROVE PoolInv'
  BY <1>10 DEF Uncertain
<1>11. ASSUME NEW p \in Publishers, Killed(p) PROVE PoolInv'
  <2>1. ~doubtful' => ~doubtful /\ ~CutShort(p)
    BY <1>11, Zenon DEF Killed
  <2>2. PoolTypeOK' /\ HasAudit' /\ AloneIsAlone' /\ OwnAudit'
    BY <1>11, <2>1 DEF Killed
  <2>3. Undoubted'
    BY <1>11, <2>1 DEF Killed
  <2>4. QED
    BY <2>2, <2>3
<1>12. CASE UNCHANGED poolVars
  BY <1>12 DEF poolVars
<1>13. QED
  BY <1>1, <1>2, <1>3, <1>4, <1>5, <1>6, <1>7, <1>8, <1>9, <1>10, <1>11, <1>12, SMT DEF PoolNext

LEMMA PoolInvHolds == PoolSpec => []PoolInv
<1>1. PoolInit => PoolInv
  BY PoolAssumption DEF PoolInit, PoolInv, PoolTypeOK, PoolSteps, HasAudit, AloneIsAlone,
     OwnAudit, Undoubted, Busy, CutShort
<1>2. PoolInv /\ [PoolNext]_poolVars => PoolInv'
  BY PoolStep
<1>3. QED
  BY <1>1, <1>2, PTL DEF PoolSpec

\* What _publish_current_pool_audit last reported as published is still the
\* artifact, unless another publisher was under way or a rollback failed.
THEOREM SettledSurvives == PoolSpec => []PublishedSurvives
<1>1. PoolInv => PublishedSurvives
  BY DEF PoolInv, PoolTypeOK, Undoubted, PublishedSurvives
<1>2. QED
  BY <1>1, PoolInvHolds, PTL

-----------------------------------------------------------------------------
(* The personal book. *)

Books == [fills : Nat, halt : Levels]
BookSteps == {"idle", "state", "event", "fill", "ticket", "job_ticket", "job_state"}

BookTypeOK ==
  /\ book \in Books /\ mine \in [Clients -> Books]
  /\ filed \in Nat /\ died \in [unfiled : Nat, stale : BOOLEAN]
  /\ bpc \in [Clients -> BookSteps]

\* An operation about to write a book knows no fill that is not known, but its own.
MineIsKnown == \A c \in Clients :
  /\ bpc[c] = "state" => mine[c].fills <= FillsKnown + 1
  /\ bpc[c] \in {"event", "job_ticket", "job_state"} => mine[c].fills <= FillsKnown

\* As long as no two overlapped, one operation is under way at most, and it knows
\* all fills.
OneOperation == ~overlapped =>
  /\ \A c, d \in Clients : bpc[c] # "idle" /\ bpc[d] # "idle" => c = d
  /\ \A c \in Clients :
       /\ bpc[c] = "state" => mine[c].fills = FillsKnown + 1
       /\ bpc[c] \in {"event", "job_ticket", "job_state"} => mine[c].fills = FillsKnown
       /\ bpc[c] \in {"fill", "ticket"} => mine[c] = book

\* A ticket that may stand beside a book.
Fits(t, s) == t = "open" => s.halt = "none" /\ ~Holding(s)

\* Then the ticket fits the book that was there before the operation, or the one
\* the daily job is about to write.
TicketFits == ~overlapped =>
  /\ ~died.stale /\ (\A c \in Clients : bpc[c] \in {"idle", "state", "event", "job_ticket"})
       => Fits(ticket, book)
  /\ \A c \in Clients : bpc[c] = "job_state" => Fits(ticket, mine[c])

BookInv == BookTypeOK /\ BookExplainsFills /\ MineIsKnown /\ OneOperation /\ TicketFits

-----------------------------------------------------------------------------
\* The operations between the two writes, and what a step does to their number.
Filling == {c \in Clients : bpc[c] = "fill"}

LEMMA KnownType == ASSUME BookTypeOK PROVE FillsKnown \in Nat
<1>1. IsFiniteSet(Filling)
  BY ClientsAssumption, FS_Subset DEF Filling
<1>2. QED
  BY <1>1, FS_CardinalityType DEF FillsKnown, Filling, BookTypeOK

\* A step that takes no operation into or out of the two writes.
LEMMA SameFilling ==
  ASSUME Filling' = Filling, UNCHANGED <<filed, died.unfiled>>
  PROVE  FillsKnown' = FillsKnown
  BY DEF FillsKnown, Filling

\* The state is written: one more is known.
LEMMA OneFilling ==
  ASSUME BookTypeOK, NEW c \in Clients, bpc[c] # "fill",
         bpc' = [bpc EXCEPT ![c] = "fill"], UNCHANGED <<filed, died>>
  PROVE  FillsKnown' = FillsKnown + 1
<1>1. IsFiniteSet(Filling) /\ c \notin Filling /\ Filling' = Filling \cup {c}
  BY ClientsAssumption, FS_Subset DEF Filling, BookTypeOK
<1>2. Cardinality(Filling') = Cardinality(Filling) + 1
  BY <1>1, FS_AddElement
<1>3. Cardinality(Filling) \in Nat
  BY <1>1, FS_CardinalityType
<1>4. QED
  BY <1>2, <1>3 DEF FillsKnown, Filling, BookTypeOK

\* The fill is filed, or lost for good: no more and no fewer are known.
LEMMA NoMoreFilling ==
  ASSUME BookTypeOK, NEW c \in Clients, NEW to \in BookSteps \ {"fill"}, bpc[c] = "fill",
         bpc' = [bpc EXCEPT ![c] = to],
         filed' + died'.unfiled = filed + died.unfiled + 1
  PROVE  FillsKnown' = FillsKnown
<1>1. IsFiniteSet(Filling) /\ c \in Filling /\ Filling' = Filling \ {c}
  BY ClientsAssumption, FS_Subset DEF Filling, BookTypeOK
<1>2. Cardinality(Filling') = Cardinality(Filling) - 1
  BY <1>1, FS_RemoveElement
<1>3. Cardinality(Filling) \in Nat
  BY <1>1, FS_CardinalityType
<1>4. FillsKnown' = filed' + died'.unfiled + Cardinality(Filling')
  BY DEF FillsKnown, Filling
<1>5. FillsKnown = filed + died.unfiled + Cardinality(Filling)
  BY DEF FillsKnown, Filling
<1>6. QED
  BY <1>2, <1>3, <1>4, <1>5 DEF BookTypeOK

-----------------------------------------------------------------------------
\* Any operation begins with the book it read, or what it made of it.
LEMMA BeginStep ==
  ASSUME BookInv, NEW c \in Clients, NEW to \in {"state", "event", "job_ticket"},
         NEW s \in Books, BookBegin(c, to, s),
         s.fills = IF to = "state" THEN book.fills + 1 ELSE book.fills
  PROVE  BookInv'
<1> USE DEF BookInv, BookBegin
<1>1. FillsKnown \in Nat /\ FillsKnown' = FillsKnown
  <2>1. Filling' = Filling
    BY DEF BookTypeOK, BookSteps, Filling
  <2>2. QED
    BY <2>1, KnownType, SameFilling
<1>2. BookTypeOK'
  BY DEF BookTypeOK, BookSteps
<1>3. ~overlapped' => ~overlapped /\ \A d \in Clients : bpc[d] = "idle"
  BY Zenon
<1>4. BookExplainsFills' /\ MineIsKnown'
  BY <1>1, <1>3 DEF BookTypeOK, BookSteps, Books, BookExplainsFills, MineIsKnown
<1>5. OneOperation'
  BY <1>1, <1>3 DEF BookTypeOK, BookSteps, Books, BookExplainsFills, OneOperation
<1>6. TicketFits'
  BY <1>3 DEF BookTypeOK, BookSteps, TicketFits
<1>7. QED
  BY <1>2, <1>4, <1>5, <1>6

\* The state is written back.
LEMMA WriteBookStep ==
  ASSUME BookInv, NEW c \in Clients, WriteBook(c)
  PROVE  BookInv'
<1> USE DEF BookInv, WriteBook
<1>1. FillsKnown \in Nat
  BY KnownType
<1>2. FillsKnown' = IF bpc[c] = "state" THEN FillsKnown + 1 ELSE FillsKnown
  <2>1. CASE bpc[c] = "state"
    BY <2>1, OneFilling
  <2>2. CASE bpc[c] = "event"
    <3>1. Filling' = Filling
      BY <2>2 DEF BookTypeOK, BookSteps, Filling
    <3>2. QED
      BY <2>2, <3>1, SameFilling
  <2>3. QED
    BY <2>1, <2>2
<1>3. BookTypeOK'
  BY DEF BookTypeOK, BookSteps
<1>4. BookExplainsFills' /\ MineIsKnown'
  BY <1>1, <1>2 DEF BookTypeOK, BookSteps, Books, BookExplainsFills, MineIsKnown, OneOperation
<1>5. OneOperation'
  BY <1>1, <1>2 DEF BookTypeOK, BookSteps, OneOperation
<1>6. TicketFits'
  BY DEF BookTypeOK, BookSteps, OneOperation, TicketFits
<1>7. QED
  BY <1>3, <1>4, <1>5, <1>6

\* The fill is filed.
LEMMA AppendFillStep ==
  ASSUME BookInv, NEW c \in Clients, AppendFill(c)
  PROVE  BookInv'
<1> USE DEF BookInv, AppendFill, BookStep
<1>1. FillsKnown' = FillsKnown
  <2>1. filed' + died'.unfiled = filed + died.unfiled + 1
    BY DEF BookTypeOK
  <2>2. QED
    BY <2>1, NoMoreFilling DEF BookSteps
<1>2. BookTypeOK'
  BY DEF BookTypeOK, BookSteps
<1>3. BookExplainsFills' /\ MineIsKnown'
  BY <1>1 DEF BookTypeOK, BookSteps, BookExplainsFills, MineIsKnown
<1>4. OneOperation' /\ TicketFits'
  BY <1>1 DEF BookTypeOK, BookSteps, OneOperation, TicketFits
<1>5. QED
  BY <1>2, <1>3, <1>4

\* The ticket is written, by an event or by the daily job.
LEMMA TicketStep ==
  ASSUME BookInv, NEW c \in Clients, WriteTicket(c) \/ JobTicket(c)
  PROVE  BookInv'
<1> USE DEF BookInv, WriteTicket, JobTicket, BookStep, BookEnd
<1>1. FillsKnown' = FillsKnown
  <2>1. Filling' = Filling
    BY DEF BookTypeOK, BookSteps, Filling
  <2>2. UNCHANGED <<filed, died.unfiled>>
    BY DEF BookTypeOK
  <2>3. QED
    BY <2>1, <2>2, SameFilling
<1>2. BookTypeOK'
  <2>1. CASE WriteTicket(c)
    BY <2>1 DEF BookTypeOK, BookSteps, Books, EmptyBook, Levels
  <2>2. CASE JobTicket(c)
    BY <2>2 DEF BookTypeOK, BookSteps
  <2>3. QED
    BY <2>1, <2>2
<1>3. BookExplainsFills' /\ MineIsKnown'
  BY <1>1 DEF BookTypeOK, BookSteps, BookExplainsFills, MineIsKnown
<1>4. OneOperation'
  BY <1>1 DEF BookTypeOK, BookSteps, OneOperation
<1>5. Fits(ticket', mine[c])
  BY DEF Tickets, Fits
<1>6. TicketFits'
  BY <1>5 DEF BookTypeOK, BookSteps, OneOperation, TicketFits
<1>7. QED
  BY <1>2, <1>3, <1>4, <1>6

\* The daily job ends with the state.
LEMMA JobStateStep ==
  ASSUME BookInv, NEW c \in Clients, JobState(c)
  PROVE  BookInv'
<1> USE DEF BookInv, JobState, BookEnd
<1>1. FillsKnown \in Nat /\ FillsKnown' = FillsKnown
  <2>1. Filling' = Filling
    BY DEF BookTypeOK, BookSteps, Filling
  <2>2. QED
    BY <2>1, KnownType, SameFilling
<1>2. BookTypeOK'
  BY DEF BookTypeOK, BookSteps, Books, EmptyBook, Levels
<1>3. BookExplainsFills' /\ MineIsKnown'
  BY <1>1 DEF BookTypeOK, BookSteps, BookExplainsFills, MineIsKnown, OneOperation
<1>4. OneOperation'
  BY <1>1 DEF BookTypeOK, BookSteps, OneOperation
<1>5. TicketFits'
  BY DEF BookTypeOK, BookSteps, OneOperation, TicketFits
<1>6. QED
  BY <1>2, <1>3, <1>4, <1>5

LEMMA BookCrashStep ==
  ASSUME BookInv, NEW c \in Clients, BookCrash(c)
  PROVE  BookInv'
<1> USE DEF BookInv, BookCrash, BookEnd
<1>1. FillsKnown' = FillsKnown
  <2>1. CASE bpc[c] = "fill"
    <3>1. filed' + died'.unfiled = filed + died.unfiled + 1
      BY <2>1 DEF BookTypeOK
    <3>2. QED
      BY <2>1, <3>1, NoMoreFilling DEF BookSteps
  <2>2. CASE bpc[c] # "fill"
    <3>1. Filling' = Filling
      BY <2>2 DEF BookTypeOK, BookSteps, Filling
    <3>2. UNCHANGED <<filed, died.unfiled>>
      BY <2>2 DEF BookTypeOK
    <3>3. QED
      BY <3>1, <3>2, SameFilling
  <2>3. QED
    BY <2>1, <2>2
<1>2. BookTypeOK'
  BY DEF BookTypeOK, BookSteps, Books, EmptyBook, Levels
<1>3. BookExplainsFills' /\ MineIsKnown'
  BY <1>1 DEF BookTypeOK, BookSteps, BookExplainsFills, MineIsKnown
<1>4. OneOperation'
  BY <1>1 DEF BookTypeOK, BookSteps, OneOperation
<1>5. ~died'.stale => ~died.stale /\ bpc[c] \notin {"fill", "ticket", "job_state"}
  BY Zenon DEF BookTypeOK
<1>6. TicketFits'
  BY <1>5 DEF BookTypeOK, BookSteps, OneOperation, TicketFits
<1>7. QED
  BY <1>2, <1>3, <1>4, <1>6

-----------------------------------------------------------------------------
LEMMA BookInvHolds == BookSpec => []BookInv
<1>1. BookInit => BookInv
  <2> SUFFICES ASSUME BookInit PROVE BookInv
    OBVIOUS
  <2>1. {c \in Clients : bpc[c] = "fill"} = {}
    BY DEF BookInit
  <2>2. FillsKnown = 0
    BY <2>1, FS_EmptySet DEF BookInit, FillsKnown
  <2>3. QED
    BY <2>2 DEF BookInit, BookInv, BookTypeOK, BookSteps, Books, EmptyBook, Levels,
       BookExplainsFills, MineIsKnown, OneOperation, TicketFits, Fits
<1>2. BookInv /\ [BookNext]_bookVars => BookInv'
  <2> SUFFICES ASSUME BookInv, [BookNext]_bookVars PROVE BookInv'
    OBVIOUS
  <2>1. ASSUME NEW s \in Books, NEW level \in Levels PROVE
          Marked(s, level) \in Books /\ Marked(s, level).fills = s.fills
    BY DEF Books, Marked, Halt, Levels
  <2>2. ASSUME NEW c \in Clients, RecordFill(c) PROVE BookInv'
    <3>1. PICK level \in Levels :
            BookBegin(c, "state", Marked([book EXCEPT !.fills = @ + 1], level))
      BY <2>2 DEF RecordFill
    <3>2. [book EXCEPT !.fills = @ + 1] \in Books
      BY DEF BookInv, BookTypeOK, Books
    <3>3. QED
      BY <2>1, <3>1, <3>2, BeginStep DEF BookInv, BookTypeOK, Books
  <2>3. ASSUME NEW c \in Clients, Resume(c) \/ Skip(c) PROVE BookInv'
    <3>1. [book EXCEPT !.halt = "none"] \in Books
      BY DEF BookInv, BookTypeOK, Books, Levels
    <3>2. QED
      BY <2>3, <3>1, BeginStep DEF Resume, Skip, BookInv, BookTypeOK, Books
  <2>4. ASSUME NEW c \in Clients, Job(c) PROVE BookInv'
    <3>1. PICK level \in Levels : BookBegin(c, "job_ticket", Marked(book, level))
      BY <2>4 DEF Job
    <3>2. QED
      BY <2>1, <3>1, BeginStep DEF BookInv, BookTypeOK
  <2>5. CASE UNCHANGED bookVars
    BY <2>5 DEF bookVars, BookInv, BookTypeOK, BookExplainsFills, FillsKnown, MineIsKnown,
       OneOperation, TicketFits, Fits
  <2>6. QED
    BY <2>2, <2>3, <2>4, <2>5, WriteBookStep, AppendFillStep, TicketStep, JobStateStep,
       BookCrashStep DEF BookNext
<1>3. QED
  BY <1>1, <1>2, PTL DEF BookSpec

\* The book shows no fill that is neither on file nor caught between the two
\* writes of confirm_personal_action, and all of those if no two operations
\* overlapped.
THEOREM FillsExplained == BookSpec => []BookExplainsFills
<1>1. BookInv => BookExplainsFills
  BY DEF BookInv
<1>2. QED
  BY <1>1, BookInvHolds, PTL

\* With nothing under way, the ticket on file does not tell to open a position
\* against a halt or a position of the book (build_personal_execution_ticket).
THEOREM TicketFitsTheBook == BookSpec => []TicketFitsBook
<1>1. BookInv => TicketFitsBook
  BY DEF BookInv, TicketFits, Fits, TicketFitsBook
<1>2. QED
  BY <1>1, BookInvHolds, PTL

-----------------------------------------------------------------------------
(* The alerts. *)

Lines == [id : Alerts, seen : Nat, text : Texts]

MonitorTypeOK ==
  /\ file \in Seq(Lines)
  /\ fileCut \in BOOLEAN /\ (fileCut => file # <<>>)
  /\ sent \in [Alerts -> Nat]
  /\ mpc \in [Monitors -> {"idle", "filing", "posting"}]
  /\ known \in [Monitors -> SUBSET Alerts]
  /\ todo \in [Monitors -> SUBSET Alerts]
  /\ current \in [Monitors -> Alerts]
  /\ seen \in [Monitors -> Nat]

\* The lines a run that read n lines has seen, and those of an id on which its
\* its append went through.
Seen(n) == {i \in 1..Len(file) : i <= n /\ i + Window > n}
RowsOf(a) == {i \in 1..Len(file) : file[i].id = a /\ ~(fileCut /\ i = Len(file))}

\* A run knows the ids of the lines it has seen, as far as they still parse.
SeenIsKnown == \A m \in Monitors : mpc[m] # "idle" =>
  /\ seen[m] <= Len(file)
  /\ \A i \in Seen(seen[m]) : file[i].text = "whole" => file[i].id \in known[m]

\* No alert is filed over a line its run has seen, as long as that parses.
RepeatsUnseen == \A i, j \in 1..Len(file) : i < j /\ file[i].id = file[j].id =>
  file[j].seen < i \/ i + Window <= file[j].seen \/ file[i].text # "whole"

\* Every message sent, or about to be sent, has a line of its own.
Posting(a) == {m \in Monitors : mpc[m] = "posting" /\ current[m] = a}
SentIsFiled == \A a \in Alerts :
  sent[a] + Cardinality(Posting(a)) <= Cardinality(RowsOf(a))

MonitorInv == MonitorTypeOK /\ SeenIsKnown /\ RepeatsUnseen /\ SentIsFiled

LEMMA MonitorSets ==
  ASSUME MonitorTypeOK, NEW a
  PROVE  /\ IsFiniteSet(Posting(a)) /\ Cardinality(Posting(a)) \in Nat
         /\ IsFiniteSet(RowsOf(a)) /\ Cardinality(RowsOf(a)) \in Nat
<1>1. IsFiniteSet(Posting(a))
  BY MonitorsAssumption, FS_Subset DEF Posting
<1>2. IsFiniteSet(1..Len(file))
  BY FS_Interval, LenProperties DEF MonitorTypeOK
<1>3. IsFiniteSet(RowsOf(a))
  BY <1>2, FS_Subset DEF RowsOf
<1>4. QED
  BY <1>1, <1>3, FS_CardinalityType

\* The line an append writes on: the last one if that lacks its newline.
Target == IF fileCut THEN Len(file) ELSE Len(file) + 1

LEMMA AnAlertIsOne == AnAlert \in Alerts
  BY MonitorsAssumption DEF AnAlert

\* An append leaves the lines before its own as they are, and over a line without
\* its newline one that does not parse.
LEMMA LineWritten ==
  ASSUME MonitorTypeOK, NEW m \in Monitors, NEW a \in Alerts, NEW text \in Texts,
         FileLine(m, a, text)
  PROVE  /\ Len(file) \in Nat /\ Target \in 1..Len(file) + 1 /\ Len(file) <= Target
         /\ file' \in Seq(Lines) /\ Len(file') = Target
         /\ \A i \in 1..Target - 1 : file'[i] = file[i]
         /\ file'[Target].id = a /\ file'[Target].seen = seen[m]
<1> DEFINE n == Len(file)
           Line(t) == [id |-> a, seen |-> seen[m], text |-> t]
           both == IF "garbled" \in {text, file[n].text} THEN "garbled" ELSE "torn"
<1>1. /\ n \in Nat /\ Line(text) \in Lines /\ Line(both) \in Lines
      /\ (fileCut => n >= 1)
  BY EmptySeq, LenProperties DEF MonitorTypeOK, Lines, Texts
<1>2. file' = IF fileCut THEN [file EXCEPT ![n] = Line(both)] ELSE Append(file, Line(text))
  BY DEF FileLine, Written
<1> HIDE DEF both
<1>3. CASE fileCut
  <2>1. /\ file' = [file EXCEPT ![n] = Line(both)] /\ n \in 1..n /\ Target = n
    BY <1>1, <1>2, <1>3 DEF Target
  <2>2. file' \in Seq(Lines) /\ Len(file') = n
    BY <1>1, <2>1, ExceptSeq DEF MonitorTypeOK
  <2>3. file'[n] = Line(both) /\ \A i \in 1..n - 1 : file'[i] = file[i]
    BY <1>1, <2>1, LenProperties DEF MonitorTypeOK
  <2>4. QED
    BY <1>1, <2>1, <2>2, <2>3
<1>4. CASE ~fileCut
  <2>1. file' = Append(file, Line(text)) /\ Target = n + 1
    BY <1>2, <1>4 DEF Target
  <2>2. /\ Len(file') = n + 1 /\ file'[n + 1] = Line(text)
        /\ \A i \in 1..n : file'[i] = file[i]
        /\ file' \in Seq(Lines)
    BY <1>1, <2>1, AppendProperties DEF MonitorTypeOK
  <2>3. QED
    BY <1>1, <2>1, <2>2
<1>5. QED
  BY <1>3, <1>4

\* Over a line without its newline nothing that parses is written.
LEMMA GluedIsTorn ==
  ASSUME MonitorTypeOK, NEW m \in Monitors, NEW a \in Alerts, NEW text \in Texts,
         FileLine(m, a, text), fileCut
  PROVE  file'[Target].text # "whole"
<1>1. Len(file) \in 1..Len(file)
  BY EmptySeq, LenProperties DEF MonitorTypeOK
<1>2. file' = [file EXCEPT ![Len(file)] = [id |-> a, seen |-> seen[m],
        text |-> IF "garbled" \in {text, file[Len(file)].text} THEN "garbled" ELSE "torn"]]
  BY DEF FileLine, Written
<1>3. QED
  BY <1>1, <1>2, LenProperties DEF Target, MonitorTypeOK

\* What a run knows stays what it has seen.
LEMMA KnownStep ==
  ASSUME MonitorInv, NEW m \in Monitors, NEW a \in Alerts, NEW text \in Texts,
         FileLine(m, a, text), NEW o \in Monitors, mpc[o] # "idle",
         seen'[o] = seen[o], known'[o] = known[o]
  PROVE  /\ seen'[o] <= Len(file')
         /\ \A i \in Seen(seen[o])' : file'[i].text = "whole" => file'[i].id \in known'[o]
<1> USE DEF MonitorInv
<1>1. /\ Len(file) \in Nat /\ Target \in Nat /\ Len(file') = Target /\ Len(file) <= Target
      /\ \A i \in 1..Target - 1 : file'[i] = file[i]
  BY LineWritten
<1>2. seen[o] \in Nat /\ seen[o] <= Len(file) /\ Window \in Nat
  BY MonitorsAssumption DEF SeenIsKnown, MonitorTypeOK
<1>3. ASSUME NEW i \in Seen(seen[o])', file'[i].text = "whole"
      PROVE  file'[i].id \in known'[o]
  <2>1. i \in 1..Target /\ i <= seen[o] /\ i + Window > seen[o]
    BY <1>1, <1>3 DEF Seen
  <2>2. i # Target
    <3>1. ASSUME i = Target PROVE FALSE
      <4>1. Target = Len(file)
        BY <1>1, <1>2, <2>1, <3>1
      <4>2. fileCut
        BY <1>1, <4>1 DEF Target, MonitorTypeOK
      <4>3. QED
        BY <1>3, <3>1, <4>2, GluedIsTorn
    <3>2. QED
      BY <3>1
  <2>3. i \in Seen(seen[o]) /\ file'[i] = file[i]
    BY <1>1, <1>2, <2>1, <2>2 DEF Seen
  <2>4. QED
    BY <1>3, <2>3 DEF SeenIsKnown
<1>4. QED
  BY <1>1, <1>2, <1>3

\* An append does not repeat a line that its run has seen and that parses.
LEMMA RepeatsStep ==
  ASSUME MonitorInv, NEW m \in Monitors, NEW a \in Alerts, NEW text \in Texts,
         FileLine(m, a, text), mpc[m] # "idle", a \notin known[m]
  PROVE  RepeatsUnseen'
<1> USE DEF MonitorInv
<1>1. /\ Len(file) \in Nat /\ Target \in 1..Len(file) + 1 /\ Len(file') = Target
      /\ \A i \in 1..Target - 1 : file'[i] = file[i]
      /\ file'[Target].id = a /\ file'[Target].seen = seen[m]
  BY LineWritten
<1> SUFFICES ASSUME NEW i \in 1..Target, NEW j \in 1..Target, i < j,
                    file'[i].id = file'[j].id
             PROVE  \/ file'[j].seen < i \/ i + Window <= file'[j].seen
                    \/ file'[i].text # "whole"
  BY <1>1 DEF RepeatsUnseen
<1>2. i \in 1..Len(file) /\ file'[i] = file[i]
  BY <1>1
<1>3. CASE j # Target
  <2>1. j \in 1..Len(file) /\ file'[j] = file[j]
    BY <1>1, <1>3
  <2>2. QED
    BY <1>2, <2>1 DEF RepeatsUnseen
<1>4. CASE j = Target
  <2>1. file[i].id = a /\ file'[j].seen = seen[m]
    BY <1>1, <1>2, <1>4
  <2>2. i \notin Seen(seen[m]) \/ file[i].text # "whole"
    BY <2>1 DEF SeenIsKnown
  <2>3. seen[m] \in Nat /\ Window \in Nat
    BY MonitorsAssumption DEF MonitorTypeOK
  <2>4. QED
    BY <1>2, <2>1, <2>2, <2>3 DEF Seen
<1>5. QED
  BY <1>3, <1>4

\* An append that went through adds its line to those of its id, one that was cut
\* short adds none, and neither takes one away.
LEMMA RowsStep ==
  ASSUME MonitorInv, NEW m \in Monitors, NEW a \in Alerts, NEW text \in Texts,
         FileLine(m, a, text), NEW b \in Alerts
  PROVE  /\ fileCut' => RowsOf(b)' = RowsOf(b)
         /\ ~fileCut' /\ b # a => RowsOf(b)' = RowsOf(b)
         /\ ~fileCut' /\ b = a => RowsOf(b)' = RowsOf(b) \cup {Target}
         /\ Target \notin RowsOf(b)
<1>1. /\ Len(file) \in Nat /\ Target \in 1..Len(file) + 1 /\ Len(file') = Target
      /\ \A i \in 1..Target - 1 : file'[i] = file[i]
      /\ file'[Target].id = a
  BY LineWritten DEF MonitorInv
<1>2. RowsOf(b) = {i \in 1..Target - 1 : file[i].id = b}
  BY <1>1 DEF RowsOf, Target, MonitorInv, MonitorTypeOK
<1>3. RowsOf(b)' = {i \in 1..Target : file'[i].id = b /\ ~(fileCut' /\ i = Target)}
  BY <1>1 DEF RowsOf
<1>4. QED
  BY <1>1, <1>2, <1>3

\* An alert is filed.
LEMMA FileAlertStep ==
  ASSUME MonitorInv, NEW m \in Monitors, FileAlert(m)
  PROVE  MonitorInv'
<1> USE DEF MonitorInv
<1>1. PICK a \in todo[m] \ known[m] :
        /\ mpc[m] = "filing" /\ FileLine(m, a, "whole") /\ fileCut' = FALSE
        /\ current' = [current EXCEPT ![m] = a]
        /\ mpc' = [mpc EXCEPT ![m] = "posting"]
        /\ UNCHANGED <<sent, known, todo, seen>>
  BY DEF FileAlert
<1>2. a \in Alerts /\ a \notin known[m] /\ "whole" \in Texts
  BY <1>1 DEF MonitorTypeOK, Texts
<1>3. file' \in Seq(Lines)
  BY <1>1, <1>2, LineWritten
<1>4. MonitorTypeOK'
  BY <1>1, <1>2, <1>3 DEF MonitorTypeOK
<1>5. SeenIsKnown'
  <2> SUFFICES ASSUME NEW o \in Monitors, mpc'[o] # "idle"
               PROVE  /\ seen'[o] <= Len(file')
                      /\ \A i \in Seen(seen[o])' :
                           file'[i].text = "whole" => file'[i].id \in known'[o]
    BY DEF SeenIsKnown
  <2>1. mpc[o] # "idle" /\ seen'[o] = seen[o] /\ known'[o] = known[o]
    BY <1>1 DEF MonitorTypeOK
  <2>2. QED
    BY <1>1, <1>2, <2>1, KnownStep
<1>6. RepeatsUnseen'
  BY <1>1, <1>2, RepeatsStep
<1>7. SentIsFiled'
  <2> SUFFICES ASSUME NEW b \in Alerts
               PROVE  sent'[b] + Cardinality(Posting(b)') <= Cardinality(RowsOf(b)')
    BY DEF SentIsFiled
  <2>1. /\ IsFiniteSet(Posting(b)) /\ Cardinality(Posting(b)) \in Nat
        /\ IsFiniteSet(RowsOf(b)) /\ Cardinality(RowsOf(b)) \in Nat
    BY MonitorSets
  <2>2. sent[b] \in Nat /\ sent'[b] = sent[b]
        /\ sent[b] + Cardinality(Posting(b)) <= Cardinality(RowsOf(b))
    BY <1>1 DEF MonitorTypeOK, SentIsFiled
  <2>3. CASE b = a
    <3>1. RowsOf(b)' = RowsOf(b) \cup {Target} /\ Target \notin RowsOf(b)
      BY <1>1, <1>2, <2>3, RowsStep
    <3>2. Posting(b)' = Posting(b) \cup {m} /\ m \notin Posting(b)
      BY <1>1, <2>3 DEF Posting, MonitorTypeOK
    <3>3. /\ Cardinality(RowsOf(b)') = Cardinality(RowsOf(b)) + 1
          /\ Cardinality(Posting(b)') = Cardinality(Posting(b)) + 1
      BY <2>1, <3>1, <3>2, FS_AddElement
    <3>4. QED
      BY <2>1, <2>2, <3>3
  <2>4. CASE b # a
    <3>1. RowsOf(b)' = RowsOf(b)
      BY <1>1, <1>2, <2>4, RowsStep
    <3>2. Posting(b)' = Posting(b)
      BY <1>1, <2>4 DEF Posting, MonitorTypeOK
    <3>3. QED
      BY <2>1, <2>2, <3>1, <3>2
  <2>5. QED
    BY <2>3, <2>4
<1>8. QED
  BY <1>4, <1>5, <1>6, <1>7

\* A run goes from posting to another step, and what it posts arrives or not.
LEMMA PostedIsFiled ==
  ASSUME MonitorInv, NEW m \in Monitors, NEW to \in {"idle", "filing"}, mpc[m] = "posting",
         mpc' = [mpc EXCEPT ![m] = to], UNCHANGED <<file, fileCut>>,
         \A o \in Monitors \ {m} : current'[o] = current[o],
         sent' \in {sent, [sent EXCEPT ![current[m]] = @ + 1]}
  PROVE  SentIsFiled'
<1> SUFFICES ASSUME NEW b \in Alerts
             PROVE  sent'[b] + Cardinality(Posting(b)') <= Cardinality(RowsOf(b)')
  BY DEF SentIsFiled
<1>1. /\ IsFiniteSet(Posting(b)) /\ Cardinality(Posting(b)) \in Nat
      /\ IsFiniteSet(RowsOf(b)) /\ Cardinality(RowsOf(b)) \in Nat
  BY MonitorSets DEF MonitorInv
<1>2. /\ sent[b] \in Nat /\ RowsOf(b)' = RowsOf(b)
      /\ sent[b] + Cardinality(Posting(b)) <= Cardinality(RowsOf(b))
  BY DEF MonitorInv, MonitorTypeOK, SentIsFiled, RowsOf
<1>3. CASE b = current[m]
  <2>1. Posting(b)' = Posting(b) \ {m} /\ m \in Posting(b)
    BY <1>3 DEF Posting, MonitorInv, MonitorTypeOK
  <2>2. Cardinality(Posting(b)') = Cardinality(Posting(b)) - 1
    BY <1>1, <2>1, FS_RemoveElement, Zenon
  <2>3. sent'[b] \in {sent[b], sent[b] + 1}
    BY <1>3 DEF MonitorInv, MonitorTypeOK
  <2>4. QED
    BY <1>1, <1>2, <2>2, <2>3
<1>4. CASE b # current[m]
  <2>1. Posting(b)' = Posting(b) /\ sent'[b] = sent[b]
    BY <1>4 DEF Posting, MonitorInv, MonitorTypeOK
  <2>2. QED
    BY <1>2, <2>1
<1>5. QED
  BY <1>3, <1>4

\* Nothing is posted: the runs that post stay the same.
LEMMA NothingPosted ==
  ASSUME MonitorInv, NEW m \in Monitors, NEW to \in {"idle", "filing"}, mpc[m] # "posting",
         mpc' = [mpc EXCEPT ![m] = to], UNCHANGED sent,
         \A o \in Monitors \ {m} : current'[o] = current[o],
         \A a \in Alerts : RowsOf(a)' = RowsOf(a)
  PROVE  SentIsFiled'
<1>1. \A a \in Alerts : Posting(a)' = Posting(a)
  BY DEF Posting, MonitorInv, MonitorTypeOK
<1>2. QED
  BY <1>1 DEF MonitorInv, SentIsFiled

\* A run that ends leaves the types as they are.
LEMMA LeaveTyped ==
  ASSUME MonitorTypeOK, NEW m \in Monitors, Leave(m)
  PROVE  /\ mpc' \in [Monitors -> {"idle", "filing", "posting"}]
         /\ known' \in [Monitors -> SUBSET Alerts] /\ todo' \in [Monitors -> SUBSET Alerts]
         /\ current' \in [Monitors -> Alerts] /\ seen' \in [Monitors -> Nat]
         /\ mpc'[m] = "idle"
         /\ \A o \in Monitors \ {m} :
              /\ mpc'[o] = mpc[o] /\ current'[o] = current[o]
              /\ known'[o] = known[o] /\ seen'[o] = seen[o]
  BY AnAlertIsOne DEF Leave, MonitorTypeOK

\* An append is cut short, and its run ends.
LEMMA TearAlertStep ==
  ASSUME MonitorInv, NEW m \in Monitors, TearAlert(m)
  PROVE  MonitorInv'
<1> USE DEF MonitorInv
<1>1. PICK a \in todo[m] \ known[m], text \in Texts :
        /\ mpc[m] = "filing" /\ FileLine(m, a, text) /\ fileCut' = TRUE
        /\ Leave(m) /\ UNCHANGED sent
  BY DEF TearAlert
<1>2. a \in Alerts /\ a \notin known[m]
  BY <1>1 DEF MonitorTypeOK
<1>3. file' \in Seq(Lines) /\ file' # <<>>
  <2>1. file' \in Seq(Lines) /\ Len(file') = Target /\ Target >= 1
    BY <1>1, <1>2, LineWritten
  <2>2. QED
    BY <2>1
<1>4. MonitorTypeOK'
  BY <1>1, <1>3, LeaveTyped DEF MonitorTypeOK
<1>5. SeenIsKnown'
  <2> SUFFICES ASSUME NEW o \in Monitors, mpc'[o] # "idle"
               PROVE  /\ seen'[o] <= Len(file')
                      /\ \A i \in Seen(seen[o])' :
                           file'[i].text = "whole" => file'[i].id \in known'[o]
    BY DEF SeenIsKnown
  <2>1. mpc[o] # "idle" /\ seen'[o] = seen[o] /\ known'[o] = known[o]
    BY <1>1, LeaveTyped
  <2>2. QED
    BY <1>1, <1>2, <2>1, KnownStep
<1>6. RepeatsUnseen'
  BY <1>1, <1>2, RepeatsStep
<1>7. SentIsFiled'
  <2>1. \A b \in Alerts : RowsOf(b)' = RowsOf(b)
    BY <1>1, <1>2, RowsStep
  <2>2. \A o \in Monitors \ {m} : current'[o] = current[o]
    BY <1>1, LeaveTyped
  <2>3. mpc' = [mpc EXCEPT ![m] = "idle"] /\ mpc[m] # "posting"
    BY <1>1 DEF Leave
  <2>4. QED
    BY <1>1, <2>1, <2>2, <2>3, NothingPosted
<1>8. QED
  BY <1>4, <1>5, <1>6, <1>7

LEMMA MonitorStep ==
  ASSUME MonitorInv, [MonitorNext]_monitorVars
  PROVE  MonitorInv'
<1>1. ASSUME NEW m \in Monitors, ReadKnown(m) PROVE MonitorInv'
  <2>1. MonitorTypeOK'
    <3>1. \A i \in 1..Len(file) : file[i] \in Lines
      BY ElementOfSeq DEF MonitorInv, MonitorTypeOK
    <3>2. OnRecord \subseteq Alerts /\ Len(file) \in Nat
      BY <3>1, LenProperties DEF OnRecord, MonitorInv, MonitorTypeOK, Lines
    <3>3. QED
      BY <1>1, <3>2 DEF ReadKnown, MonitorInv, MonitorTypeOK
  <2>2. SeenIsKnown'
    <3>1. \A i \in Seen(Len(file)) : file[i].text = "whole" => file[i].id \in OnRecord
      BY DEF OnRecord, Seen
    <3>2. Len(file) \in Nat
      BY LenProperties DEF MonitorInv, MonitorTypeOK
    <3>3. QED
      BY <1>1, <3>1, <3>2 DEF ReadKnown, SeenIsKnown, Seen, MonitorInv, MonitorTypeOK
  <2>3. RepeatsUnseen'
    BY <1>1 DEF ReadKnown, RepeatsUnseen, MonitorInv
  <2>4. SentIsFiled'
    <3>1. \A a \in Alerts : RowsOf(a)' = RowsOf(a)
      BY <1>1 DEF ReadKnown, RowsOf
    <3>2. QED
      BY <1>1, <3>1, NothingPosted DEF ReadKnown
  <2>5. QED
    BY <2>1, <2>2, <2>3, <2>4 DEF MonitorInv
<1>2. ASSUME NEW m \in Monitors, PostAlert(m) PROVE MonitorInv'
  <2>1. MonitorTypeOK'
    <3>1. current[m] \in Alerts /\ [sent EXCEPT ![current[m]] = @ + 1] \in [Alerts -> Nat]
      BY DEF MonitorInv, MonitorTypeOK
    <3>2. sent' \in [Alerts -> Nat]
      BY <1>2, <3>1 DEF PostAlert, MonitorInv, MonitorTypeOK
    <3>3. QED
      BY <1>2, <3>1, <3>2 DEF PostAlert, MonitorInv, MonitorTypeOK
  <2>2. SeenIsKnown'
    <3>1. \A o \in Monitors : Seen(seen[o])' = Seen(seen[o])
      BY <1>2 DEF PostAlert, Seen
    <3>2. QED
      BY <1>2, <3>1 DEF PostAlert, SeenIsKnown, MonitorInv, MonitorTypeOK
  <2>3. RepeatsUnseen'
    BY <1>2 DEF PostAlert, RepeatsUnseen, MonitorInv
  <2>4. SentIsFiled'
    BY <1>2, PostedIsFiled DEF PostAlert
  <2>5. QED
    BY <2>1, <2>2, <2>3, <2>4 DEF MonitorInv
<1>3. ASSUME NEW m \in Monitors, MonitorEnds(m) PROVE MonitorInv'
  <2>0. Leave(m) /\ UNCHANGED <<file, fileCut>>
    BY <1>3 DEF MonitorEnds
  <2>1. MonitorTypeOK'
    <3>1. current[m] \in Alerts /\ [sent EXCEPT ![current[m]] = @ + 1] \in [Alerts -> Nat]
      BY DEF MonitorInv, MonitorTypeOK
    <3>2. sent' \in [Alerts -> Nat]
      BY <1>3, <3>1 DEF MonitorEnds, MonitorInv, MonitorTypeOK
    <3>3. QED
      BY <2>0, <3>2, LeaveTyped DEF MonitorInv, MonitorTypeOK
  <2>2. SeenIsKnown'
    <3>1. \A n : Seen(n)' = Seen(n)
      BY <2>0 DEF Seen
    <3>2. QED
      BY <2>0, <3>1, LeaveTyped DEF SeenIsKnown, MonitorInv
  <2>3. RepeatsUnseen'
    BY <2>0 DEF RepeatsUnseen, MonitorInv
  <2>4. SentIsFiled'
    <3>1. mpc' = [mpc EXCEPT ![m] = "idle"]
      BY <2>0 DEF Leave
    <3>2. \A o \in Monitors \ {m} : current'[o] = current[o]
      BY <2>0, LeaveTyped DEF MonitorInv
    <3>3. \A a \in Alerts : RowsOf(a)' = RowsOf(a)
      BY <2>0 DEF RowsOf
    <3>4. QED
      BY <1>3, <2>0, <3>1, <3>2, <3>3, PostedIsFiled, NothingPosted DEF MonitorEnds
  <2>5. QED
    BY <2>1, <2>2, <2>3, <2>4 DEF MonitorInv
<1>4. CASE UNCHANGED monitorVars
  BY <1>4 DEF monitorVars, MonitorInv, MonitorTypeOK, SeenIsKnown, Seen, RepeatsUnseen,
     SentIsFiled, Posting, RowsOf
<1>5. QED
  BY <1>1, <1>2, <1>3, <1>4, FileAlertStep, TearAlertStep DEF MonitorNext

LEMMA MonitorInvHolds == MonitorSpec => []MonitorInv
<1>1. MonitorInit => MonitorInv
  <2> SUFFICES ASSUME MonitorInit PROVE MonitorInv
    OBVIOUS
  <2>1. MonitorTypeOK /\ SeenIsKnown /\ RepeatsUnseen
    <3>1. MonitorTypeOK
      BY AnAlertIsOne, EmptySeq DEF MonitorInit, MonitorTypeOK
    <3>2. Len(file) = 0
      BY EmptySeq DEF MonitorInit
    <3>3. SeenIsKnown /\ RepeatsUnseen
      BY <3>2 DEF MonitorInit, SeenIsKnown, RepeatsUnseen
    <3>4. QED
      BY <3>1, <3>3
  <2>2. \A a \in Alerts : Posting(a) = {} /\ RowsOf(a) = {} /\ sent[a] = 0
    BY DEF MonitorInit, Posting, RowsOf
  <2>3. SentIsFiled
    BY <2>2, FS_EmptySet DEF SentIsFiled
  <2>4. QED
    BY <2>1, <2>3 DEF MonitorInv
<1>2. MonitorInv /\ [MonitorNext]_monitorVars => MonitorInv'
  BY MonitorStep
<1>3. QED
  BY <1>1, <1>2, PTL DEF MonitorSpec

\* An alert that is filed on a second line is one whose first line its run had not
\* read, or one that does not parse; and no alert reaches the receiver more often than
\* its append went through.
THEOREM RepeatsUnseenHolds == MonitorSpec => []RepeatsAreUnseen
<1>1. MonitorInv => RepeatsAreUnseen
  <2> SUFFICES ASSUME MonitorInv, NEW a \in Alerts
               PROVE  sent[a] <= Cardinality(RowsOf(a))
    BY DEF MonitorInv, RepeatsUnseen, RepeatsAreUnseen, RowsOf
  <2>1. Cardinality(Posting(a)) \in Nat /\ Cardinality(RowsOf(a)) \in Nat
    BY MonitorSets DEF MonitorInv
  <2>2. sent[a] \in Nat /\ sent[a] + Cardinality(Posting(a)) <= Cardinality(RowsOf(a))
    BY DEF MonitorInv, MonitorTypeOK, SentIsFiled
  <2>3. QED
    BY <2>1, <2>2
<1>2. QED
  BY <1>1, MonitorInvHolds, PTL

-----------------------------------------------------------------------------
(* The notification of health. *)

\* What a check remembers; which statuses there are does not matter.
HealthTypeOK ==
  /\ hpc \in [Checks -> {"idle", "observed", "notifying", "writing"}]
  /\ DOMAIN observed = Checks /\ DOMAIN previous = Checks

\* As long as nothing was disturbed one check is under way at most; what is on
\* file was heard, and what the check is about to write too.
QuietHeard == quiet =>
  /\ \A j, k \in Checks : hpc[j] # "idle" /\ hpc[k] # "idle" => j = k
  /\ (\A k \in Checks : hpc[k] \in {"idle", "observed", "notifying"}) => heard = state.status
  /\ \A k \in Checks : hpc[k] = "writing" => heard = observed[k]

HealthInv == HealthTypeOK /\ QuietHeard

LEMMA HealthStep ==
  ASSUME HealthInv, [HealthNext]_healthVars
  PROVE  HealthInv'
<1> USE DEF HealthInv, HealthTypeOK, QuietHeard
<1>1. CASE Change
  BY <1>1 DEF Change
<1>2. CASE Hour
  <2>1. state'.status = state.status
    BY <1>2 DEF Hour, Older
  <2>2. QED
    BY <1>2, <2>1 DEF Hour
<1>3. ASSUME NEW k \in Checks, Observe(k) PROVE HealthInv'
  <2>1. quiet' => quiet /\ \A j \in Checks : hpc[j] = "idle"
    BY <1>3, Zenon DEF Observe
  <2>2. QED
    BY <1>3, <2>1 DEF Observe
<1>4. ASSUME NEW k \in Checks, ReadState(k) PROVE HealthInv'
  <2>1. HealthTypeOK'
    BY <1>4 DEF ReadState
  <2>2. hpc'[k] = "writing" => state.status = observed[k]
    BY <1>4 DEF ReadState, Notifies
  <2>3. QuietHeard'
    BY <1>4, <2>2 DEF ReadState
  <2>4. QED
    BY <2>1, <2>3
<1>5. ASSUME NEW k \in Checks, Deliver(k) PROVE HealthInv'
  BY <1>5 DEF Deliver
<1>6. ASSUME NEW k \in Checks, Swallow(k) PROVE HealthInv'
  BY <1>6 DEF Swallow
<1>7. ASSUME NEW k \in Checks, WriteState(k) PROVE HealthInv'
  BY <1>7 DEF WriteState
<1>8. ASSUME NEW k \in Checks, Dies(k) PROVE HealthInv'
  BY <1>8 DEF Dies
<1>9. CASE UNCHANGED healthVars
  BY <1>9 DEF healthVars
<1>10. QED
  BY <1>1, <1>2, <1>3, <1>4, <1>5, <1>6, <1>7, <1>8, <1>9 DEF HealthNext, CheckSteps

\* As long as no post was lost and no check died or overlapped another, the
\* receiver of send_health_alert knows what its state file says.
THEOREM QuietIsHeardAlways == HealthSpec => []QuietIsHeard
<1>1. HealthInit => HealthInv
  BY DEF HealthInit, HealthInv, HealthTypeOK, QuietHeard
<1>2. HealthInv /\ [HealthNext]_healthVars => HealthInv'
  BY HealthStep
<1>3. HealthInv => QuietIsHeard
  BY DEF HealthInv, QuietHeard, QuietIsHeard
<1>4. QED
  BY <1>1, <1>2, <1>3, PTL DEF HealthSpec

-----------------------------------------------------------------------------
(* The caches. *)

Entries == [Symbols -> [version : Nat, age : 0..Life]]

CacheTypeOK ==
  /\ news \in Entries /\ cache \in Entries /\ held \in [Scans -> Entries]
  /\ cpc \in [Scans -> {"idle", "hit", "asking", "writing", "answered"}]
  /\ symbol \in [Scans -> Symbols]
  /\ got \in [Scans -> Nat] /\ fetched \in [Symbols -> Nat]

\* An entry that does not have the news was fetched before they appeared.
OldAs(entries) == \A s \in Symbols :
  entries[s].version = 0 \/ entries[s].version = news[s].version \/ news[s].age <= entries[s].age

OldAsNews == OldAs(cache) /\ \A u \in Scans : OldAs(held[u])

\* As long as nothing was disturbed one scan is under way at most, the file has
\* the newest of what was fetched, or the scan about to write it has.
Newest == ~disturbed =>
  /\ \A u, v \in Scans : cpc[u] # "idle" /\ cpc[v] # "idle" => u = v
  /\ \A s \in Symbols :
       \/ cache[s].version = fetched[s]
       \/ \E u \in Scans : cpc[u] = "writing" /\ symbol[u] = s
  /\ \A u \in Scans : cpc[u] \in {"asking", "writing"} =>
       \A s \in Symbols : held[u][s].version = fetched[s]
  /\ \A u \in Scans : cpc[u] \in {"hit", "asking", "answered"} => got[u] = fetched[symbol[u]]

CacheInv == CacheTypeOK /\ OldAsNews /\ Newest

-----------------------------------------------------------------------------
\* An hour leaves versions as they are and keeps the order of ages.
LEMMA AgedEntries ==
  ASSUME NEW e \in Entries, Life \in Nat
  PROVE  /\ Aged(e) \in Entries
         /\ \A s \in Symbols :
              /\ Aged(e)[s].version = e[s].version
              /\ Aged(e)[s].age = IF e[s].age < Life THEN e[s].age + 1 ELSE e[s].age
  BY DEF Aged, Entries

LEMMA HourStep ==
  ASSUME CacheInv, HourPasses
  PROVE  CacheInv'
<1> USE CacheAssumption DEF CacheInv, HourPasses
<1>1. /\ news' \in Entries /\ cache' \in Entries /\ held' \in [Scans -> Entries]
      /\ \A u \in Scans : held'[u] = Aged(held[u])
  BY AgedEntries DEF CacheTypeOK
<1>2. CacheTypeOK'
  BY <1>1 DEF CacheTypeOK
<1>3. ASSUME NEW e \in Entries, OldAs(e) PROVE OldAs(Aged(e))'
  <2>1. ASSUME NEW s \in Symbols
        PROVE  /\ Aged(e)[s].version = e[s].version /\ news'[s].version = news[s].version
               /\ news[s].age <= e[s].age => news'[s].age <= Aged(e)[s].age
    <3>1. news[s].age \in 0..Life /\ e[s].age \in 0..Life
      BY DEF CacheTypeOK, Entries
    <3>2. /\ Aged(e)[s].version = e[s].version
          /\ Aged(e)[s].age = IF e[s].age < Life THEN e[s].age + 1 ELSE e[s].age
      BY AgedEntries
    <3>3. /\ news'[s].version = news[s].version
          /\ news'[s].age = IF news[s].age < Life THEN news[s].age + 1 ELSE news[s].age
      BY AgedEntries DEF CacheTypeOK
    <3>4. QED
      BY <3>1, <3>2, <3>3
  <2>2. QED
    BY <1>3, <2>1 DEF OldAs, Aged
<1>4. OldAsNews'
  BY <1>1, <1>3 DEF OldAsNews, CacheTypeOK
<1>5. /\ \A s \in Symbols : cache'[s].version = cache[s].version
      /\ \A u \in Scans, s \in Symbols : held'[u][s].version = held[u][s].version
  BY <1>1, AgedEntries DEF CacheTypeOK
<1>6. Newest'
  BY <1>5 DEF Newest
<1>7. QED
  BY <1>2, <1>4, <1>6

LEMMA AppearsStep ==
  ASSUME CacheInv, NEW s \in Symbols, Appears(s)
  PROVE  CacheInv'
<1> USE CacheAssumption DEF CacheInv, Appears
<1>1. CacheTypeOK'
  BY DEF CacheTypeOK, Entries
<1>2. ASSUME NEW e \in Entries, OldAs(e) PROVE OldAs(e)'
  <2> SUFFICES ASSUME NEW t \in Symbols
               PROVE  \/ e[t].version = 0 \/ e[t].version = news'[t].version
                      \/ news'[t].age <= e[t].age
    BY DEF OldAs
  <2>1. CASE t = s
    <3>1. news'[s].age = 0 /\ e[s].age \in 0..Life
      BY DEF CacheTypeOK, Entries
    <3>2. QED
      BY <2>1, <3>1
  <2>2. CASE t # s
    BY <1>2, <2>2 DEF OldAs, CacheTypeOK, Entries
  <2>3. QED
    BY <2>1, <2>2
<1>3. OldAsNews'
  BY <1>2 DEF OldAsNews, CacheTypeOK, OldAs
<1>4. Newest'
  BY DEF Newest
<1>5. QED
  BY <1>1, <1>3, <1>4

LEMMA EvaluateStep ==
  ASSUME CacheInv, NEW u \in Scans, Evaluate(u)
  PROVE  CacheInv'
<1> USE DEF CacheInv
<1>1. PICK s \in Symbols :
        /\ cpc[u] = "idle"
        /\ cpc' = [cpc EXCEPT ![u] = IF Fresh(cache[s]) THEN "hit" ELSE "asking"]
        /\ symbol' = [symbol EXCEPT ![u] = s]
        /\ held' = [held EXCEPT ![u] = cache]
        /\ got' = [got EXCEPT ![u] = cache[s].version]
        /\ disturbed' = (disturbed \/ \E v \in Scans : cpc[v] # "idle")
        /\ UNCHANGED <<news, cache, fetched, asked>>
  BY DEF Evaluate
<1>2. CacheTypeOK'
  <2>1. cache[s].version \in Nat
    BY DEF CacheTypeOK, Entries
  <2>2. QED
    BY <1>1, <2>1 DEF CacheTypeOK
<1>3. OldAsNews'
  BY <1>1 DEF OldAsNews, OldAs, CacheTypeOK
<1>4. ~disturbed' => ~disturbed /\ \A v \in Scans : cpc[v] = "idle"
  BY <1>1, Zenon
<1>5. ~disturbed' => \A t \in Symbols : cache[t].version = fetched[t]
  BY <1>4 DEF Newest
<1>6. Newest'
  BY <1>1, <1>4, <1>5 DEF Newest, CacheTypeOK
<1>7. QED
  BY <1>2, <1>3, <1>6

LEMMA FetchStep ==
  ASSUME CacheInv, NEW u \in Scans, Fetch(u)
  PROVE  CacheInv'
<1> USE CacheAssumption DEF CacheInv, Fetch, NewFile
<1> DEFINE e == [version |-> news[symbol[u]].version, age |-> 0]
<1>1. symbol[u] \in Symbols /\ e \in [version : Nat, age : 0..Life]
  BY DEF CacheTypeOK, Entries
<1>2. held' = [held EXCEPT ![u] = [held[u] EXCEPT ![symbol[u]] = e]]
  OBVIOUS
<1>3. CacheTypeOK'
  BY <1>1, <1>2 DEF CacheTypeOK, Entries
<1>4. \A v \in Scans, s \in Symbols :
        held'[v][s] = IF v = u /\ s = symbol[u] THEN e ELSE held[v][s]
  BY <1>1, <1>2 DEF CacheTypeOK, Entries
<1>5. OldAsNews'
  BY <1>4 DEF OldAsNews, OldAs
<1>6. \A s \in Symbols : fetched'[s] = IF s = symbol[u] THEN e.version ELSE fetched[s]
  BY <1>1 DEF CacheTypeOK
<1>7. cpc[u] = "asking" /\ \A v \in Scans : cpc'[v] = IF v = u THEN "writing" ELSE cpc[v]
  BY DEF CacheTypeOK
<1>8. Newest'
  <2> SUFFICES ASSUME ~disturbed PROVE Newest'
    BY DEF Newest
  <2>1. \A v \in Scans : v # u => cpc[v] = "idle"
    BY <1>7 DEF Newest
  <2>2. \A s \in Symbols : cache[s].version = fetched[s] /\ held[u][s].version = fetched[s]
    BY <1>7, <2>1 DEF Newest
  <2>3. QED
    BY <1>4, <1>6, <1>7, <2>1, <2>2 DEF Newest
<1>9. QED
  BY <1>3, <1>5, <1>8

LEMMA CacheStep ==
  ASSUME CacheInv, [CacheNext]_cacheVars
  PROVE  CacheInv'
<1> USE DEF CacheInv
<1>1. ASSUME NEW u \in Scans, FetchFails(u) PROVE CacheInv'
  BY <1>1 DEF FetchFails, CacheTypeOK, OldAsNews, OldAs, Newest
<1>2. ASSUME NEW u \in Scans, WriteCache(u) PROVE CacheInv'
  <2>1. symbol[u] \in Symbols /\ held[u][symbol[u]].version \in Nat
    BY DEF CacheTypeOK, Entries
  <2>2. CacheTypeOK'
    BY <1>2, <2>1 DEF WriteCache, CacheTypeOK
  <2>3. OldAsNews'
    BY <1>2 DEF WriteCache, OldAsNews, OldAs, CacheTypeOK
  <2>4. Newest'
    BY <1>2, <2>1 DEF WriteCache, Newest, CacheTypeOK
  <2>5. QED
    BY <2>2, <2>3, <2>4
<1>3. ASSUME NEW u \in Scans, WriteFails(u) PROVE CacheInv'
  BY <1>3 DEF WriteFails, CacheTypeOK, OldAsNews, OldAs, Newest
<1>4. ASSUME NEW u \in Scans, Answer(u) PROVE CacheInv'
  <2>1. CacheTypeOK'
    BY <1>4, CacheAssumption DEF Answer, CacheTypeOK, Entries, NoEntry
  <2>2. OldAsNews'
    BY <1>4 DEF Answer, OldAsNews, OldAs, CacheTypeOK, NoEntry
  <2>3. Newest'
    BY <1>4 DEF Answer, Newest, CacheTypeOK
  <2>4. QED
    BY <2>1, <2>2, <2>3
<1>5. CASE UNCHANGED cacheVars
  BY <1>5 DEF cacheVars, CacheTypeOK, OldAsNews, OldAs, Newest
<1>6. QED
  BY <1>1, <1>2, <1>3, <1>4, <1>5, HourStep, AppearsStep, EvaluateStep, FetchStep DEF CacheNext

LEMMA CacheInvHolds == CacheSpec => []CacheInv
<1>1. CacheInit => CacheInv
  <2> SUFFICES ASSUME CacheInit PROVE CacheInv
    OBVIOUS
  <2>1. CacheTypeOK
    <3>1. (CHOOSE s \in Symbols : TRUE) \in Symbols
      BY CacheAssumption
    <3>2. news \in Entries /\ cache \in Entries
      BY CacheAssumption DEF CacheInit, NoEntry, Entries
    <3>3. QED
      BY <3>1, <3>2 DEF CacheInit, CacheTypeOK
  <2>2. OldAsNews /\ Newest
    BY DEF CacheInit, NoEntry, OldAsNews, OldAs, Newest
  <2>3. QED
    BY <2>1, <2>2 DEF CacheInv
<1>2. CacheInv /\ [CacheNext]_cacheVars => CacheInv'
  BY CacheStep
<1>3. QED
  BY <1>1, <1>2, PTL DEF CacheSpec

\* A cache entry that still counts as fresh is not older than news that appeared
\* as long ago as an entry lives.
THEOREM FreshIsNew == CacheSpec => []FreshHidesNoOldNews
<1>1. CacheInv => FreshHidesNoOldNews
  <2> SUFFICES ASSUME CacheInv, NEW s \in Symbols, Fresh(cache[s]), news[s].age >= Life
               PROVE  cache[s].version = news[s].version
    BY DEF FreshHidesNoOldNews
  <2>1. news[s].age \in Nat /\ cache[s].age \in Nat /\ cache[s].version \in Nat /\ Life \in Nat
    BY CacheAssumption DEF CacheInv, CacheTypeOK, Entries
  <2>2. cache[s].age < Life /\ cache[s].version > 0
    BY DEF Fresh
  <2>3. QED
    BY <2>1, <2>2 DEF CacheInv, OldAsNews, OldAs
<1>2. QED
  BY <1>1, CacheInvHolds, PTL

\* Scans that do not overlap are answered the newest payload that was fetched.
THEOREM AnswerIsNewest == CacheSpec => []AnswerIsNewestFetched
<1>1. CacheInv => AnswerIsNewestFetched
  BY DEF CacheInv, Newest, AnswerIsNewestFetched
<1>2. QED
  BY <1>1, CacheInvHolds, PTL

-----------------------------------------------------------------------------
(* The receipts. *)

\* No receipt has a body the store refuses.
ReceiptsTaken == \A p \in Parts : receipt[p] \notin Refused

\* The tables of the store.
Rows ==
  /\ attempts \in [Fetches -> Seq(Attempts)]
  /\ receipt \in [Parts -> Bodies \cup {NoBody}]
  /\ EventsMatchReceipts /\ ReceiptsTaken

\* What a collector remembers is in the store.
IndexSound == \A c \in Collectors : index[c] \subseteq Indexed

\* A fetch past its request has an attempt, and one that is to be promoted has
\* an answer.
HasRow == \A f \in Fetches :
  /\ pc[f] \in {"recorded", "faulty", "ingesting", "ingested"} => attempts[f] # <<>>
  /\ pc[f] \in {"recorded", "ingesting", "ingested"} => Current(f).body \in Bodies
  /\ pc[f] = "faulty" => Current(f).body \notin Bodies

\* What ingesting came to stays true until the event is written.
VerdictTrue == \A f \in Fetches : pc[f] = "ingested" =>
  /\ verdict[f] # "none"
  /\ verdict[f] \in Accepted => receipt[f[2]] = Current(f).body
  /\ verdict[f] = "conflict" => receipt[f[2]] \notin {NoBody, Current(f).body}
  /\ verdict[f] = "invalid" => Current(f).body \in Refused

\* A fetch that asks has a try left.
TriesLeft == \A f \in Fetches :
  /\ pc[f] \in {"idle", "queued", "looking", "loading"} => tries[f] = 0
  /\ pc[f] \in {"trying", "posting"} => tries[f] < MaxTries

ReceiptsInv ==
  /\ TypeOK /\ EventsMatchReceipts /\ ReceiptsTaken /\ ReturnedMeansIndexed
  /\ IndexSound /\ HasRow /\ VerdictTrue /\ TriesLeft

\* No step takes away a row, the body or the event of a row, or a receipt.
Grows ==
  /\ \A f \in Fetches : Len(attempts[f]) <= Len(attempts'[f])
  /\ \A f \in Fetches : \A i \in 1 .. Len(attempts[f]) :
       /\ attempts'[f][i].body = attempts[f][i].body
       /\ attempts[f][i].event # "none" => attempts'[f][i].event = attempts[f][i].event
  /\ \A p \in Parts : receipt[p] # NoBody => receipt'[p] = receipt[p]

\* The last attempt of a fetch stays the last, with its body.
LastStays(f) ==
  /\ attempts[f] # <<>> => attempts'[f] # <<>>
  /\ attempts[f] # <<>> => Current(f)'.body = Current(f).body

-----------------------------------------------------------------------------
\* A fetch has a collector and a part.
LEMMA FetchParts ==
  ASSUME NEW f \in Fetches
  PROVE  f[1] \in Collectors /\ f[2] \in Parts
BY DEF Fetches

\* A non-empty sequence of attempts has a last one.
LEMMA LastRow ==
  ASSUME Rows, NEW f \in Fetches
  PROVE  /\ attempts[f] \in Seq(Attempts) /\ Len(attempts[f]) \in Nat
         /\ \A i \in 1 .. Len(attempts[f]) : attempts[f][i] \in Attempts
         /\ attempts[f] # <<>> => /\ Len(attempts[f]) \in 1 .. Len(attempts[f])
                                  /\ Current(f) \in Attempts
<1>1. attempts[f] \in Seq(Attempts)  BY DEF Rows
<1>2. Len(attempts[f]) \in Nat /\ (attempts[f] # <<>> => Len(attempts[f]) \in Nat \ {0})
  BY <1>1, EmptySeq, LenProperties
<1>3. \A i \in 1 .. Len(attempts[f]) : attempts[f][i] \in Attempts
  BY <1>1, ElementOfSeq
<1> QED  BY <1>1, <1>2, <1>3 DEF Current

\* Closing an attempt keeps its body and the event it has, and adds no event
\* that the receipt contradicts.
LEMMA ClosedRow ==
  ASSUME NEW a \in Attempts, NEW p \in Parts
  PROVE  /\ Closed(a, p) \in Attempts
         /\ Closed(a, p).body = a.body
         /\ a.event # "none" => Closed(a, p) = a
         /\ a.event = "none" =>
              /\ Closed(a, p).event \in {"reused", "rejected", "error"}
              /\ Closed(a, p).event = "reused" <=> a.body = receipt[p]
<1>1. a.event = "none" => Recovery(a, p) \in {"reused", "rejected", "error"}
  BY DEF Recovery
<1>2. Recovery(a, p) = "reused" <=> receipt[p] = a.body
  BY DEF Recovery
<1> QED  BY <1>1, <1>2 DEF Closed, Attempts, Events, Accepted

\* Opening or reading the store.
LEMMA RecoveredRows ==
  ASSUME Rows, NEW f \in Fetches
  PROVE  /\ Recovered[f] \in Seq(Attempts)
         /\ Len(Recovered[f]) = Len(attempts[f])
         /\ \A i \in 1 .. Len(attempts[f]) :
              Recovered[f][i] = Closed(attempts[f][i], f[2])
<1> DEFINE r == [i \in 1 .. Len(attempts[f]) |-> Closed(attempts[f][i], f[2])]
<1>1. Recovered[f] = r  BY DEF Recovered
<1>2. \A i \in 1 .. Len(attempts[f]) : Closed(attempts[f][i], f[2]) \in Attempts
  BY LastRow, FetchParts, ClosedRow
<1>3. r \in [1 .. Len(attempts[f]) -> Attempts]  BY <1>2
<1>4. Len(attempts[f]) \in Nat  BY LastRow
<1>5. r \in Seq(Attempts)  BY <1>3, <1>4, SeqDef
<1>6. DOMAIN r = 1 .. Len(r) /\ Len(r) \in Nat  BY <1>5, LenProperties
<1>7. DOMAIN r = 1 .. Len(attempts[f])  OBVIOUS
<1>8. Len(r) = Len(attempts[f])
  <2> HIDE DEF r
  <2> QED  BY <1>4, <1>6, <1>7
<1> QED  BY <1>1, <1>5, <1>8

\* Writing the event of the last attempt.
LEMMA EventRows ==
  ASSUME Rows, NEW f \in Fetches, attempts[f] # <<>>, NEW e \in Events
  PROVE  /\ WithEvent(f, e) \in [Fetches -> Seq(Attempts)]
         /\ \A g \in Fetches : g # f => WithEvent(f, e)[g] = attempts[g]
         /\ Len(WithEvent(f, e)[f]) = Len(attempts[f])
         /\ \A i \in 1 .. Len(attempts[f]) :
              WithEvent(f, e)[f][i] =
                IF i = Len(attempts[f])
                  THEN [Current(f) EXCEPT !.event = FirstEvent(f, e)]
                  ELSE attempts[f][i]
<1> DEFINE n == Len(attempts[f])
           a == [Current(f) EXCEPT !.event = FirstEvent(f, e)]
           s == [attempts[f] EXCEPT ![n] = a]
<1>1. Current(f) \in Attempts /\ n \in 1 .. n /\ attempts[f] \in Seq(Attempts)
  BY LastRow
<1>2. FirstEvent(f, e) \in Events  BY <1>1 DEF FirstEvent, Attempts
<1>3. a \in Attempts  BY <1>1, <1>2 DEF Attempts
<1>4. /\ s \in Seq(Attempts) /\ Len(s) = n
      /\ \A i \in 1 .. n : s[i] = IF i = n THEN a ELSE attempts[f][i]
  <2> HIDE DEF a
  <2> QED  BY <1>1, <1>3, ExceptSeq
<1>5. WithEvent(f, e) = [attempts EXCEPT ![f] = s]
  BY DEF WithEvent, Current
<1>6. attempts \in [Fetches -> Seq(Attempts)]  BY DEF Rows
<1> HIDE DEF s
<1> QED  BY <1>4, <1>5, <1>6

\* Under steps that let the tables grow, what is indexed stays so.
LEMMA IndexGrows ==
  ASSUME ReceiptsAssumption, Rows, Rows', Grows
  PROVE  Indexed \subseteq Indexed'
<1> SUFFICES ASSUME NEW p \in Parts, p \in Indexed PROVE p \in Indexed'
  BY DEF Indexed, IndexOf
<1>1. PICK f \in Fetches : \E i \in 1 .. Len(attempts[f]) :
        f[2] = p /\ Indexes(attempts[f][i].event) /\ attempts[f][i].body = receipt[p]
  BY DEF Indexed, IndexOf
<1>2. PICK i \in 1 .. Len(attempts[f]) :
        f[2] = p /\ Indexes(attempts[f][i].event) /\ attempts[f][i].body = receipt[p]
  BY <1>1
<1>3. attempts[f][i] \in Attempts /\ Len(attempts[f]) \in Nat  BY LastRow
<1>4. receipt[p] # NoBody
  BY <1>2, <1>3 DEF Attempts, Answers, ReceiptsAssumption
<1>5. receipt'[p] = receipt[p]  BY <1>4 DEF Grows
<1>6. attempts[f][i].event # "none"  BY <1>2 DEF Indexes, Accepted
<1>7. /\ attempts'[f][i].body = attempts[f][i].body
      /\ attempts'[f][i].event = attempts[f][i].event
  BY <1>6 DEF Grows
<1>8. i \in 1 .. Len(attempts'[f])
  <2>1. Len(attempts'[f]) \in Nat  BY LenProperties DEF Rows
  <2> QED  BY <1>3, <2>1 DEF Grows
<1> QED  BY <1>2, <1>5, <1>7, <1>8 DEF Indexed, IndexOf

\* A step that leaves the tables alone.
LEMMA SameGrows ==
  ASSUME Rows, UNCHANGED store
  PROVE  Rows' /\ Grows /\ \A f \in Fetches : LastStays(f)
<1>1. Rows'  BY DEF Rows, EventsMatchReceipts, ReceiptsTaken, store
<1>2. \A f \in Fetches : LastStays(f)  BY DEF LastStays, Current, store
<1>3. \A f \in Fetches : Len(attempts[f]) \in Nat  BY LastRow
<1>4. Grows  BY <1>3 DEF Grows, store
<1> QED  BY <1>1, <1>2, <1>4

\* A step that opens or reads the store.
LEMMA RecoveryGrows ==
  ASSUME ReceiptsAssumption, Rows, attempts' = Recovered, receipt' = receipt
  PROVE  Rows' /\ Grows /\ \A f \in Fetches : LastStays(f)
<1>1. \A f \in Fetches :
        /\ attempts'[f] \in Seq(Attempts)
        /\ Len(attempts'[f]) = Len(attempts[f])
        /\ \A i \in 1 .. Len(attempts[f]) :
             attempts'[f][i] = Closed(attempts[f][i], f[2])
  BY RecoveredRows
<1>2. attempts' \in [Fetches -> Seq(Attempts)]
  <2>1. attempts' = [f \in Fetches |-> Recovered[f]]  BY DEF Recovered
  <2> QED  BY <1>1, <2>1
<1>3. \A f \in Fetches : \A i \in 1 .. Len(attempts[f]) :
        /\ attempts[f][i] \in Attempts
        /\ attempts'[f][i].body = attempts[f][i].body
        /\ attempts[f][i].event # "none" => attempts'[f][i] = attempts[f][i]
        /\ attempts[f][i].event = "none" =>
             /\ attempts'[f][i].event \in {"reused", "rejected", "error"}
             /\ attempts'[f][i].event = "reused" <=> attempts[f][i].body = receipt[f[2]]
  BY <1>1, LastRow, FetchParts, ClosedRow
<1>4. EventsMatchReceipts'
  <2> SUFFICES ASSUME NEW f \in Fetches, NEW i \in 1 .. Len(attempts[f])
      PROVE  LET a == attempts'[f][i] IN
             /\ a.event \in Accepted => a.body = receipt[f[2]]
             /\ a.event = "conflict" => receipt[f[2]] \notin {NoBody, a.body}
    BY <1>1 DEF EventsMatchReceipts, Accepted
  <2>1. CASE attempts[f][i].event # "none"
    BY <2>1, <1>3 DEF Rows, EventsMatchReceipts
  <2>2. CASE attempts[f][i].event = "none"
    BY <2>2, <1>3 DEF Accepted
  <2> QED  BY <2>1, <2>2
<1>5. Rows'  BY <1>2, <1>4 DEF Rows, ReceiptsTaken
<1>6. \A f \in Fetches : Len(attempts[f]) \in Nat  BY LastRow
<1>7. Grows  BY <1>1, <1>3, <1>6 DEF Grows
<1>8. ASSUME NEW f \in Fetches PROVE LastStays(f)
  <2>1. CASE attempts[f] # <<>>
    <3>1. Len(attempts[f]) \in 1 .. Len(attempts[f])  BY <2>1, LastRow
    <3>2. Len(attempts'[f]) # 0  BY <3>1, <1>1, <1>6
    <3>3. attempts'[f] # <<>>  BY <3>2, EmptySeq
    <3>4. Current(f)'.body = Current(f).body  BY <3>1, <1>1, <1>3 DEF Current
    <3> QED  BY <3>3, <3>4 DEF LastStays
  <2> QED  BY <2>1 DEF LastStays
<1> QED  BY <1>5, <1>7, <1>8

\* A step that writes the event of an attempt.
LEMMA EventGrows ==
  ASSUME ReceiptsAssumption, Rows, NEW f \in Fetches, attempts[f] # <<>>,
         NEW e \in Events \ {"none"},
         attempts' = WithEvent(f, e), receipt' = receipt,
         Current(f).event = "none" =>
           /\ e \in Accepted => receipt[f[2]] = Current(f).body
           /\ e = "conflict" => receipt[f[2]] \notin {NoBody, Current(f).body}
  PROVE  /\ Rows' /\ Grows /\ \A g \in Fetches : LastStays(g)
         /\ Len(attempts'[f]) = Len(attempts[f])
         /\ Current(f)'.event = FirstEvent(f, e)
<1> DEFINE n == Len(attempts[f])
<1>1. /\ attempts' \in [Fetches -> Seq(Attempts)]
      /\ \A g \in Fetches : g # f => attempts'[g] = attempts[g]
      /\ Len(attempts'[f]) = n
      /\ \A i \in 1 .. n :
           attempts'[f][i] = IF i = n
                               THEN [Current(f) EXCEPT !.event = FirstEvent(f, e)]
                               ELSE attempts[f][i]
  BY EventRows
<1>2. n \in 1 .. n /\ Current(f) \in Attempts /\ n \in Nat  BY LastRow
<1>3. /\ attempts'[f][n].body = Current(f).body
      /\ attempts'[f][n].event = FirstEvent(f, e)
  BY <1>1, <1>2 DEF Attempts
<1>4. \A i \in 1 .. n : i # n => attempts'[f][i] = attempts[f][i]
  BY <1>1
<1>5. Current(f).event # "none" => FirstEvent(f, e) = Current(f).event
  BY DEF FirstEvent
<1>6. Current(f).event = "none" => FirstEvent(f, e) = e
  BY DEF FirstEvent
<1>7. Current(f) = attempts[f][n]  BY DEF Current
<1>8. EventsMatchReceipts'
  <2> SUFFICES ASSUME NEW g \in Fetches, NEW i \in 1 .. Len(attempts'[g])
      PROVE  LET a == attempts'[g][i] IN
             /\ a.event \in Accepted => a.body = receipt[g[2]]
             /\ a.event = "conflict" => receipt[g[2]] \notin {NoBody, a.body}
    BY DEF EventsMatchReceipts, Accepted
  <2>1. CASE g # f \/ i # n
    <3>1. i \in 1 .. Len(attempts[g]) /\ attempts'[g][i] = attempts[g][i]
      BY <2>1, <1>1, <1>4
    <3> QED  BY <3>1 DEF Rows, EventsMatchReceipts
  <2>2. CASE g = f /\ i = n
    <3>1. CASE Current(f).event = "none"
      BY <2>2, <3>1, <1>3, <1>6
    <3>2. CASE Current(f).event # "none"
      BY <2>2, <3>2, <1>2, <1>3, <1>5, <1>7 DEF Rows, EventsMatchReceipts
    <3> QED  BY <3>1, <3>2
  <2> QED  BY <2>1, <2>2
<1>9. Rows'  BY <1>1, <1>8 DEF Rows, ReceiptsTaken
<1>10. \A g \in Fetches : Len(attempts[g]) \in Nat  BY LastRow
<1>11. Grows
  <2>1. \A g \in Fetches : Len(attempts[g]) <= Len(attempts'[g])
    BY <1>1, <1>10
  <2>2. ASSUME NEW g \in Fetches, NEW i \in 1 .. Len(attempts[g])
        PROVE  /\ attempts'[g][i].body = attempts[g][i].body
               /\ attempts[g][i].event # "none" =>
                    attempts'[g][i].event = attempts[g][i].event
    <3>1. CASE g # f \/ i # n  BY <3>1, <1>1, <1>4
    <3>2. CASE g = f /\ i = n  BY <3>2, <1>3, <1>5, <1>7
    <3> QED  BY <3>1, <3>2
  <2> QED  BY <2>1, <2>2 DEF Grows
<1>12. \A g \in Fetches : LastStays(g)
  <2>1. attempts'[f] # <<>>  BY <1>1, <1>2, EmptySeq
  <2>2. LastStays(f)  BY <2>1, <1>1, <1>3 DEF LastStays, Current
  <2>3. \A g \in Fetches : g # f => LastStays(g)
    BY <1>1 DEF LastStays, Current
  <2> QED  BY <2>2, <2>3
<1>13. Current(f)'.event = FirstEvent(f, e)  BY <1>1, <1>3 DEF Current
<1> QED  BY <1>1, <1>9, <1>11, <1>12, <1>13

\* A step that records an answer.
LEMMA RecordGrows ==
  ASSUME ReceiptsAssumption, Rows, NEW f \in Fetches, NEW b \in Answers,
         attempts' = [attempts EXCEPT ![f] = Append(@, [body |-> b, event |-> "none"])],
         receipt' = receipt
  PROVE  /\ Rows' /\ Grows
         /\ \A g \in Fetches : g # f => LastStays(g)
         /\ attempts'[f] # <<>> /\ Current(f)'.body = b
<1> DEFINE row == [body |-> b, event |-> "none"]
           n == Len(attempts[f])
<1>1. row \in Attempts  BY DEF Attempts, Events
<1>2. attempts[f] \in Seq(Attempts) /\ n \in Nat  BY LastRow
<1>3. attempts' = [attempts EXCEPT ![f] = Append(attempts[f], row)]
  OBVIOUS
<1>4. /\ Append(attempts[f], row) \in Seq(Attempts)
      /\ Append(attempts[f], row) # <<>>
      /\ Len(Append(attempts[f], row)) = n + 1
      /\ \A i \in 1 .. n : Append(attempts[f], row)[i] = attempts[f][i]
      /\ Append(attempts[f], row)[n + 1] = row
  <2> HIDE DEF row
  <2> QED  BY <1>1, <1>2, AppendProperties
<1> HIDE DEF row
<1>5. attempts \in [Fetches -> Seq(Attempts)]  BY DEF Rows
<1>6. /\ attempts' \in [Fetches -> Seq(Attempts)]
      /\ attempts'[f] = Append(attempts[f], row)
      /\ \A g \in Fetches : g # f => attempts'[g] = attempts[g]
  BY <1>3, <1>4, <1>5
<1>7. attempts'[f] # <<>> /\ Current(f)' = row
  BY <1>4, <1>6 DEF Current
<1>8. row.body = b /\ row.event = "none"  BY DEF row
<1>9. EventsMatchReceipts'
  <2> SUFFICES ASSUME NEW g \in Fetches, NEW i \in 1 .. Len(attempts'[g])
      PROVE  LET a == attempts'[g][i] IN
             /\ a.event \in Accepted => a.body = receipt[g[2]]
             /\ a.event = "conflict" => receipt[g[2]] \notin {NoBody, a.body}
    BY DEF EventsMatchReceipts, Accepted
  <2>1. CASE g = f /\ i = n + 1
    BY <2>1, <1>4, <1>6, <1>8 DEF Accepted
  <2>2. CASE ~(g = f /\ i = n + 1)
    <3>1. i \in 1 .. Len(attempts[g]) /\ attempts'[g][i] = attempts[g][i]
      BY <2>2, <1>2, <1>4, <1>6
    <3> QED  BY <3>1 DEF Rows, EventsMatchReceipts
  <2> QED  BY <2>1, <2>2
<1>10. Rows'  BY <1>6, <1>9 DEF Rows, ReceiptsTaken
<1>11. \A g \in Fetches : Len(attempts[g]) \in Nat  BY LastRow
<1>12. Grows
  <2>1. \A g \in Fetches : Len(attempts[g]) <= Len(attempts'[g])
    BY <1>4, <1>6, <1>11
  <2>2. \A g \in Fetches : \A i \in 1 .. Len(attempts[g]) :
          attempts'[g][i] = attempts[g][i]
    BY <1>4, <1>6
  <2> QED  BY <2>1, <2>2 DEF Grows
<1>13. \A g \in Fetches : g # f => LastStays(g)
  BY <1>6 DEF LastStays, Current
<1> QED  BY <1>7, <1>8, <1>10, <1>12, <1>13

\* A step that stores a body as the receipt of a part that has none.
LEMMA IngestGrows ==
  ASSUME ReceiptsAssumption, Rows, attempts' = attempts,
         NEW p \in Parts, NEW b \in Bodies \ Refused, receipt[p] = NoBody,
         receipt' = [receipt EXCEPT ![p] = b]
  PROVE  Rows' /\ Grows /\ \A f \in Fetches : LastStays(f)
<1>1. /\ receipt' \in [Parts -> Bodies \cup {NoBody}]
      /\ receipt'[p] = b
      /\ \A q \in Parts : q # p => receipt'[q] = receipt[q]
  BY DEF Rows
<1>2. EventsMatchReceipts'
  <2> SUFFICES ASSUME NEW f \in Fetches, NEW i \in 1 .. Len(attempts[f])
      PROVE  LET a == attempts[f][i] IN
             /\ a.event \in Accepted => a.body = receipt'[f[2]]
             /\ a.event = "conflict" => receipt'[f[2]] \notin {NoBody, a.body}
    BY DEF EventsMatchReceipts, Accepted
  <2>1. attempts[f][i].body # NoBody
    BY LastRow DEF Attempts, Answers, ReceiptsAssumption
  <2>2. CASE f[2] = p  BY <2>1, <2>2 DEF Rows, EventsMatchReceipts
  <2>3. CASE f[2] # p  BY <2>3, <1>1, FetchParts DEF Rows, EventsMatchReceipts
  <2> QED  BY <2>2, <2>3
<1>3. Rows'  BY <1>1, <1>2 DEF Rows, ReceiptsTaken
<1>4. \A f \in Fetches : Len(attempts[f]) \in Nat  BY LastRow
<1>5. \A q \in Parts : receipt[q] # NoBody => receipt'[q] = receipt[q]
  BY <1>1
<1>6. Grows  BY <1>4, <1>5 DEF Grows
<1>7. \A f \in Fetches : LastStays(f)  BY DEF LastStays, Current
<1> QED  BY <1>3, <1>6, <1>7

-----------------------------------------------------------------------------
LEMMA InitInv == ASSUME ReceiptsAssumption, Init PROVE ReceiptsInv
<1>1. attempts \in [Fetches -> Seq(Attempts)]  BY EmptySeq DEF Init
<1>2. TypeOK  BY <1>1 DEF Init, TypeOK, ReceiptsAssumption
<1>3. EventsMatchReceipts /\ ReturnedMeansIndexed
  <2>1. \A f \in Fetches : 1 .. Len(attempts[f]) = {}
    BY EmptySeq DEF Init
  <2> QED  BY <2>1 DEF Init, EventsMatchReceipts, ReturnedMeansIndexed
<1>4. IndexSound /\ HasRow /\ VerdictTrue /\ TriesLeft /\ ReceiptsTaken
  BY DEF Init, IndexSound, HasRow, VerdictTrue, TriesLeft, ReceiptsTaken, ReceiptsAssumption
<1> QED  BY <1>2, <1>3, <1>4 DEF ReceiptsInv

LEMMA InvRows == ASSUME ReceiptsInv PROVE Rows
BY DEF ReceiptsInv, TypeOK, Rows

\* Steps of a worker that leave the tables alone.
LEMMA QuietSteps ==
  ASSUME ReceiptsAssumption, ReceiptsInv, NEW f \in Fetches,
         Invoke(f) \/ StartLoading(f) \/ LoadFails(f) \/ UseIndex(f) \/ Post(f)
           \/ Promote(f)
  PROVE  ReceiptsInv'
<1>1. UNCHANGED store
  BY DEF Invoke, StartLoading, LoadFails, UseIndex, Post, Promote
<1>2. Rows /\ Rows' /\ Grows /\ \A g \in Fetches : LastStays(g)
  BY <1>1, InvRows, SameGrows
<1>3. Indexed \subseteq Indexed'  BY <1>2, IndexGrows
<1>4. EventsMatchReceipts' /\ ReceiptsTaken'  BY <1>2 DEF Rows
<1>5. f[1] \in Collectors /\ f[2] \in Parts  BY FetchParts
<1> USE DEF ReceiptsInv, Move, Fail, store, local, Ended
<1>6. TypeOK'
  <2>1. attempts' \in [Fetches -> Seq(Attempts)]  BY <1>2 DEF Rows
  <2>2. receipt' = receipt /\ runs' = runs /\ tries' = tries /\ verdict' = verdict /\ up' = up
    BY DEF Invoke, StartLoading, LoadFails, UseIndex, Post, Promote
  <2>3. pc[f] # "idle" /\ f[1] \in up
    BY DEF TypeOK, Invoke, StartLoading, LoadFails, UseIndex, Post, Promote
  <2>4. cancelled' \subseteq up
    <3>1. cancelled' = cancelled \/ cancelled' = cancelled \cup {f[1]}
      BY DEF Invoke, StartLoading, LoadFails, UseIndex, Post, Promote, Conclude
    <3> QED  BY <2>3, <3>1 DEF TypeOK
  <2>5. loading' \in [Collectors -> {"none", "loading", "set"}]
    <3>1. loading' = loading \/ \E l \in {"none", "loading", "set"} :
             loading' = [loading EXCEPT ![f[1]] = l]
      BY DEF Invoke, StartLoading, LoadFails, UseIndex, Post, Promote
    <3> QED  BY <3>1, <1>5 DEF TypeOK
  <2>6. index' \in [Collectors -> SUBSET Parts]
    <3>1. index' = index \/ index' = [index EXCEPT ![f[1]] = @ \cup {f[2]}]
      BY DEF Invoke, StartLoading, LoadFails, UseIndex, Post, Promote, Conclude
    <3>2. index[f[1]] \cup {f[2]} \in SUBSET Parts  BY <1>5 DEF TypeOK
    <3> QED  BY <3>1, <3>2, <1>5 DEF TypeOK
  <2>7. \E to \in Ended \cup {"looking", "loading", "trying", "posting", "ingesting"} :
          pc' = [pc EXCEPT ![f] = to]
    BY DEF Invoke, StartLoading, LoadFails, UseIndex, Post, Promote, Conclude
  <2>8. PICK to \in Ended \cup {"looking", "loading", "trying", "posting", "ingesting"} :
          pc' = [pc EXCEPT ![f] = to]
    BY <2>7
  <2>9. /\ pc' \in [Fetches -> Ended \cup {"idle", "queued", "looking", "loading",
                     "trying", "posting", "recorded", "faulty", "ingesting", "ingested"}]
        /\ \A g \in Fetches : pc'[g] = "idle" <=> pc[g] = "idle"
    BY <2>3, <2>8 DEF TypeOK
  <2> QED  BY <2>1, <2>2, <2>4, <2>5, <2>6, <2>9 DEF TypeOK
<1>7. f[2] \in Indexed \/ ~(Promote(f) /\ Current(f).event \in Accepted)
  <2> SUFFICES ASSUME Promote(f), Current(f).event \in Accepted PROVE f[2] \in Indexed
    OBVIOUS
  <2>1. attempts[f] # <<>>  BY DEF HasRow, Promote
  <2>2. Len(attempts[f]) \in 1 .. Len(attempts[f])  BY <2>1, <1>2, LastRow
  <2>3. Current(f).body = receipt[f[2]]
    BY <2>2 DEF EventsMatchReceipts, Current
  <2> QED  BY <2>2, <2>3, <1>5 DEF Indexed, IndexOf, Indexes, Current
<1>8. ReturnedMeansIndexed' /\ IndexSound'
  <2>1. \/ index' = index
        \/ f[2] \in Indexed /\ index' = [index EXCEPT ![f[1]] = @ \cup {f[2]}]
    BY <1>7 DEF Invoke, StartLoading, LoadFails, UseIndex, Post, Promote, Conclude
  <2>2. IndexSound'
    <3> SUFFICES ASSUME NEW c \in Collectors PROVE index'[c] \subseteq Indexed'
      BY DEF IndexSound
    <3>1. index[c] \subseteq Indexed  BY DEF IndexSound
    <3>2. index'[c] \subseteq Indexed  BY <2>1, <3>1 DEF TypeOK
    <3> QED  BY <3>2, <1>3
  <2>3. \A g \in Fetches : g # f => pc'[g] = pc[g]
    BY DEF TypeOK, Invoke, StartLoading, LoadFails, UseIndex, Post, Promote, Conclude
  <2>4. pc'[f] = "done" => f[2] \in Indexed
    BY <1>5, <1>7 DEF TypeOK, IndexSound, Invoke, StartLoading, LoadFails, UseIndex, Post,
      Promote, Conclude
  <2>5. ReturnedMeansIndexed'
    BY <2>3, <2>4, <1>3 DEF ReturnedMeansIndexed
  <2> QED  BY <2>2, <2>5
<1>9. HasRow'
  BY <1>1 DEF TypeOK, HasRow, Current, Invoke, StartLoading, LoadFails, UseIndex, Post,
    Promote, Conclude
<1>10. VerdictTrue'
  BY <1>1 DEF TypeOK, VerdictTrue, Current, Accepted, Invoke, StartLoading, LoadFails,
    UseIndex, Post, Promote, Conclude
<1>11. TriesLeft'
  BY DEF TypeOK, TriesLeft, Invoke, StartLoading, LoadFails, UseIndex, Post, Promote,
    Conclude, ReceiptsAssumption
<1> QED  BY <1>4, <1>6, <1>8, <1>9, <1>10, <1>11

\* The request.
LEMMA RecordStep ==
  ASSUME ReceiptsAssumption, ReceiptsInv, NEW f \in Fetches, Record(f)
  PROVE  ReceiptsInv'
<1>1. PICK b \in Answers :
        /\ Move(f, "posting", IF b \in Bodies THEN "recorded" ELSE "faulty")
        /\ attempts' = [attempts EXCEPT ![f] =
                          Append(@, [body |-> b, event |-> "none"])]
        /\ tries' = [tries EXCEPT ![f] = @ + 1]
        /\ cancelled' = IF b = Lost /\ tries'[f] = MaxTries
                          THEN cancelled \cup {f[1]} ELSE cancelled
        /\ UNCHANGED <<receipt, up, loading, index, runs, verdict>>
  BY DEF Record
<1>2. /\ Rows' /\ Grows
      /\ \A g \in Fetches : g # f => LastStays(g)
      /\ attempts'[f] # <<>> /\ Current(f)'.body = b
  BY <1>1, InvRows, RecordGrows
<1>3. Indexed \subseteq Indexed'  BY <1>2, InvRows, IndexGrows
<1>4. EventsMatchReceipts' /\ ReceiptsTaken'  BY <1>2 DEF Rows
<1>5. f[1] \in Collectors /\ f[2] \in Parts  BY FetchParts
<1> USE DEF ReceiptsInv, Move
<1>6. tries[f] \in Nat /\ tries[f] < MaxTries
  BY <1>1 DEF TypeOK, TriesLeft, ReceiptsAssumption
<1>7. TypeOK'
  <2>1. attempts' \in [Fetches -> Seq(Attempts)]  BY <1>2 DEF Rows
  <2>2. tries' \in [Fetches -> 0 .. MaxTries]
    BY <1>1, <1>6 DEF TypeOK, ReceiptsAssumption
  <2>3. cancelled' \subseteq up  BY <1>1 DEF TypeOK
  <2>4. /\ pc' \in [Fetches -> Ended \cup {"idle", "queued", "looking", "loading",
                     "trying", "posting", "recorded", "faulty", "ingesting", "ingested"}]
        /\ \A g \in Fetches : pc'[g] = "idle" <=> pc[g] = "idle"
    BY <1>1 DEF TypeOK
  <2> QED  BY <2>1, <2>2, <2>3, <2>4, <1>1 DEF TypeOK
<1>8. ReturnedMeansIndexed' /\ IndexSound'
  <2>1. \A g \in Fetches : pc'[g] = "done" => pc[g] = "done"
    BY <1>1 DEF TypeOK
  <2> QED  BY <2>1, <1>1, <1>3 DEF ReturnedMeansIndexed, IndexSound
<1>9. \A g \in Fetches : g # f => pc'[g] = pc[g] /\ tries'[g] = tries[g]
  BY <1>1 DEF TypeOK
<1>10. pc'[f] \in {"recorded", "faulty"} /\ (pc'[f] = "recorded" <=> b \in Bodies)
  BY <1>1 DEF TypeOK
<1>11. HasRow'
  BY <1>2, <1>9, <1>10 DEF HasRow, LastStays
<1>12. VerdictTrue'
  BY <1>1, <1>2, <1>9, <1>10 DEF VerdictTrue, HasRow, LastStays, Accepted
<1>13. TriesLeft'  BY <1>9, <1>10 DEF TriesLeft
<1> QED  BY <1>4, <1>7, <1>8, <1>11, <1>12, <1>13

\* Storing the receipt.
LEMMA IngestStep ==
  ASSUME ReceiptsAssumption, ReceiptsInv, NEW f \in Fetches, Ingest(f)
  PROVE  ReceiptsInv'
<1> DEFINE body == Current(f).body
           outcome == Ingested(f[2], body)
<1>1. f[1] \in Collectors /\ f[2] \in Parts  BY FetchParts
<1>2. body \in Bodies /\ attempts[f] # <<>>
  BY DEF ReceiptsInv, HasRow, Ingest, Move
<1>3. /\ pc[f] = "ingesting" /\ pc' = [pc EXCEPT ![f] = "ingested"]
      /\ verdict' = [verdict EXCEPT ![f] = outcome]
      /\ receipt' = IF outcome = "stored" THEN [receipt EXCEPT ![f[2]] = body] ELSE receipt
      /\ UNCHANGED <<attempts, local, tries>>
  BY DEF Ingest, Move
<1>4. /\ outcome \in {"stored", "reused", "conflict", "invalid"}
      /\ outcome = "stored" => receipt[f[2]] = NoBody /\ body \notin Refused
      /\ outcome = "reused" => receipt[f[2]] = body
      /\ outcome = "conflict" => receipt[f[2]] \notin {NoBody, body}
      /\ outcome = "invalid" => body \in Refused
  BY DEF Ingested
<1> HIDE DEF outcome, body
<1>5. Rows' /\ Grows /\ \A g \in Fetches : LastStays(g)
  <2>1. CASE outcome = "stored"
    BY <2>1, <1>1, <1>2, <1>3, <1>4, InvRows, IngestGrows
  <2>2. CASE outcome # "stored"
    BY <2>2, <1>3, InvRows, SameGrows DEF store
  <2> QED  BY <2>1, <2>2
<1>6. Indexed \subseteq Indexed'  BY <1>5, InvRows, IndexGrows
<1>7. EventsMatchReceipts' /\ ReceiptsTaken'  BY <1>5 DEF Rows
<1> USE DEF ReceiptsInv, local
<1>8. /\ receipt[f[2]] # NoBody => receipt'[f[2]] = receipt[f[2]]
      /\ outcome = "stored" => receipt'[f[2]] = body
  BY <1>1, <1>3, <1>4 DEF TypeOK
<1>9. TypeOK'
  <2>1. receipt' \in [Parts -> Bodies \cup {NoBody}]  BY <1>5 DEF Rows
  <2>2. verdict' \in [Fetches -> {"none", "stored", "reused", "conflict", "invalid"}]
    BY <1>3, <1>4 DEF TypeOK
  <2> QED  BY <2>1, <2>2, <1>3 DEF TypeOK
<1>10. \A g \in Fetches : g # f => pc'[g] = pc[g] /\ verdict'[g] = verdict[g]
  BY <1>3 DEF TypeOK
<1>11. pc'[f] = "ingested" /\ verdict'[f] = outcome
  BY <1>3 DEF TypeOK
<1>12. ReturnedMeansIndexed' /\ IndexSound'
  BY <1>3, <1>6, <1>10, <1>11 DEF ReturnedMeansIndexed, IndexSound
<1>13. \A g \in Fetches : Current(g)' = Current(g) /\ attempts'[g] = attempts[g]
  BY <1>3 DEF Current
<1>14. HasRow'
  BY <1>2, <1>10, <1>11, <1>13 DEF HasRow, body
<1>15. VerdictTrue'
  <2> SUFFICES ASSUME NEW g \in Fetches, pc'[g] = "ingested"
      PROVE  /\ verdict'[g] # "none"
             /\ verdict'[g] \in Accepted => receipt'[g[2]] = Current(g).body
             /\ verdict'[g] = "conflict" => receipt'[g[2]] \notin {NoBody, Current(g).body}
             /\ verdict'[g] = "invalid" => Current(g).body \in Refused
    BY <1>13 DEF VerdictTrue, Accepted
  <2>1. CASE g = f
    BY <2>1, <1>2, <1>4, <1>8, <1>11 DEF Accepted, body, ReceiptsAssumption
  <2>2. CASE g # f
    <3>1. pc[g] = "ingested" /\ verdict'[g] = verdict[g]  BY <2>2, <1>10
    <3>2. Current(g).body \in Bodies /\ g[2] \in Parts
      BY <3>1, FetchParts DEF HasRow
    <3>3. receipt[g[2]] # NoBody => receipt'[g[2]] = receipt[g[2]]
      BY <3>2, <1>5 DEF Grows
    <3>4. Current(g).body # NoBody  BY <3>2 DEF ReceiptsAssumption
    <3> QED  BY <3>1, <3>3, <3>4 DEF VerdictTrue
  <2> QED  BY <2>1, <2>2
<1>16. TriesLeft'  BY <1>3, <1>10, <1>11 DEF TriesLeft
<1> QED  BY <1>7, <1>9, <1>12, <1>14, <1>15, <1>16

\* Closing an attempt that failed.
LEMMA CloseFaultyStep ==
  ASSUME ReceiptsAssumption, ReceiptsInv, NEW f \in Fetches, CloseFaulty(f)
  PROVE  ReceiptsInv'
<1>1. f[1] \in Collectors /\ f[2] \in Parts  BY FetchParts
<1>2. /\ pc[f] = "faulty" /\ attempts[f] # <<>>
      /\ attempts' = WithEvent(f, "error")
      /\ UNCHANGED <<receipt, up, loading, index, runs, tries, verdict>>
  BY DEF ReceiptsInv, HasRow, CloseFaulty
<1>3. Rows' /\ Grows /\ \A g \in Fetches : LastStays(g)
  <2>1. "error" \in Events \ {"none"} /\ "error" \notin Accepted
    BY DEF Events, Accepted
  <2> QED  BY <2>1, <1>2, InvRows, EventGrows
<1>4. Indexed \subseteq Indexed'  BY <1>3, InvRows, IndexGrows
<1>5. EventsMatchReceipts' /\ ReceiptsTaken'  BY <1>3 DEF Rows
<1> USE DEF ReceiptsInv
<1>6. \/ pc' = [pc EXCEPT ![f] = "failed"] /\ cancelled' = cancelled \cup {f[1]}
      \/ /\ tries[f] < MaxTries
         /\ pc' = [pc EXCEPT ![f] = "trying"]
         /\ cancelled' = cancelled
  BY DEF CloseFaulty, Fail, RetriesLeft
<1>7. /\ pc' \in [Fetches -> Ended \cup {"idle", "queued", "looking", "loading",
                   "trying", "posting", "recorded", "faulty", "ingesting", "ingested"}]
      /\ \A g \in Fetches : g # f => pc'[g] = pc[g]
      /\ pc'[f] = "failed" \/ (pc'[f] = "trying" /\ tries[f] < MaxTries)
  <2>1. PICK to \in {"failed", "trying"} : pc' = [pc EXCEPT ![f] = to]
    BY <1>6
  <2> QED  BY <1>6, <2>1 DEF TypeOK, Ended
<1>8. TypeOK'
  <2>1. attempts' \in [Fetches -> Seq(Attempts)]  BY <1>3 DEF Rows
  <2>2. cancelled' \subseteq up  BY <1>2, <1>6 DEF TypeOK
  <2>3. \A g \in Fetches : pc'[g] = "idle" <=> pc[g] = "idle"
    BY <1>2, <1>7
  <2> QED  BY <2>1, <2>2, <2>3, <1>2, <1>7 DEF TypeOK
<1>9. ReturnedMeansIndexed' /\ IndexSound'
  BY <1>2, <1>4, <1>7 DEF ReturnedMeansIndexed, IndexSound
<1>10. HasRow'  BY <1>3, <1>7 DEF HasRow, LastStays
<1>11. VerdictTrue'  BY <1>2, <1>3, <1>7 DEF VerdictTrue, HasRow, LastStays, Accepted
<1>12. TriesLeft'  BY <1>2, <1>7 DEF TriesLeft
<1> QED  BY <1>5, <1>8, <1>9, <1>10, <1>11, <1>12

\* Closing an attempt that was promoted.
LEMMA CloseStep ==
  ASSUME ReceiptsAssumption, ReceiptsInv, NEW f \in Fetches, Close(f)
  PROVE  ReceiptsInv'
<1> DEFINE e == verdict[f]
<1>1. f[1] \in Collectors /\ f[2] \in Parts  BY FetchParts
<1>2. /\ pc[f] = "ingested" /\ attempts[f] # <<>>
      /\ attempts' = WithEvent(f, e)
      /\ verdict' = [verdict EXCEPT ![f] = "none"]
      /\ Conclude(f, FirstEvent(f, e))
      /\ UNCHANGED <<receipt, up, loading, runs, tries>>
  BY DEF ReceiptsInv, HasRow, Close, Told
<1>3. /\ e \in Events \ {"none"}
      /\ e \in Accepted => receipt[f[2]] = Current(f).body
      /\ e = "conflict" => receipt[f[2]] \notin {NoBody, Current(f).body}
  BY <1>2 DEF ReceiptsInv, TypeOK, VerdictTrue, Events, Accepted
<1> HIDE DEF e
<1>4. /\ Rows' /\ Grows /\ \A g \in Fetches : LastStays(g)
      /\ Current(f)'.event = FirstEvent(f, e)
  BY <1>2, <1>3, InvRows, EventGrows
<1>5. Indexed \subseteq Indexed'  BY <1>4, InvRows, IndexGrows
<1>6. EventsMatchReceipts' /\ ReceiptsTaken'  BY <1>4 DEF Rows
<1>7. FirstEvent(f, e) \in Accepted => f[2] \in Indexed'
  <2> SUFFICES ASSUME FirstEvent(f, e) \in Accepted PROVE f[2] \in Indexed'
    OBVIOUS
  <2>1. attempts'[f] # <<>>  BY <1>2, <1>4 DEF LastStays
  <2>2. Len(attempts'[f]) \in 1 .. Len(attempts'[f])
    <3>1. attempts'[f] \in Seq(Attempts)  BY <1>4 DEF Rows
    <3>2. Len(attempts'[f]) \in Nat \ {0}  BY <2>1, <3>1, EmptySeq
    <3> QED  BY <3>2
  <2>3. Current(f)'.event \in Accepted  BY <1>4
  <2>4. Current(f)'.body = receipt'[f[2]]
    BY <2>2, <2>3, <1>6 DEF EventsMatchReceipts, Current, Accepted
  <2> QED  BY <2>2, <2>3, <2>4, <1>1 DEF Indexed, IndexOf, Indexes, Current, Accepted
<1> USE DEF ReceiptsInv
<1>8. /\ \/ f[2] \in Indexed' /\ index' = [index EXCEPT ![f[1]] = index[f[1]] \cup {f[2]}]
         \/ index' = index
      /\ cancelled' = cancelled \/ cancelled' = cancelled \cup {f[1]}
      /\ \/ f[2] \in Indexed' /\ pc' = [pc EXCEPT ![f] = "done"]
         \/ pc' = [pc EXCEPT ![f] = "failed"]
  BY <1>2, <1>7 DEF Conclude, Fail
<1>9. /\ pc' \in [Fetches -> Ended \cup {"idle", "queued", "looking", "loading",
                   "trying", "posting", "recorded", "faulty", "ingesting", "ingested"}]
      /\ \A g \in Fetches : g # f => pc'[g] = pc[g]
      /\ pc'[f] = "failed" \/ (pc'[f] = "done" /\ f[2] \in Indexed')
  <2>1. PICK to \in {"failed", "done"} : pc' = [pc EXCEPT ![f] = to]
    BY <1>8
  <2> QED  BY <1>8, <2>1 DEF TypeOK, Ended
<1>10. TypeOK'
  <2>1. attempts' \in [Fetches -> Seq(Attempts)]  BY <1>4 DEF Rows
  <2>2. cancelled' \subseteq up  BY <1>2, <1>8 DEF TypeOK
  <2>3. \A g \in Fetches : pc'[g] = "idle" <=> pc[g] = "idle"
    BY <1>2, <1>9
  <2>4. index' \in [Collectors -> SUBSET Parts]
    <3>1. index[f[1]] \cup {f[2]} \in SUBSET Parts  BY <1>1 DEF TypeOK
    <3>2. CASE index' = index  BY <3>2 DEF TypeOK
    <3>3. CASE index' = [index EXCEPT ![f[1]] = index[f[1]] \cup {f[2]}]
      BY <3>1, <3>3 DEF TypeOK
    <3> QED  BY <3>2, <3>3, <1>8
  <2>5. verdict' \in [Fetches -> {"none", "stored", "reused", "conflict", "invalid"}]
    BY <1>2 DEF TypeOK
  <2> QED  BY <2>1, <2>2, <2>3, <2>4, <2>5, <1>2, <1>9 DEF TypeOK
<1>11. ReturnedMeansIndexed'  BY <1>5, <1>9 DEF ReturnedMeansIndexed
<1>12. IndexSound'
  <2> SUFFICES ASSUME NEW c \in Collectors PROVE index'[c] \subseteq Indexed'
    BY DEF IndexSound
  <2>1. index[c] \subseteq Indexed'  BY <1>5 DEF IndexSound
  <2>2. CASE index' = index  BY <2>1, <2>2
  <2>3. CASE f[2] \in Indexed' /\ index' = [index EXCEPT ![f[1]] = index[f[1]] \cup {f[2]}]
    BY <2>1, <2>3 DEF TypeOK
  <2> QED  BY <2>2, <2>3, <1>8
<1>13. HasRow'  BY <1>4, <1>9 DEF HasRow, LastStays
<1>14. \A g \in Fetches : g # f => verdict'[g] = verdict[g]  BY <1>2 DEF TypeOK
<1>15. VerdictTrue'
  BY <1>2, <1>4, <1>9, <1>14 DEF VerdictTrue, HasRow, LastStays, Accepted
<1>16. TriesLeft'  BY <1>2, <1>9 DEF TriesLeft
<1> QED  BY <1>6, <1>10, <1>11, <1>12, <1>13, <1>15, <1>16

\* Reading the index.
LEMMA LoadStep ==
  ASSUME ReceiptsAssumption, ReceiptsInv, NEW f \in Fetches, Load(f)
  PROVE  ReceiptsInv'
<1>1. f[1] \in Collectors /\ f[2] \in Parts  BY FetchParts
<1>2. /\ pc[f] = "loading" /\ pc' = [pc EXCEPT ![f] = "looking"]
      /\ attempts' = Recovered /\ receipt' = receipt
      /\ loading' = [loading EXCEPT ![f[1]] = "set"]
      /\ index' = [index EXCEPT ![f[1]] = Indexed']
      /\ UNCHANGED <<up, cancelled, runs, tries, verdict>>
  BY DEF Load, Move, Indexed
<1>3. Rows' /\ Grows /\ \A g \in Fetches : LastStays(g)
  BY <1>2, InvRows, RecoveryGrows
<1>4. Indexed \subseteq Indexed'  BY <1>3, InvRows, IndexGrows
<1>5. EventsMatchReceipts' /\ ReceiptsTaken'  BY <1>3 DEF Rows
<1> USE DEF ReceiptsInv
<1>6. Indexed' \subseteq Parts  BY DEF Indexed, IndexOf
<1>7. /\ pc' \in [Fetches -> Ended \cup {"idle", "queued", "looking", "loading",
                   "trying", "posting", "recorded", "faulty", "ingesting", "ingested"}]
      /\ \A g \in Fetches : g # f => pc'[g] = pc[g]
      /\ pc'[f] = "looking"
  BY <1>2 DEF TypeOK
<1>8. TypeOK'
  <2>1. attempts' \in [Fetches -> Seq(Attempts)]  BY <1>3 DEF Rows
  <2>2. \A g \in Fetches : pc'[g] = "idle" <=> pc[g] = "idle"
    BY <1>2, <1>7
  <2>3. index' \in [Collectors -> SUBSET Parts]  BY <1>1, <1>2, <1>6 DEF TypeOK
  <2>4. loading' \in [Collectors -> {"none", "loading", "set"}]
    BY <1>2 DEF TypeOK
  <2> QED  BY <2>1, <2>2, <2>3, <2>4, <1>2, <1>7 DEF TypeOK
<1>9. ReturnedMeansIndexed'  BY <1>4, <1>7 DEF ReturnedMeansIndexed
<1>10. IndexSound'
  <2> SUFFICES ASSUME NEW c \in Collectors PROVE index'[c] \subseteq Indexed'
    BY DEF IndexSound
  <2>1. index[c] \subseteq Indexed'  BY <1>4 DEF IndexSound
  <2> QED  BY <2>1, <1>2 DEF TypeOK
<1>11. HasRow'  BY <1>3, <1>7 DEF HasRow, LastStays
<1>12. VerdictTrue'  BY <1>2, <1>3, <1>7 DEF VerdictTrue, HasRow, LastStays, Accepted
<1>13. TriesLeft'  BY <1>2, <1>7 DEF TriesLeft
<1> QED  BY <1>5, <1>8, <1>9, <1>10, <1>11, <1>12, <1>13
\* The end of a collector, on tables that have grown.
LEMMA GoneStep ==
  ASSUME ReceiptsAssumption, ReceiptsInv, NEW c \in Collectors, c \in up, Gone(c),
         Rows', Grows, \A f \in Fetches : LastStays(f)
  PROVE  ReceiptsInv'
<1>1. Indexed \subseteq Indexed'  BY InvRows, IndexGrows
<1>2. EventsMatchReceipts' /\ ReceiptsTaken'  BY DEF Rows
<1> USE DEF ReceiptsInv
<1>3. \A f \in Fetches : pc'[f] = IF f[1] = c THEN "idle" ELSE pc[f]
  BY DEF Gone
<1>4. \A f \in Fetches : f[1] # c => tries'[f] = tries[f] /\ verdict'[f] = verdict[f]
  <2>1. \A f \in Fetches : f[1] # c => tries'[f] = tries[f]  BY DEF Gone
  <2>2. \A f \in Fetches : f[1] # c => verdict'[f] = verdict[f]  BY DEF Gone
  <2> QED  BY <2>1, <2>2
<1>4a. \A f \in Fetches : f[1] = c => tries'[f] = 0  BY DEF Gone
<1>5. TypeOK'
  <2>1. attempts' \in [Fetches -> Seq(Attempts)] /\ receipt' = receipt /\ runs' = runs
    BY DEF Rows, Gone
  <2>2. up' \subseteq Collectors /\ cancelled' \subseteq up'  BY DEF TypeOK, Gone
  <2>3. /\ loading' \in [Collectors -> {"none", "loading", "set"}]
        /\ index' \in [Collectors -> SUBSET Parts]
    BY DEF TypeOK, Gone
  <2>4. pc' \in [Fetches -> Ended \cup {"idle", "queued", "looking", "loading",
                   "trying", "posting", "recorded", "faulty", "ingesting", "ingested"}]
    BY DEF TypeOK, Gone
  <2>5. tries' \in [Fetches -> 0 .. MaxTries]
    BY DEF TypeOK, Gone, ReceiptsAssumption
  <2>6. verdict' \in [Fetches -> {"none", "stored", "reused", "conflict", "invalid"}]
    BY DEF TypeOK, Gone
  <2>7. \A f \in Fetches : pc'[f] = "idle" <=> f[1] \notin up'
    BY <1>3 DEF TypeOK, Gone
  <2> QED  BY <2>1, <2>2, <2>3, <2>4, <2>5, <2>6, <2>7 DEF TypeOK
<1>6. ReturnedMeansIndexed'  BY <1>1, <1>3 DEF ReturnedMeansIndexed
<1>7. IndexSound'  BY <1>1 DEF IndexSound, TypeOK, Gone
<1>8. HasRow'  BY <1>3 DEF HasRow, LastStays
<1>9. VerdictTrue'
  <2>1. receipt' = receipt  BY DEF Gone
  <2>2. \A f \in Fetches : pc'[f] = "ingested" =>
          /\ pc[f] = "ingested" /\ verdict'[f] = verdict[f]
          /\ Current(f)'.body = Current(f).body
    BY <1>3, <1>4 DEF HasRow, LastStays
  <2> QED  BY <2>1, <2>2 DEF VerdictTrue, Accepted
<1>10. TriesLeft'  BY <1>3, <1>4, <1>4a DEF TriesLeft
<1> QED  BY <1>2, <1>5, <1>6, <1>7, <1>8, <1>9, <1>10

\* The start of a collector.
LEMMA OpenStep ==
  ASSUME ReceiptsAssumption, ReceiptsInv, NEW c \in Collectors, Open(c)
  PROVE  ReceiptsInv'
<1>1. Rows' /\ Grows /\ \A f \in Fetches : LastStays(f)
  BY InvRows, RecoveryGrows DEF Open
<1>2. Indexed \subseteq Indexed'  BY <1>1, InvRows, IndexGrows
<1>3. EventsMatchReceipts' /\ ReceiptsTaken'  BY <1>1 DEF Rows
<1> USE DEF ReceiptsInv
<1>4. /\ c \notin up /\ runs < MaxRuns /\ runs' = runs + 1 /\ up' = up \cup {c}
      /\ pc' = [f \in Fetches |-> IF f[1] = c THEN "queued" ELSE pc[f]]
      /\ UNCHANGED <<receipt, cancelled, loading, index, tries, verdict>>
  BY DEF Open
<1>5. \A f \in Fetches : pc'[f] = IF f[1] = c THEN "queued" ELSE pc[f]
  BY <1>4
<1>6. TypeOK'
  <2>1. attempts' \in [Fetches -> Seq(Attempts)]  BY <1>1 DEF Rows
  <2>2. runs' \in 0 .. MaxRuns  BY <1>4 DEF TypeOK, ReceiptsAssumption
  <2>3. pc' \in [Fetches -> Ended \cup {"idle", "queued", "looking", "loading",
                   "trying", "posting", "recorded", "faulty", "ingesting", "ingested"}]
    BY <1>4 DEF TypeOK
  <2>4. \A f \in Fetches : pc'[f] = "idle" <=> f[1] \notin up'
    BY <1>4, <1>5 DEF TypeOK
  <2> QED  BY <2>1, <2>2, <2>3, <2>4, <1>4 DEF TypeOK
<1>7. ReturnedMeansIndexed'  BY <1>2, <1>5 DEF ReturnedMeansIndexed
<1>8. IndexSound'  BY <1>2, <1>4 DEF IndexSound
<1>9. HasRow'  BY <1>1, <1>5 DEF HasRow, LastStays
<1>10. VerdictTrue'
  BY <1>1, <1>4, <1>5 DEF VerdictTrue, HasRow, LastStays, Accepted
<1>11. TriesLeft'
  <2>1. \A f \in Fetches : f[1] = c => pc[f] = "idle"  BY <1>4 DEF TypeOK
  <2> QED  BY <2>1, <1>4, <1>5 DEF TriesLeft
<1> QED  BY <1>3, <1>6, <1>7, <1>8, <1>9, <1>10, <1>11

\* Every step of the system.
LEMMA Invariance ==
  ASSUME ReceiptsAssumption, ReceiptsInv, [Next]_vars
  PROVE  ReceiptsInv'
<1>1. CASE UNCHANGED vars
  BY <1>1 DEF vars, ReceiptsInv, TypeOK, EventsMatchReceipts, ReceiptsTaken,
    ReturnedMeansIndexed, IndexSound, Indexed, IndexOf, HasRow, VerdictTrue, TriesLeft,
    Current
<1>2. ASSUME NEW c \in Collectors, Open(c) PROVE ReceiptsInv'
  BY <1>2, OpenStep
<1>3. ASSUME NEW c \in Collectors, End(c) PROVE ReceiptsInv'
  <2>1. CASE attempts' = Recovered
    BY <1>3, <2>1, InvRows, RecoveryGrows, GoneStep DEF End, Gone
  <2>2. CASE attempts' = attempts
    BY <1>3, <2>2, InvRows, SameGrows, GoneStep DEF End, Gone, store
  <2> QED  BY <1>3, <2>1, <2>2 DEF End
<1>4. ASSUME NEW c \in Collectors, Crash(c) PROVE ReceiptsInv'
  BY <1>4, InvRows, SameGrows, GoneStep DEF Crash, Gone, store
<1>5. ASSUME NEW f \in Fetches, Work(f) PROVE ReceiptsInv'
  BY <1>5, QuietSteps, LoadStep, RecordStep, CloseFaultyStep, IngestStep, CloseStep
    DEF Work
<1> QED  BY <1>1, <1>2, <1>3, <1>4, <1>5 DEF Next

\* The invariant holds of every state.
LEMMA InvHolds == Spec => []ReceiptsInv
<1>1. Init => ReceiptsInv  BY InitInv, ReceiptsAssumption
<1>2. ReceiptsInv /\ [Next]_vars => ReceiptsInv'  BY Invariance, ReceiptsAssumption
<1> QED  BY <1>1, <1>2, PTL DEF Spec

-----------------------------------------------------------------------------
\* Every variable keeps its type (fetch_partition and the tables it writes).
THEOREM TypeCorrect == Spec => []TypeOK
<1>1. ReceiptsInv => TypeOK  BY DEF ReceiptsInv
<1> QED  BY <1>1, InvHolds, PTL

\* Whoever writes the event of an attempt, promote_fetch_attempt or a recovery
\* of another process, it agrees with the receipt of the part.
THEOREM EventsAgree == Spec => []EventsMatchReceipts
<1>1. ReceiptsInv => EventsMatchReceipts  BY DEF ReceiptsInv
<1> QED  BY <1>1, InvHolds, PTL

\* A part for which fetch_partition returned stays in the index.
THEOREM ReturnedIsIndexed == Spec => []ReturnedMeansIndexed
<1>1. ReceiptsInv => ReturnedMeansIndexed  BY DEF ReceiptsInv
<1> QED  BY <1>1, InvHolds, PTL

\* An attempt that is closed while its body is the receipt is accepted.
ClosedAccepted ==
  \A f \in Fetches : \A i \in 1 .. Len(attempts[f]) :
    /\ attempts[f][i].event = "none"
    /\ attempts'[f][i].event # "none"
    /\ attempts[f][i].body = receipt[f[2]]
    => i \in 1 .. Len(attempts'[f]) /\ attempts'[f][i].event \in Accepted

\* Opening or reading the store closes such an attempt as reused.
LEMMA RecoveryAccepts ==
  ASSUME Rows, attempts' = Recovered PROVE ClosedAccepted
BY RecoveredRows, LastRow, FetchParts, ClosedRow DEF ClosedAccepted, Accepted

\* So does the collector that made it.
LEMMA WorkAccepts ==
  ASSUME ReceiptsAssumption, ReceiptsInv, NEW f \in Fetches, NEW e \in Events,
         attempts[f] # <<>>, attempts' = WithEvent(f, e),
         Current(f).body = receipt[f[2]] => e \in Accepted
  PROVE  ClosedAccepted
<1>1. Rows  BY InvRows
<1>2. /\ \A g \in Fetches : g # f => attempts'[g] = attempts[g]
      /\ Len(attempts'[f]) = Len(attempts[f])
      /\ \A i \in 1 .. Len(attempts[f]) :
           attempts'[f][i] = IF i = Len(attempts[f])
                               THEN [Current(f) EXCEPT !.event = FirstEvent(f, e)]
                               ELSE attempts[f][i]
  BY <1>1, EventRows
<1>3. Current(f) \in Attempts /\ Len(attempts[f]) \in 1 .. Len(attempts[f])
  BY <1>1, LastRow
<1> SUFFICES ASSUME NEW g \in Fetches, NEW i \in 1 .. Len(attempts[g]),
                    attempts[g][i].event = "none", attempts'[g][i].event # "none",
                    attempts[g][i].body = receipt[g[2]]
             PROVE  i \in 1 .. Len(attempts'[g]) /\ attempts'[g][i].event \in Accepted
  BY DEF ClosedAccepted
<1>4. g = f /\ i = Len(attempts[f])  BY <1>2
<1>5. attempts[g][i] = Current(f)  BY <1>4 DEF Current
<1>6. attempts'[g][i].event = e
  BY <1>2, <1>3, <1>4, <1>5 DEF FirstEvent, Attempts
<1> QED  BY <1>2, <1>3, <1>4, <1>5, <1>6

\* Every step that closes such an attempt accepts it.
LEMMA StepAccepts ==
  ASSUME ReceiptsAssumption, ReceiptsInv, Next PROVE ClosedAccepted
<1>1. Rows  BY InvRows
<1>2. CASE attempts' = attempts  BY <1>2 DEF ClosedAccepted
<1>3. CASE attempts' = Recovered  BY <1>1, <1>3, RecoveryAccepts
<1>4. ASSUME NEW c \in Collectors, Open(c) \/ End(c) \/ Crash(c)
      PROVE  attempts' = attempts \/ attempts' = Recovered
  BY <1>4 DEF Open, End, Crash
<1>5. ASSUME NEW f \in Fetches, Invoke(f) \/ StartLoading(f) \/ LoadFails(f)
               \/ UseIndex(f) \/ Post(f) \/ Promote(f) \/ Ingest(f) \/ Load(f)
      PROVE  attempts' = attempts \/ attempts' = Recovered
  BY <1>5 DEF Invoke, StartLoading, LoadFails, UseIndex, Post, Promote, Ingest, Load, store
<1>6. ASSUME NEW f \in Fetches, Record(f) PROVE ClosedAccepted
  <2>1. PICK b \in Answers :
          attempts' = [attempts EXCEPT ![f] = Append(@, [body |-> b, event |-> "none"])]
    BY <1>6 DEF Record
  <2>2. \A g \in Fetches : g # f => attempts'[g] = attempts[g]
    BY <2>1, <1>1 DEF Rows
  <2>3. attempts'[f] = Append(attempts[f], [body |-> b, event |-> "none"])
    BY <2>1, <1>1 DEF Rows
  <2>4. attempts[f] \in Seq(Attempts) /\ [body |-> b, event |-> "none"] \in Attempts
    BY <1>1 DEF Rows, Attempts, Events
  <2>5. \A i \in 1 .. Len(attempts[f]) :
          attempts'[f][i] = attempts[f][i] /\ i \in 1 .. Len(attempts'[f])
    <3> DEFINE row == [body |-> b, event |-> "none"]
    <3>1. row \in Attempts /\ attempts'[f] = Append(attempts[f], row)  BY <2>3, <2>4
    <3> HIDE DEF row
    <3> QED  BY <2>4, <3>1, AppendProperties
  <2> QED  BY <2>2, <2>5 DEF ClosedAccepted
<1>7. ASSUME NEW f \in Fetches, CloseFaulty(f) PROVE ClosedAccepted
  <2>1. /\ attempts[f] # <<>> /\ attempts' = WithEvent(f, "error")
        /\ Current(f).body \notin Bodies
    BY <1>7 DEF CloseFaulty, ReceiptsInv, HasRow
  <2>2. Current(f) \in Attempts /\ receipt[f[2]] \in Bodies \cup {NoBody}
    BY <1>1, <2>1, LastRow, FetchParts DEF Rows
  <2>3. Current(f).body # receipt[f[2]]
    BY <2>1, <2>2 DEF Attempts, Answers, ReceiptsAssumption
  <2> QED  BY <2>1, <2>3, WorkAccepts DEF Events
<1>8. ASSUME NEW f \in Fetches, Close(f) PROVE ClosedAccepted
  <2>1. /\ attempts[f] # <<>> /\ attempts' = WithEvent(f, verdict[f])
        /\ verdict[f] \in {"stored", "reused", "conflict", "invalid"}
        /\ verdict[f] = "conflict" => receipt[f[2]] # Current(f).body
        /\ verdict[f] = "invalid" => Current(f).body \in Refused
    BY <1>8 DEF Close, ReceiptsInv, TypeOK, HasRow, VerdictTrue
  <2>2. receipt[f[2]] \notin Refused
    BY FetchParts DEF ReceiptsInv, ReceiptsTaken
  <2>3. Current(f).body = receipt[f[2]] => verdict[f] \in Accepted
    BY <2>1, <2>2 DEF Accepted
  <2>4. verdict[f] \in Events  BY <2>1 DEF Events, Accepted
  <2> QED  BY <2>1, <2>3, <2>4, WorkAccepts
<1> QED  BY <1>2, <1>3, <1>4, <1>5, <1>6, <1>7, <1>8 DEF Next, Work

\* Whoever closes an attempt whose body is the receipt, the collector itself,
\* another that opens or reads the store, or the same one after a crash,
\* brings its part into the index.
THEOREM RecoveryIsRepair == Spec => RecoveryRepairs
<1> DEFINE Repairs ==
      \A f \in Fetches : \A i \in 1 .. Len(attempts[f]) :
        /\ attempts[f][i].event = "none"
        /\ attempts'[f][i].event # "none"
        /\ attempts[f][i].body = receipt[f[2]]
        => f[2] \in Indexed'
<1>1. ASSUME ReceiptsInv, ReceiptsInv', Next PROVE Repairs
  <2> SUFFICES ASSUME NEW f \in Fetches, NEW i \in 1 .. Len(attempts[f]),
                      attempts[f][i].event = "none", attempts'[f][i].event # "none",
                      attempts[f][i].body = receipt[f[2]]
               PROVE  f[2] \in Indexed'
    OBVIOUS
  <2>1. Rows'  BY <1>1 DEF ReceiptsInv, TypeOK, Rows
  <2>2. attempts'[f][i].event \in Accepted /\ i \in 1 .. Len(attempts'[f])
    BY <1>1, StepAccepts, ReceiptsAssumption DEF ClosedAccepted
  <2>3. attempts'[f][i].body = receipt'[f[2]]
    BY <2>1, <2>2 DEF Rows, EventsMatchReceipts
  <2> QED  BY <2>2, <2>3, FetchParts DEF Indexed, IndexOf, Indexes
<1>2. ASSUME ReceiptsInv, ReceiptsInv', [Next]_vars PROVE [Repairs]_vars
  BY <1>1, <1>2
<1> QED  BY <1>2, InvHolds, PTL DEF Spec, RecoveryRepairs
=============================================================================
