------------------------------ MODULE PersonalBook ------------------------------
(***************************************************************************)
(* The personal book (personal_book.py): the state, the file of fills and  *)
(* the ticket, written by a person's events (record_event) and by the      *)
(* daily job (build_and_store) with no lock between them.  An operation    *)
(* reads the state once and writes back what it made of it.                *)
(*                                                                         *)
(* The book holds one position at most, so that the number of its fills    *)
(* tells whether it holds one.  Cash, marks and peaks are left out: what a *)
(* new valuation does to the halt is any level.                            *)
(***************************************************************************)
EXTENDS Naturals, FiniteSets

CONSTANTS
  Clients,     \* operations that may be under way at once
  MaxFills     \* bound: FillsBegun

ASSUME ClientsAssumption == IsFiniteSet(Clients)

VARIABLES
  book,        \* STATE.json: number of fills, and halt
  filed,       \* rows of FILLS.jsonl
  ticket,      \* action of LATEST.json: "open" or another
  bpc, mine,   \* of every operation: step, and the state in its memory
  died,        \* operations that died with their fill not filed, and whether
               \* one died with its ticket or state unwritten since the last
               \* operation that ended well
  overlapped   \* history: two operations were under way at once

bookVars == <<book, filed, ticket, bpc, mine, died, overlapped>>

Levels == {"none", "pause_entries", "flatten"}
EmptyBook == [fills |-> 0, halt |-> "none"]

BookInit ==
  /\ book = EmptyBook /\ filed = 0 /\ ticket = "other"
  /\ bpc = [c \in Clients |-> "idle"]
  /\ mine = [c \in Clients |-> EmptyBook]
  /\ died = [unfiled |-> 0, stale |-> FALSE]
  /\ overlapped = FALSE

Holding(s) == s.fills % 2 = 1

\* refresh_halt: a halt at the lower limit stays until somebody resumes.
Halt(s, level) == IF s.halt = "flatten" THEN "flatten" ELSE level

Marked(s, level) == [s EXCEPT !.halt = Halt(s, level)]

\* Mutant: the halt is not looked at.
TicketsOfAnyHalt(s) == {"other"} \cup (IF ~Holding(s) THEN {"open"} ELSE {})

\* build_ticket, as far as it tells to open a position: when there is a signal
\* that was not skipped, the size suffices, and neither a halt nor a position is
\* in the way.
Tickets(s) ==
  {"other"} \cup (IF s.halt = "none" /\ ~Holding(s) THEN {"open"} ELSE {})

BookBegin(c, step, s) ==
  /\ bpc[c] = "idle"
  /\ bpc' = [bpc EXCEPT ![c] = step]
  /\ mine' = [mine EXCEPT ![c] = s]
  /\ overlapped' = (overlapped \/ \E d \in Clients : bpc[d] # "idle")
  /\ UNCHANGED <<book, filed, ticket, died>>

BookEnd(c) ==
  /\ bpc' = [bpc EXCEPT ![c] = "idle"]
  /\ mine' = [mine EXCEPT ![c] = EmptyBook]

BookStep(c, from, to) == bpc[c] = from /\ bpc' = [bpc EXCEPT ![c] = to]

\* What the bound counts: fills on file, lost by a crash, or under way.
FillsBegun ==
  filed + died.unfiled + Cardinality({c \in Clients : bpc[c] \in {"state", "fill"}})

\* Mutant: the fill is put on an empty book.
RecordFillUnread(c) == \E level \in Levels :
  /\ FillsBegun < MaxFills
  /\ BookBegin(c, "state", Marked([EmptyBook EXCEPT !.fills = 1], level))

\* apply_event: a purchase without a position or a sale of the position.
RecordFill(c) == \E level \in Levels :
  /\ FillsBegun < MaxFills
  /\ BookBegin(c, "state", Marked([book EXCEPT !.fills = @ + 1], level))

\* Resuming sets the peak of the halt to the equity, and thereby the drawdown
\* to zero.  It is filed too, as a skipped signal is, but neither is a fill.
Resume(c) == BookBegin(c, "event", [book EXCEPT !.halt = "none"])

Skip(c) == BookBegin(c, "event", book)

WriteBook(c) ==
  /\ bpc[c] \in {"state", "event"}
  /\ bpc' = [bpc EXCEPT ![c] = IF bpc[c] = "state" THEN "fill" ELSE "ticket"]
  /\ book' = mine[c]
  /\ UNCHANGED <<filed, ticket, mine, died, overlapped>>

AppendFill(c) ==
  /\ BookStep(c, "fill", "ticket")
  /\ filed' = filed + 1
  /\ UNCHANGED <<book, ticket, mine, died, overlapped>>

WriteTicket(c) ==
  /\ bpc[c] = "ticket"
  /\ ticket' \in Tickets(mine[c])
  /\ BookEnd(c)
  /\ died' = [died EXCEPT !.stale = FALSE]
  /\ UNCHANGED <<book, filed, overlapped>>

\* The daily job marks the state, and writes the ticket before the state.
Job(c) == \E level \in Levels : BookBegin(c, "job_ticket", Marked(book, level))

JobTicket(c) ==
  /\ BookStep(c, "job_ticket", "job_state")
  /\ ticket' \in Tickets(mine[c])
  /\ UNCHANGED <<book, filed, mine, died, overlapped>>

JobState(c) ==
  /\ bpc[c] = "job_state"
  /\ book' = mine[c]
  /\ BookEnd(c)
  /\ died' = [died EXCEPT !.stale = FALSE]
  /\ UNCHANGED <<filed, ticket, overlapped>>

\* A crash between two writes.
BookCrash(c) ==
  /\ bpc[c] # "idle"
  /\ BookEnd(c)
  /\ died' = [unfiled |-> died.unfiled + (IF bpc[c] = "fill" THEN 1 ELSE 0),
              stale |-> died.stale \/ bpc[c] \in {"fill", "ticket", "job_state"}]
  /\ UNCHANGED <<book, filed, ticket, overlapped>>

BookNext == \E c \in Clients :
  \/ RecordFill(c) \/ Resume(c) \/ Skip(c) \/ WriteBook(c) \/ AppendFill(c) \/ WriteTicket(c)
  \/ Job(c) \/ JobTicket(c) \/ JobState(c) \/ BookCrash(c)

BookSpec == BookInit /\ [][BookNext]_bookVars

\* The fills on file and those that died, or are, between the two writes.
FillsKnown ==
  filed + died.unfiled + Cardinality({c \in Clients : bpc[c] = "fill"})

\* The book shows no fill but those, and it shows all of them unless two
\* operations were under way at once: the one that writes last then drops the
\* other's fill.
BookExplainsFills ==
  /\ book.fills <= FillsKnown
  /\ ~overlapped => book.fills = FillsKnown

\* The ticket on file does not tell to open a position against a halt or a
\* position of the book, when nothing is under way and no operation overlapped
\* another, or died with its ticket unwritten and none has ended well since.
TicketFitsBook ==
  ~overlapped /\ ~died.stale /\ (\A c \in Clients : bpc[c] = "idle") =>
    (ticket = "open" => book.halt = "none" /\ ~Holding(book))
=============================================================================
