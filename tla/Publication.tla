------------------------------ MODULE Publication ------------------------------
(***************************************************************************)
(* Publishing recommendations (app/recommendations.py,                     *)
(* recommendation_contract.py, storage.py).  A run scans under a current   *)
(* pool audit, revalidates it, caps its selection by what the target date  *)
(* already shows, appends one hash-chained row to the publication ledger,  *)
(* then one row to the history, then replaces the latest snapshot.  The    *)
(* three files are written one after the other: a crash or an exception    *)
(* may fall between any two or tear an append, and the next append goes on *)
(* on the line it left.                                                    *)
(*                                                                         *)
(* The sha256 of a row is represented by the run that built it: a run      *)
(* commits at most one row, and its snapshot hash makes the row unique.    *)
(***************************************************************************)
EXTENDS FiniteSets, Logs, Naturals, Sequences

CONSTANTS
  Runs,       \* scan runs
  Dates,      \* target trade dates
  Symbols,    \* canonical symbols
  Pools,      \* current pool audits (their canonical sha256)
  Allowed,    \* Allowed[p]: the symbols audit p admits
  Limit,      \* daily limit of a run: min(3, profile.max_recommendations)
  Cap,        \* the limit of the ledger's validator (3 in the code)
  NoPool,     \* no audit passes the gate
  NoRun       \* no row / no run

ASSUME PublicationAssumption ==
  /\ Allowed \in [Pools -> SUBSET Symbols]
  /\ Limit \in Nat /\ Cap \in Nat /\ Limit <= Cap
  /\ Dates # {}
  /\ IsFiniteSet(Symbols)
  /\ NoRun \notin Runs /\ NoPool \notin Pools

VARIABLES
  ledger,   \* <history>.publications: rows, and torn lines
  history,  \* recommendation history: publications, and torn lines
  cut,      \* which of the two ends without a newline
  latest,   \* the latest snapshot
  pool,     \* the current pool audit on disk
  stage,    \* where each run is
  job,      \* what each run has read and decided
  overlapped \* history: a run has begun while another was active

vars == <<ledger, history, cut, latest, pool, stage, job, overlapped>>

Row == [id : Runs, seq : Nat, prev : Runs \cup {NoRun}, target : Dates,
        prior : SUBSET Symbols, published : SUBSET Symbols,
        after : SUBSET Symbols, seeded : BOOLEAN]

Entry == [id : Runs \cup {NoRun}, target : Dates, items : SUBSET Symbols]

\* A line that does not parse, with the runs that wrote on it.
Torn == [by : SUBSET (Runs \cup {NoRun})]

Job == [target : Dates, pool : Pools \cup {NoPool}, prior : SUBSET Symbols,
        items : SUBSET Symbols, live : BOOLEAN, seq : Nat,
        prev : Runs \cup {NoRun}, seeded : BOOLEAN]

Snapshot == [status : {"none", "running", "failed", "blocked", "live_proven"},
             id : Runs \cup {NoRun}, target : Dates,
             items : SUBSET Symbols, pool : Pools \cup {NoPool}]

Stages == {"idle", "scan", "commit", "append", "history", "latest", "audit",
           "done", "crashed"}
Ended == {"done", "crashed"}

TypeOK ==
  /\ ledger \in Seq(Row \cup Torn)
  /\ history \in Seq(Entry \cup Torn)
  /\ cut \subseteq {"ledger", "history"}
  /\ "ledger" \in cut => ledger # <<>>
  /\ "history" \in cut => history # <<>>
  /\ latest \in Snapshot
  /\ pool \in Pools \cup {NoPool}
  /\ stage \in [Runs -> Stages]
  /\ job \in [Runs -> Job]
  /\ overlapped \in BOOLEAN

-----------------------------------------------------------------------------
(* validate_publication_ledger, row by row. *)

SameTargetBefore(l, i) == {j \in 1 .. i - 1 : l[j].target = l[i].target}

PriorMatches(l, i) ==
  LET before == SameTargetBefore(l, i)
  IN  IF before = {} THEN l[i].prior # {} => l[i].seeded
      ELSE l[i].prior = l[LastOf(before)].after /\ ~l[i].seeded

\* Mutant: the validator checks each row by itself, not the chain.
RowUnchained(l, i) ==
  /\ l[i] \notin Torn
  /\ l[i].published # {}
  /\ l[i].after = l[i].prior \cup l[i].published
  /\ Cardinality(l[i].after) <= Cap

RowOK(l, i) ==
  /\ l[i] \notin Torn
  /\ l[i].seq = i
  /\ l[i].prev = IF i = 1 THEN NoRun ELSE l[i - 1].id
  /\ l[i].published # {}
  /\ PriorMatches(l, i)
  /\ l[i].after = l[i].prior \cup l[i].published
  /\ Cardinality(l[i].after) <= Cap

\* The rows up to the first one a reader rejects.
Accepted(l) == {i \in 1 .. Len(l) : \A j \in 1 .. i : RowOK(l, j)}

Valid(l) == \A i \in 1 .. Len(l) : RowOK(l, i)

RowsOn(l, d) == {i \in 1 .. Len(l) : l[i].target = d}

StateOn(l, d) == l[LastOf(RowsOn(l, d))].after

\* _published_symbols_for_target_trade_date: the ledger's state for the date,
\* the union of the history's items when the ledger has none.  Reading raises
\* on a ledger that does not validate and on a torn history.
Readable(d) ==
  Valid(ledger) /\ (RowsOn(ledger, d) # {} \/ \A i \in 1 .. Len(history) : history[i] \notin Torn)

PublishedOn(d) ==
  IF RowsOn(ledger, d) # {} THEN StateOn(ledger, d)
  ELSE UNION {history[i].items : i \in {k \in 1 .. Len(history) : history[k].target = d}}

-----------------------------------------------------------------------------
Blank(status, r) ==
  [status |-> status, id |-> r, target |-> job[r].target, items |-> {}, pool |-> pool]

\* The locals of a run, before it begins and after it ends.
NoJob == [target |-> CHOOSE d \in Dates : TRUE, pool |-> NoPool, prior |-> {},
          items |-> {}, live |-> FALSE, seq |-> 0, prev |-> NoRun, seeded |-> FALSE]

End(r, how) ==
  /\ stage' = [stage EXCEPT ![r] = how]
  /\ job' = [job EXCEPT ![r] = NoJob]

Active(r) == stage[r] \notin Ended \cup {"idle"}

Begin(r, d) ==
  /\ stage[r] = "idle"
  /\ overlapped' = (overlapped \/ \E s \in Runs : Active(s))
  /\ stage' = [stage EXCEPT ![r] = "scan"]
  /\ job' = [job EXCEPT ![r].target = d, ![r].pool = pool]
  \* POST /recommendations/run announces the run; the command line does not.
  /\ \/ latest' = [status |-> "running", id |-> r, target |-> d, items |-> {}, pool |-> pool]
     \/ UNCHANGED latest
  /\ UNCHANGED <<ledger, history, cut, pool>>

\* The pool, source, profile and trade-day gates before the scan: the blocked
\* snapshot is the whole result of the run.
BlockAtGate(r) ==
  /\ stage[r] = "scan"
  /\ latest' = Blank("blocked", r)
  /\ stage' = [stage EXCEPT ![r] = "audit"]
  /\ UNCHANGED <<ledger, history, cut, pool, job, overlapped>>

\* Mutant: every run may add Limit symbols of its own.
CappedPerRun(selected, prior) == {selected}

\* cap_daily_publications: symbols the date already shows pass, new ones only
\* as long as there is room.  The order of the ranking is left open.
Capped(selected, prior) ==
  LET room == IF Cardinality(prior) <= Limit THEN Limit - Cardinality(prior) ELSE 0
      new  == selected \ prior
  IN  {(selected \cap prior) \cup S : S \in {T \in SUBSET new :
         Cardinality(T) = IF Cardinality(new) <= room THEN Cardinality(new) ELSE room}}

\* After the scan: the pool is read again, the prior symbols of the date are
\* read, the selection is capped.  live is what the payload claims; a changed
\* pool does not reset it, every later reason to block does.
Revalidate(r) ==
  /\ stage[r] = "scan"
  /\ job[r].pool # NoPool
  /\ Readable(job[r].target)
  /\ LET prior == PublishedOn(job[r].target)
     IN  \E selected \in SUBSET Allowed[job[r].pool], evidence, sound \in BOOLEAN :
           /\ Cardinality(selected) <= Limit
           /\ LET unchanged == pool = job[r].pool
                  live == evidence /\ (unchanged => sound /\ Cardinality(prior) <= Limit)
              IN  \E items \in IF live THEN Capped(selected, prior) ELSE {{}} :
                    job' = [job EXCEPT ![r].prior = prior, ![r].items = items,
                              ![r].live = live, ![r].pool = pool]
           \* recommendation_snapshot_publication_errors: a live claim under a
           \* blocked status does not pass the contract; Fail takes the run.
           /\ ~(evidence /\ pool # job[r].pool)
  /\ stage' = [stage EXCEPT ![r] = "commit"]
  /\ UNCHANGED <<ledger, history, cut, latest, pool, overlapped>>

\* _commit_publication_ledger up to the append: nothing to publish, or the
\* prior state is what it was and the record is built on the rows read now.
CommitNothing(r) ==
  /\ stage[r] = "commit" /\ job[r].items = {}
  /\ stage' = [stage EXCEPT ![r] = "history"]
  /\ UNCHANGED <<ledger, history, cut, latest, pool, job, overlapped>>

BuildRow(r) ==
  /\ stage[r] = "commit" /\ job[r].items # {}
  /\ Readable(job[r].target)
  /\ PublishedOn(job[r].target) = job[r].prior
  /\ job' = [job EXCEPT ![r].seq = Len(ledger) + 1,
               ![r].prev = IF ledger = <<>> THEN NoRun ELSE ledger[Len(ledger)].id,
               ![r].seeded = RowsOn(ledger, job[r].target) = {} /\ job[r].prior # {}]
  /\ stage' = [stage EXCEPT ![r] = "append"]
  /\ UNCHANGED <<ledger, history, cut, latest, pool, overlapped>>

RowOf(r) ==
  [id |-> r, seq |-> job[r].seq, prev |-> job[r].prev, target |-> job[r].target,
   prior |-> job[r].prior, published |-> job[r].items,
   after |-> job[r].prior \cup job[r].items, seeded |-> job[r].seeded]

EntryOf(r) == [id |-> r, target |-> job[r].target, items |-> job[r].items]

\* append_jsonl_durable on one of the two files.
Writers(x) == IF x \in Torn THEN x.by ELSE {x.id}
Extended(file, log, x) ==
  Written(log, file \in cut, x, [by |-> Writers(log[Len(log)]) \cup Writers(x)])

AppendLedger(r) ==
  /\ stage[r] = "append"
  /\ ledger' = Extended("ledger", ledger, RowOf(r))
  /\ cut' = cut \ {"ledger"}
  /\ stage' = [stage EXCEPT ![r] = "history"]
  /\ UNCHANGED <<history, latest, pool, job, overlapped>>

\* Mutant: the snapshot is replaced before the history is appended.
SkipHistory(r) ==
  /\ stage[r] = "history"
  /\ stage' = [stage EXCEPT ![r] = "latest"]
  /\ UNCHANGED <<ledger, history, cut, latest, pool, job, overlapped>>

\* A run without items has its line in the history as well.
AppendHistory(r) ==
  /\ stage[r] = "history"
  /\ history' = Extended("history", history, EntryOf(r))
  /\ cut' = cut \ {"history"}
  /\ stage' = [stage EXCEPT ![r] = "latest"]
  /\ UNCHANGED <<ledger, latest, pool, job, overlapped>>

WriteLatest(r) ==
  /\ stage[r] = "latest"
  /\ latest' = [status |-> IF job[r].live THEN "live_proven" ELSE "blocked",
                id |-> r, target |-> job[r].target, items |-> job[r].items,
                pool |-> job[r].pool]
  /\ stage' = [stage EXCEPT ![r] = "audit"]
  /\ UNCHANGED <<ledger, history, cut, pool, job, overlapped>>

\* The audit log is append-only and nobody reads it back.
AppendAudit(r) ==
  /\ stage[r] = "audit"
  /\ End(r, "done")
  /\ UNCHANGED <<ledger, history, cut, latest, pool, overlapped>>

\* Any exception of the run: contract, drifted prior, unreadable file, I/O.
Fail(r) ==
  /\ Active(r)
  /\ latest' = Blank("failed", r)
  /\ End(r, "done")
  /\ UNCHANGED <<ledger, history, cut, pool, overlapped>>

Crash(r) ==
  /\ Active(r)
  /\ End(r, "crashed")
  /\ UNCHANGED <<ledger, history, cut, latest, pool, overlapped>>

\* An append ends early and leaves part of its line, or all of it but the newline.
Tear(r) ==
  \/ /\ stage[r] = "append"
     /\ \E line \in {RowOf(r), [by |-> {r}]} : ledger' = Extended("ledger", ledger, line)
     /\ cut' = cut \cup {"ledger"}
     /\ UNCHANGED history
  \/ /\ stage[r] = "history"
     /\ \E line \in {EntryOf(r), [by |-> {r}]} : history' = Extended("history", history, line)
     /\ cut' = cut \cup {"history"}
     /\ UNCHANGED ledger

\* The process dies inside an append, or the write raises, as on a full disk.
TearAppend(r) ==
  /\ Tear(r)
  /\ End(r, "crashed")
  /\ UNCHANGED <<latest, pool, overlapped>>

AppendRaises(r) ==
  /\ Tear(r)
  /\ latest' = Blank("failed", r)
  /\ End(r, "done")
  /\ UNCHANGED <<pool, overlapped>>

\* The current pool publisher replaces or withdraws the audit at any time.
ChangePool ==
  /\ pool' \in Pools \cup {NoPool}
  /\ pool' # pool
  /\ UNCHANGED <<ledger, history, cut, latest, stage, job, overlapped>>

RunStep(r) ==
  \/ \E d \in Dates : Begin(r, d)
  \/ BlockAtGate(r) \/ Revalidate(r) \/ CommitNothing(r) \/ BuildRow(r)
  \/ AppendLedger(r) \/ AppendHistory(r) \/ WriteLatest(r) \/ AppendAudit(r)
  \/ Fail(r) \/ Crash(r) \/ TearAppend(r) \/ AppendRaises(r)

Next == ChangePool \/ \E r \in Runs : RunStep(r)

\* A deployment starts with no ledger and perhaps a history from before it.
Init ==
  /\ ledger = <<>>
  /\ history \in {<<>>} \cup {<<[id |-> NoRun, target |-> d, items |-> {s}]>> :
                                 d \in Dates, s \in Symbols}
  /\ cut = {}
  /\ latest = [status |-> "none", id |-> NoRun, target |-> NoJob.target,
               items |-> {}, pool |-> NoPool]
  /\ job = [r \in Runs |-> NoJob]
  /\ pool \in Pools
  /\ stage = [r \in Runs |-> "idle"]
  /\ overlapped = FALSE

Spec == Init /\ [][Next]_vars

-----------------------------------------------------------------------------
(* What a reader of the service sees. *)

\* latest(): the snapshot is shown only under the audit it was made under and
\* with a receipt that is the last row of its date in a ledger that validates.
Visible ==
  IF /\ latest.status = "live_proven" /\ latest.pool # NoPool /\ pool = latest.pool
     /\ latest.items \subseteq Allowed[pool]
     /\ latest.items # {} => Valid(ledger)
     /\ latest.items # {} => RowsOn(ledger, latest.target) # {}
     /\ latest.items # {} => ledger[LastOf(RowsOn(ledger, latest.target))].id = latest.id
  THEN latest.items ELSE {}

\* What a reader is told a date shows; one that meets a row it rejects is told
\* nothing, of any date.
Committed ==
  [d \in Dates |-> IF Valid(ledger) /\ RowsOn(ledger, d) # {} THEN StateOn(ledger, d) ELSE {}]

\* The ledger implements the promise: as long as it validates every date has one
\* growing set of at most Cap symbols, and once it does not it never does again,
\* though runs race, die inside an append or write on the line another left.
Promise == INSTANCE DailyCap WITH published <- Committed, readable <- Valid(ledger)
KeepsDailyCap == Promise!Spec

RowsIn(log) == {log[i] : i \in DOMAIN log} \ Torn

\* The record of r went onto the line that another run, since ended, had not
\* finished, and made no row of it.
Swallowed(log, r) ==
  \E line \in {log[i] : i \in DOMAIN log} \cap Torn : \E s \in Runs \ {r} :
    {r, s} \subseteq line.by /\ stage[s] \in Ended

\* The three files are written one after the other, by runs that may race, fail
\* or die in between: what a reader sees is in the history already and is part of
\* what the ledger shows of the date, and what the history, which the cooldown and
\* the legacy seed read, names of a run a ledger row had committed.  A record of a
\* finished append is missing only if an earlier append had been torn and its line
\* swallowed the record.
ShownIsRecorded ==
  /\ Visible # {} =>
       \/ \E entry \in RowsIn(history) : entry.id = latest.id /\ entry.items = Visible
       \/ Swallowed(history, latest.id)
  /\ Visible \subseteq Committed[latest.target]
  /\ \A entry \in RowsIn(history) : entry.id # NoRun /\ entry.items # {} =>
       \/ \E row \in RowsIn(ledger) :
            /\ row.id = entry.id
            /\ row.target = entry.target /\ row.published = entry.items
       \/ Swallowed(ledger, entry.id)

\* A ledger that only a torn append can break, which is what runs leave that never
\* overlap.
LedgerIntact ==
  \A i \in 1 .. Len(ledger) : ledger[i] \in Torn \/ i \in Accepted(ledger)

\* When no run is active, a snapshot that claims live proof is shown as it was
\* published as long as its audit stands.  The one way to lose it is a later run
\* that died after its ledger row and before its snapshot: the row supersedes
\* the snapshot of the earlier run, so neither is shown.
Quiet == \A r \in Runs : stage[r] \in Ended \cup {"idle"}
Superseded ==
  \E i \in RowsOn(ledger, latest.target) : stage[ledger[i].id] = "crashed"
Untorn == \A i \in 1 .. Len(ledger) : ledger[i] \notin Torn
SnapshotShown ==
  Quiet /\ latest.status = "live_proven" /\ pool = latest.pool
    /\ Untorn /\ ~Superseded
      => Visible = latest.items

\* Runs that never overlapped are shown as they published.
PublishedIsShown == ~overlapped => SnapshotShown
=============================================================================
