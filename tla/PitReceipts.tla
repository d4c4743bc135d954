------------------------------ MODULE PitReceipts ------------------------------
(***************************************************************************)
(* Receipts of single answers: collectors ask for parts, record every      *)
(* answer as an attempt, promote an attempt to the receipt of its part and *)
(* close the attempt with one event, in four transactions of their own     *)
(* (research_pit_collector.py fetch_partition, research_pit_store.py       *)
(* record_fetch_attempt, promote_fetch_attempt).  Opening the store, and   *)
(* reading its index, closes the attempts that have no event: the          *)
(* transactions of a collector that is still alive among them.             *)
(*                                                                         *)
(* A fetch is one collector's work on one part.  The index of a store is   *)
(* not kept: it is computed from the attempts and the receipts.            *)
(***************************************************************************)
EXTENDS Naturals, Sequences, SequencesExt

CONSTANTS
  Collectors, Parts,
  Plan,        \* the parts each collector is to get
  Bodies,      \* complete answers
  Refused,     \* those of them the store does not take in
  Lost,        \* no answer
  Faulty,      \* an answer the collector itself rejects
  NoBody,
  MaxTries,    \* max_attempts of a fetch
  MaxRuns      \* bound: runs of all collectors together

ASSUME ReceiptsAssumption ==
  /\ Plan \in [Collectors -> SUBSET Parts]
  /\ Refused \subseteq Bodies
  /\ Lost # Faulty
  /\ {Lost, Faulty, NoBody} \cap Bodies = {}
  /\ NoBody \notin {Lost, Faulty}
  /\ MaxTries \in Nat \ {0}
  /\ MaxRuns \in Nat

VARIABLES
  attempts,    \* of every fetch, the rows of fetch_attempts with their event
  receipt,     \* body of every part's receipt, NoBody when there is none
  up,          \* collectors that run
  cancelled,   \* collectors whose workers were told to stop
  loading,     \* _resume_index: "none", "loading" or "set"
  index,       \* the parts _resume_index holds
  pc, tries,   \* of every fetch
  verdict,     \* of every fetch, what ingesting its answer came to
  runs

vars == <<attempts, receipt, up, cancelled, loading, index, pc, tries, verdict,
          runs>>
store == <<attempts, receipt>>
local == <<up, cancelled, loading, index, runs>>

Fetches == {f \in Collectors \X Parts : f[2] \in Plan[f[1]]}
Answers == Bodies \cup {Lost, Faulty}
Accepted == {"stored", "reused"}
Events == Accepted \cup {"none", "conflict", "invalid", "rejected", "error"}
Attempts == [body: Answers, event: Events]

\* Last attempt of a fetch.
Current(f) == attempts[f][Len(attempts[f])]

Init ==
  /\ attempts = [f \in Fetches |-> <<>>]
  /\ receipt = [p \in Parts |-> NoBody]
  /\ up = {} /\ cancelled = {}
  /\ loading = [c \in Collectors |-> "none"]
  /\ index = [c \in Collectors |-> {}]
  /\ pc = [f \in Fetches |-> "idle"]
  /\ tries = [f \in Fetches |-> 0]
  /\ verdict = [f \in Fetches |-> "none"]
  /\ runs = 0

----------------------------------------------------------------------------
\* The store.

Indexes(event) == event \in Accepted

\* The parts controlled_receipt_index finds among the rows given.
IndexOf(rows, r) ==
  {p \in Parts : \E f \in Fetches : \E i \in 1..Len(rows[f]) :
     f[2] = p /\ Indexes(rows[f][i].event) /\ rows[f][i].body = r[p]}
Indexed == IndexOf(attempts, receipt)

\* Mutant: recovery does not look for a receipt.
RecoveryIgnoresReceipts(a, p) ==
  IF a.body \in Bodies THEN "rejected" ELSE "error"

\* Event of an attempt that has none, when the store is opened or read.
Recovery(a, p) ==
  CASE receipt[p] = a.body -> "reused"
    [] receipt[p] # a.body /\ a.body \in Bodies -> "rejected"
    [] OTHER -> "error"

Closed(a, p) ==
  IF a.event = "none" THEN [a EXCEPT !.event = Recovery(a, p)] ELSE a
Recovered == [f \in Fetches |->
  [i \in 1..Len(attempts[f]) |-> Closed(attempts[f][i], f[2])]]

\* Mutant: another body counts as the receipt.
IngestedAgain(p, body) ==
  CASE body \in Refused -> "invalid"
    [] body \notin Refused /\ receipt[p] = NoBody -> "stored"
    [] OTHER -> "reused"

\* What ingesting a body does to the receipt of its part.
Ingested(p, body) ==
  CASE body \in Refused -> "invalid"
    [] body \notin Refused /\ receipt[p] = NoBody -> "stored"
    [] body \notin Refused /\ receipt[p] = body -> "reused"
    [] OTHER -> "conflict"

\* The first event of an attempt stays, and is what the caller is told.
FirstEvent(f, event) ==
  IF Current(f).event = "none" THEN event ELSE Current(f).event

\* Mutant: the caller is told its own event.
OwnEvent(f, event) == event

Told(f, event) == FirstEvent(f, event)

WithEvent(f, event) ==
  [attempts EXCEPT ![f][Len(attempts[f])].event = FirstEvent(f, event)]

----------------------------------------------------------------------------
\* A collector and its workers.

Of(c) == {f \in Fetches : f[1] = c}
Ended == {"done", "failed", "cancelled"}

Move(f, from, to) == pc[f] = from /\ pc' = [pc EXCEPT ![f] = to]

\* A failed task tells the others to stop.
Fail(f) ==
  /\ pc' = [pc EXCEPT ![f] = "failed"]
  /\ cancelled' = cancelled \cup {f[1]}

Open(c) ==
  /\ c \notin up /\ runs < MaxRuns
  /\ runs' = runs + 1
  /\ up' = up \cup {c}
  /\ attempts' = Recovered
  /\ pc' = [f \in Fetches |-> IF f[1] = c THEN "queued" ELSE pc[f]]
  /\ UNCHANGED <<receipt, cancelled, loading, index, tries, verdict>>

Invoke(f) ==
  /\ Move(f, "queued", IF f[1] \in cancelled THEN "cancelled" ELSE "looking")
  /\ UNCHANGED <<store, local, tries, verdict>>

\* One worker reads the index for all of them; the others wait for it.
StartLoading(f) ==
  /\ loading[f[1]] = "none"
  /\ Move(f, "looking", "loading")
  /\ loading' = [loading EXCEPT ![f[1]] = "loading"]
  /\ UNCHANGED <<store, up, cancelled, index, runs, tries, verdict>>

Load(f) ==
  /\ Move(f, "loading", "looking")
  /\ attempts' = Recovered
  /\ loading' = [loading EXCEPT ![f[1]] = "set"]
  /\ index' = [index EXCEPT ![f[1]] = IndexOf(Recovered, receipt)]
  /\ UNCHANGED <<receipt, up, cancelled, runs, tries, verdict>>

\* Mutant: who fails to read the index does not tell the others.
LoadFailsSilently(f) ==
  /\ pc[f] = "loading"
  /\ Fail(f)
  /\ UNCHANGED <<store, up, loading, index, runs, tries, verdict>>

LoadFails(f) ==
  /\ pc[f] = "loading"
  /\ Fail(f)
  /\ loading' = [loading EXCEPT ![f[1]] = "none"]
  /\ UNCHANGED <<store, up, index, runs, tries, verdict>>

UseIndex(f) ==
  /\ loading[f[1]] = "set"
  /\ Move(f, "looking", IF f[2] \in index[f[1]] THEN "done" ELSE "trying")
  /\ UNCHANGED <<store, local, tries, verdict>>

\* _check_cancelled before every request.
Post(f) ==
  /\ Move(f, "trying", IF f[1] \in cancelled THEN "cancelled" ELSE "posting")
  /\ UNCHANGED <<store, local, tries, verdict>>

\* Giving up for want of an answer stops the other workers at once.
Record(f) == \E body \in Answers :
  /\ Move(f, "posting", IF body \in Bodies THEN "recorded" ELSE "faulty")
  /\ attempts' = [attempts EXCEPT ![f] =
                    Append(@, [body |-> body, event |-> "none"])]
  /\ tries' = [tries EXCEPT ![f] = @ + 1]
  /\ cancelled' = IF body = Lost /\ tries'[f] = MaxTries
                    THEN cancelled \cup {f[1]} ELSE cancelled
  /\ UNCHANGED <<receipt, up, loading, index, runs, verdict>>

RetriesLeft(f) == tries[f] < MaxTries

\* The event of an attempt that failed, then the next try or the end: not
\* every rejected answer is worth another try.
CloseFaulty(f) ==
  /\ pc[f] = "faulty"
  /\ attempts' = WithEvent(f, "error")
  /\ \/ Fail(f) /\ (~RetriesLeft(f) \/ Current(f).body = Faulty)
     \/ /\ RetriesLeft(f)
        /\ pc' = [pc EXCEPT ![f] = "trying"]
        /\ UNCHANGED cancelled
  /\ UNCHANGED <<receipt, up, loading, index, runs, tries, verdict>>

\* What fetch_partition makes of the status it is told.
Conclude(f, told) ==
  \/ /\ told \in Accepted
     /\ pc' = [pc EXCEPT ![f] = "done"]
     /\ index' = [index EXCEPT ![f[1]] = @ \cup {f[2]}]
     /\ UNCHANGED cancelled
  \/ told \notin Accepted /\ Fail(f) /\ UNCHANGED index

\* promote_fetch_attempt: an attempt somebody closed is not promoted, and its
\* event is the answer.
Promote(f) ==
  /\ pc[f] = "recorded"
  /\ \/ /\ Current(f).event = "none"
        /\ pc' = [pc EXCEPT ![f] = "ingesting"]
        /\ UNCHANGED <<cancelled, index>>
     \/ Current(f).event # "none" /\ Conclude(f, Current(f).event)
  /\ UNCHANGED <<store, up, loading, runs, tries, verdict>>

Ingest(f) ==
  LET body == Current(f).body
      outcome == Ingested(f[2], body) IN
  /\ Move(f, "ingesting", "ingested")
  /\ verdict' = [verdict EXCEPT ![f] = outcome]
  /\ receipt' = IF outcome = "stored" THEN [receipt EXCEPT ![f[2]] = body]
                ELSE receipt
  /\ UNCHANGED <<attempts, local, tries>>

Close(f) ==
  /\ pc[f] = "ingested"
  /\ attempts' = WithEvent(f, verdict[f])
  /\ verdict' = [verdict EXCEPT ![f] = "none"]
  /\ Conclude(f, Told(f, verdict[f]))
  /\ UNCHANGED <<receipt, up, loading, runs, tries>>

\* The end of a collector, by itself or by a crash.
Gone(c) ==
  /\ up' = up \ {c}
  /\ cancelled' = cancelled \ {c}
  /\ loading' = [loading EXCEPT ![c] = "none"]
  /\ index' = [index EXCEPT ![c] = {}]
  /\ pc' = [f \in Fetches |-> IF f[1] = c THEN "idle" ELSE pc[f]]
  /\ tries' = [f \in Fetches |-> IF f[1] = c THEN 0 ELSE tries[f]]
  /\ verdict' = [f \in Fetches |-> IF f[1] = c THEN "none" ELSE verdict[f]]
  /\ UNCHANGED <<receipt, runs>>

\* A collector that got every part reads the index once more before it ends.
End(c) ==
  /\ c \in up
  /\ \A f \in Of(c) : pc[f] \in Ended
  /\ attempts' = IF \A f \in Of(c) : pc[f] = "done" THEN Recovered ELSE attempts
  /\ Gone(c)

Crash(c) ==
  /\ c \in up
  /\ Gone(c)
  /\ UNCHANGED attempts

Work(f) ==
  \/ Invoke(f) \/ StartLoading(f) \/ Load(f) \/ LoadFails(f) \/ UseIndex(f)
  \/ Post(f) \/ Record(f) \/ CloseFaulty(f) \/ Promote(f) \/ Ingest(f)
  \/ Close(f)

Next ==
  \/ \E c \in Collectors : Open(c) \/ End(c) \/ Crash(c)
  \/ \E f \in Fetches : Work(f)

Spec == Init /\ [][Next]_vars

\* A worker that can go on does, and a collector whose workers are through
\* ends.
Fairness ==
  /\ \A f \in Fetches : WF_vars(Work(f))
  /\ \A c \in Collectors : WF_vars(End(c))
FairSpec == Spec /\ Fairness

----------------------------------------------------------------------------
\* Fields of the model have the values of their types, and a collector that
\* does not run holds nothing.
TypeOK ==
  /\ attempts \in [Fetches -> Seq(Attempts)]
  /\ receipt \in [Parts -> Bodies \cup {NoBody}]
  /\ up \subseteq Collectors /\ cancelled \subseteq up
  /\ loading \in [Collectors -> {"none", "loading", "set"}]
  /\ index \in [Collectors -> SUBSET Parts]
  /\ pc \in [Fetches -> Ended \cup {"idle", "queued", "looking", "loading", "trying",
               "posting", "recorded", "faulty", "ingesting", "ingested"}]
  /\ tries \in [Fetches -> 0..MaxTries]
  /\ verdict \in [Fetches -> {"none", "stored", "reused", "conflict", "invalid"}]
  /\ runs \in 0..MaxRuns
  /\ \A f \in Fetches : (pc[f] = "idle") <=> (f[1] \notin up)

\* The event of an attempt and the receipts agree, whoever wrote the event:
\* an accepted attempt has the body of its part's receipt, and a conflict has
\* another (promote_fetch_attempt against the recovery of another process).
EventsMatchReceipts ==
  \A f \in Fetches : \A i \in 1..Len(attempts[f]) :
    LET a == attempts[f][i] IN
    /\ a.event \in Accepted => a.body = receipt[f[2]]
    /\ a.event = "conflict" => receipt[f[2]] \notin {NoBody, a.body}

\* A part for which fetch_partition returned is in the index of the store, so
\* that the collection does not end with "controlled receipt lineage is
\* incomplete" although every fetch succeeded.
ReturnedMeansIndexed ==
  \A f \in Fetches : pc[f] = "done" => f[2] \in Indexed

\* Whoever closes an attempt whose body is the receipt brings its part into
\* the index: a crash between the receipt and the event is repaired, as the
\* README says of resuming.
RecoveryRepairs ==
  [][\A f \in Fetches : \A i \in 1..Len(attempts[f]) :
       /\ attempts[f][i].event = "none"
       /\ attempts'[f][i].event # "none"
       /\ attempts[f][i].body = receipt[f[2]]
       => f[2] \in Indexed']_vars

\* A collector comes to its end although one worker reads the index for all
\* and that reading may fail.
EveryRunEnds == \A c \in Collectors : c \in up ~> c \notin up
=============================================================================
