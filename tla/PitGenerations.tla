---------------------------- MODULE PitGenerations ----------------------------
(***************************************************************************)
(* The generations of the point-in-time store (app/research_pit_store.py)  *)
(* and the collector that fills them (app/research_pit_collector.py).  A   *)
(* generation gathers one captured answer per shard, and becomes visible   *)
(* as a whole when the head is moved to it.  The methods are the same for  *)
(* the four datasets of one trade date and for the eight partitions of the *)
(* security master.  The store is an SQLite database: each method is one   *)
(* transaction; between two of them other collectors run, processes die,   *)
(* and any process that opens the store closes the attempts it takes for   *)
(* abandoned.                                                              *)
(*                                                                         *)
(* Partitions of the master are fetched one after the other, while a       *)
(* security may move from one to another (it is listed, or delisted): home *)
(* is the partition that lists the one that moves.  Answers that are not   *)
(* acceptable leave an attempt that is never staged, and are left out.     *)
(***************************************************************************)
EXTENDS Integers, Sequences, FiniteSets

CONSTANTS
  Procs,        \* running collectors
  Datasets,     \* MARKET_SESSION_DATASETS, or REQUIRED_STOCK_PARTITIONS
  Movable,      \* where the security may be, {} when none moves
  Nowhere,
  Semantics,    \* digests of what a request asks, and of whom
  Official,     \* the one a collector is configured with by default
  Window,       \* MARKET_SESSION_GENERATION_WINDOW_SECONDS
  MaxClock, MaxGenerations, MaxAttempts  \* bounds

ASSUME GenerationAssumption ==
  /\ Official \in Semantics
  /\ Window \in Nat
  /\ Movable \subseteq Datasets \cup {Nowhere} /\ Nowhere \notin Datasets
  /\ MaxClock \in Nat /\ MaxGenerations \in Nat /\ MaxAttempts \in Nat

VARIABLES
  clock,
  home,      \* what the provider lists where
  gens,      \* market_session_generations with their shards, by sequence
  attempts,  \* fetch_attempts with their promotion event, by sequence
  head,      \* market_session_generation_head, 0 when there is none
  pc,        \* where each collector is
  loc        \* its local variables

world == <<clock, home>>
vars == <<world, gens, attempts, head, pc, loc>>
store == <<gens, attempts, head>>

GenIds == 1 .. Len(gens)
Generation == [status : {"collecting", "published", "abandoned"},
               started : Nat, pin : Semantics,
               shard : [Datasets -> Nat]]   \* 0: not staged
Attempt == [data : Datasets, sem : Semantics, at : Nat, lists : BOOLEAN,
            event : {"none", "staged", "rejected"}, gen : Nat]
Local == [resume : BOOLEAN, sem : Semantics, now : Nat, gen : Nat,
          seen : SUBSET Datasets, att : Nat]
Places == {"idle", "now", "begin", "check", "again", "fetch", "stage"}
Blank == [resume |-> TRUE, sem |-> Official, now |-> 0, gen |-> 0, seen |-> {}, att |-> 0]

TypeOK ==
  /\ clock \in Nat
  /\ home \in Datasets \cup {Nowhere}
  /\ gens \in Seq(Generation)
  /\ attempts \in Seq(Attempt)
  /\ head \in Nat
  /\ pc \in [Procs -> Places]
  /\ loc \in [Procs -> Local]

Init ==
  /\ clock = 0
  /\ home \in IF Movable = {} THEN {Nowhere} ELSE Movable
  /\ gens = <<>> /\ attempts = <<>> /\ head = 0
  /\ pc = [p \in Procs |-> "idle"]
  /\ loc = [p \in Procs |-> Blank]

Go(p, from, to) == pc[p] = from /\ pc' = [pc EXCEPT ![p] = to]
Leave(p) == pc' = [pc EXCEPT ![p] = "idle"] /\ loc' = [loc EXCEPT ![p] = Blank]
Staged(g) == {d \in Datasets : gens[g].shard[d] # 0}
Collecting == {g \in GenIds : gens[g].status = "collecting"}
Published == {g \in GenIds : gens[g].status = "published"}

Tick == clock < MaxClock /\ clock' = clock + 1 /\ UNCHANGED <<home, store, pc, loc>>

Move == home' \in Movable \ {home} /\ UNCHANGED <<clock, store, pc, loc>>

-----------------------------------------------------------------------------
(* Opening the store. *)

\* Mutant: attempts with an event are recovered as well.
OrphanAnyway(a) == attempts[a].event # "rejected"

Orphan(a) == attempts[a].event = "none"

\* _recover_orphan_promotions_on_connection, which every constructor of the
\* store runs: a captured answer without a shard is closed for good.
OpenStore ==
  /\ attempts' = [a \in DOMAIN attempts |->
       IF Orphan(a) THEN [attempts[a] EXCEPT !.event = "rejected"] ELSE attempts[a]]
  /\ UNCHANGED <<world, gens, head, pc, loc>>

-----------------------------------------------------------------------------
(* collect_market_session_generation. *)

\* A published generation of the same requests is enough when resuming.
Reusable(sem) == head # 0 /\ gens[head].pin = sem

\* Each run of a collector is configured anew.
Start(p, resume, sem) ==
  /\ ~(resume /\ Reusable(sem))
  /\ Go(p, "idle", "now")
  /\ loc' = [loc EXCEPT ![p].resume = resume, ![p].sem = sem]
  /\ UNCHANGED <<world, store>>

\* The clock is read before the transaction that uses it.
ReadClock(p) ==
  /\ Go(p, "now", "begin")
  /\ loc' = [loc EXCEPT ![p].now = clock]
  /\ UNCHANGED <<world, store>>

Expired(g, now) == Staged(g) # Datasets /\ now - gens[g].started > Window

\* Whether a generation being collected is taken up.
Keeps(p, force, g) == ~force /\ ~Expired(g, loc[p].now) /\ gens[g].pin = loc[p].sem

\* begin_or_resume_market_session_generation: take up the one generation being
\* collected, or abandon it and begin the next.
Resume(p, force, next) ==
  \E g \in Collecting :
    /\ loc[p].now >= gens[g].started
    /\ Keeps(p, force, g)
    /\ loc' = [loc EXCEPT ![p].gen = g, ![p].seen = Staged(g)]
    /\ pc' = [pc EXCEPT ![p] = next]
    /\ UNCHANGED <<world, store>>

New(p) == [status |-> "collecting", started |-> loc[p].now, pin |-> loc[p].sem,
           shard |-> [d \in Datasets |-> 0]]

\* Mutant: the old generation stays open.
AbandonNone == gens

\* The generations after the one being collected, if any, has been abandoned.
Abandon ==
  [g \in GenIds |->
     IF g \in Collecting THEN [gens[g] EXCEPT !.status = "abandoned"] ELSE gens[g]]

Replace(p, force, next) ==
  /\ \A g \in Collecting : loc[p].now >= gens[g].started /\ ~Keeps(p, force, g)
  /\ Len(gens) < MaxGenerations
  /\ gens' = Append(Abandon, New(p))
  /\ loc' = [loc EXCEPT ![p].gen = Len(gens) + 1, ![p].seen = {}]
  /\ pc' = [pc EXCEPT ![p] = next]
  /\ UNCHANGED <<world, attempts, head>>

\* "generation clock moved backwards"
ClockRefused(p) ==
  /\ \E g \in Collecting : loc[p].now < gens[g].started
  /\ Leave(p)
  /\ UNCHANGED <<world, store>>

BeginOrResume(p, force, next) ==
  Resume(p, force, next) \/ Replace(p, force, next) \/ ClockRefused(p)

Begin(p) ==
  /\ pc[p] = "begin"
  /\ BeginOrResume(p, ~loc[p].resume, IF loc[p].resume THEN "check" ELSE "fetch")

\* Mutant: only a complete generation is taken up.
MatchesComplete(p) == loc[p].seen \in {{}, Datasets}

\* _staged_generation_matches_request_semantics: the events in the store must
\* be those of the shards seen a moment ago.
Matches(p) ==
  \/ loc[p].seen = {}
  \/ /\ Staged(loc[p].gen) = loc[p].seen
     /\ \A d \in loc[p].seen : attempts[gens[loc[p].gen].shard[d]].sem = loc[p].sem

Check(p) ==
  /\ Go(p, "check", IF Matches(p) THEN "fetch" ELSE "again")
  /\ UNCHANGED <<world, store, loc>>

\* The generation begun a moment ago is given up, and the clock is not read again.
BeginAgain(p) == pc[p] = "again" /\ BeginOrResume(p, TRUE, "fetch")

\* Mutant: all datasets are fetched, staged or not.
MissingAll(p) == Datasets

Missing(p) == Datasets \ loc[p].seen

\* One dataset is fetched (the code has an order, on which nothing depends);
\* record_fetch_attempt stores the answer.
Fetch(p, d) ==
  /\ Go(p, "fetch", "stage")
  /\ d \in Missing(p)
  /\ Len(attempts) < MaxAttempts
  /\ attempts' = Append(attempts, [data |-> d, sem |-> loc[p].sem, at |-> clock,
                                   lists |-> d = home, event |-> "none", gen |-> 0])
  /\ loc' = [loc EXCEPT ![p].att = Len(attempts) + 1]
  /\ UNCHANGED <<world, gens, head>>

\* Mutant: the window is not looked at.
CanStageLate(g, a) ==
  /\ gens[g].status = "collecting"
  /\ gens[g].shard[attempts[a].data] = 0
  /\ attempts[a].event = "none"
  /\ attempts[a].sem = gens[g].pin
  /\ attempts[a].at >= gens[g].started

\* What stage_market_session_attempt asks for.
CanStage(g, a) ==
  /\ gens[g].status = "collecting"
  /\ gens[g].shard[attempts[a].data] = 0
  /\ attempts[a].event = "none"
  /\ attempts[a].sem = gens[g].pin
  /\ attempts[a].at >= gens[g].started
  /\ attempts[a].at - gens[g].started <= Window

\* The shard and the event of its attempt, in one transaction.
Stage(p) ==
  LET g == loc[p].gen
      a == loc[p].att
      d == attempts[a].data
  IN /\ Go(p, "stage", "fetch")
     /\ CanStage(g, a)
     /\ gens' = [gens EXCEPT ![g].shard[d] = a]
     /\ attempts' = [attempts EXCEPT ![a].event = "staged", ![a].gen = g]
     /\ loc' = [loc EXCEPT ![p].seen = @ \cup {d}, ![p].att = 0]
     /\ UNCHANGED <<world, head>>

StageRefused(p) ==
  /\ pc[p] = "stage"
  /\ ~CanStage(loc[p].gen, loc[p].att)
  /\ Leave(p)
  /\ UNCHANGED <<world, store>>

Lists(g, d) == attempts[gens[g].shard[d]].lists

\* _market_session_manifest_on_connection and its like: what a generation must
\* show, when it is published and whenever it is read.
Verifies(g) ==
  /\ Staged(g) = Datasets
  /\ \A d, e \in Datasets : Lists(g, d) /\ Lists(g, e) => d = e
  /\ \A d \in Datasets :
       LET a == attempts[gens[g].shard[d]]
       IN /\ a.data = d /\ a.sem = gens[g].pin
          /\ a.event = "staged" /\ a.gen = g
          /\ a.at >= gens[g].started /\ a.at - gens[g].started <= Window

\* Mutant: an abandoned generation can still be published.
CanPublishAbandoned(g) == Verifies(g)

CanPublish(g) == gens[g].status # "abandoned" /\ Verifies(g)

Ready(p) == pc[p] = "fetch" /\ Missing(p) = {}

\* publish_market_session_generation: the status and the head in one
\* transaction; a generation published already stays as it is.  The collector
\* reads the head back and raises if another one has moved it on since.
Publish(p) ==
  LET g == loc[p].gen
  IN /\ Ready(p) /\ CanPublish(g)
     /\ Leave(p)
     /\ gens' = [gens EXCEPT ![g].status = "published"]
     /\ head' = IF gens[g].status = "published" THEN head ELSE g
     /\ UNCHANGED <<world, attempts>>

PublishRefused(p) ==
  /\ Ready(p) /\ ~CanPublish(loc[p].gen)
  /\ Leave(p)
  /\ UNCHANGED <<world, store>>

\* The process dies, its attempts at the network are exhausted, or the clock
\* cannot be attested.
Fail(p) ==
  /\ pc[p] # "idle"
  /\ Leave(p)
  /\ UNCHANGED <<world, store>>

Next ==
  \/ Tick \/ Move \/ OpenStore
  \/ \E p \in Procs :
       \/ \E resume \in BOOLEAN, sem \in Semantics : Start(p, resume, sem)
       \/ ReadClock(p) \/ Begin(p) \/ Check(p) \/ BeginAgain(p)
       \/ \E d \in Datasets : Fetch(p, d)
       \/ Stage(p) \/ StageRefused(p)
       \/ Publish(p) \/ PublishRefused(p) \/ Fail(p)

Spec == Init /\ [][Next]_vars

-----------------------------------------------------------------------------
(***************************************************************************)
(* Properties.                                                             *)
(***************************************************************************)

\* _active_market_session_on_connection never raises: the head names the newest
\* published generation, whoever publishes what and when.
HeadIsNewest ==
  /\ head = 0 => Published = {}
  /\ head # 0 => head \in Published /\ \A g \in Published : g <= head

\* Nothing that happens in the store later makes a published generation
\* unreadable: its shards are complete, of its requests, within the window, and
\* their attempts are still bound to it.
PublishedVerifies == \A g \in Published : Verifies(g)

\* An answer belongs to at most one generation, and is staged there exactly when
\* its event says so.
StagedOnce ==
  \A a \in DOMAIN attempts :
    {g \in GenIds : \E d \in Datasets : gens[g].shard[d] = a}
      = IF attempts[a].event = "staged" THEN {attempts[a].gen} ELSE {}

\* What was published, and in which order, is never rewritten.
PublishedStays ==
  [][/\ head' >= head
     /\ \A g \in Published : gens'[g] = gens[g]]_vars

\* HANDOFF.md has an interrupted batch make the next resume fail with "already
\* staged; conflict".  A collector that has the store to itself never meets it.
NoConflict ==
  \A p \in Procs : pc[p] = "stage" =>
    LET g == gens[loc[p].gen] IN
      g.status = "collecting" => g.shard[attempts[loc[p].att].data] = 0

\* test_complete_staging_generation_is_published_after_crash_without_network: a
\* complete generation, which never expires, can be published.
CompleteIsPublishable == \A g \in Collecting : Staged(g) = Datasets => Verifies(g)

\* README.md: fresh partial generations resume.  Who resumes abandons only what
\* is too old or was requested otherwise.
FreshPartialResumes ==
  [][\A p \in Procs : \A g \in Collecting :
       pc'[p] # pc[p] /\ loc[p].resume /\ gens'[g].status = "abandoned" =>
         Expired(g, loc[p].now) \/ gens[g].pin # loc[p].sem]_vars

\* _recover_orphan_promotions_on_connection: a captured answer without a shard
\* is evidence of an interrupted staging.
RejectedWasInterrupted ==
  [][\A a \in DOMAIN attempts :
       attempts[a].event = "none" /\ attempts'[a].event = "rejected" =>
         ~\E p \in Procs : pc[p] = "stage" /\ loc[p].att = a]_vars
===============================================================================
