------------------------- MODULE PitGenerationsProofs -------------------------
(***************************************************************************)
(* What holds of the generations for any collectors, datasets and bounds.  *)
(* The inductive invariant says where a collector's references point, that *)
(* only the newest generation can still be collected, and that every shard *)
(* is bound to its attempt and every staged attempt to its shard.          *)
(***************************************************************************)
EXTENDS PitGenerations, SequenceTheorems, TLAPS

\* A collector under way refers to a generation and to an attempt that exist.
Placed ==
  \A p \in Procs :
    /\ pc[p] \in {"check", "again", "fetch", "stage"} => loc[p].gen \in GenIds
    /\ pc[p] = "stage" => loc[p].att \in DOMAIN attempts

\* At most one generation is being collected, and it is the newest.
LastCollecting == \A g \in Collecting : g = Len(gens)

\* The shard of a dataset is an attempt that was accepted for it.
Bound(g, d) ==
  LET a == gens[g].shard[d]
  IN /\ a \in DOMAIN attempts
     /\ attempts[a].data = d /\ attempts[a].sem = gens[g].pin
     /\ attempts[a].event = "staged" /\ attempts[a].gen = g
     /\ attempts[a].at >= gens[g].started
     /\ attempts[a].at - gens[g].started <= Window

ShardsBound == \A g \in GenIds : \A d \in Datasets : gens[g].shard[d] # 0 => Bound(g, d)

\* An attempt whose event says that it is staged is a shard.
EventsBound ==
  \A a \in DOMAIN attempts : attempts[a].event = "staged" =>
    /\ attempts[a].gen \in GenIds
    /\ gens[attempts[a].gen].shard[attempts[a].data] = a

Inv == TypeOK /\ Placed /\ LastCollecting /\ ShardsBound /\ EventsBound

-----------------------------------------------------------------------------
(* The transactions, entry by entry. *)

Opens ==
  /\ UNCHANGED <<gens, head>>
  /\ Len(attempts') = Len(attempts)
  /\ \A a \in DOMAIN attempts :
       attempts'[a] = IF Orphan(a) THEN [attempts[a] EXCEPT !.event = "rejected"]
                                   ELSE attempts[a]

Begins(p) ==
  /\ UNCHANGED <<attempts, head>>
  /\ Len(gens') = Len(gens) + 1
  /\ gens'[Len(gens) + 1] = New(p)
  /\ \A g \in GenIds :
       gens'[g] = IF g \in Collecting THEN [gens[g] EXCEPT !.status = "abandoned"]
                                      ELSE gens[g]

Fetched(p, d) == [data |-> d, sem |-> loc[p].sem, at |-> clock, lists |-> d = home,
                  event |-> "none", gen |-> 0]

Fetches(p, d) ==
  /\ UNCHANGED <<gens, head>>
  /\ Len(attempts') = Len(attempts) + 1
  /\ attempts'[Len(attempts) + 1] = Fetched(p, d)
  /\ \A a \in DOMAIN attempts : attempts'[a] = attempts[a]

Stages(g, a) ==
  /\ UNCHANGED head
  /\ Len(gens') = Len(gens) /\ Len(attempts') = Len(attempts)
  /\ CanStage(g, a)
  /\ gens'[g] = [gens[g] EXCEPT !.shard[attempts[a].data] = a]
  /\ attempts'[a] = [attempts[a] EXCEPT !.event = "staged", !.gen = g]
  /\ \A h \in GenIds \ {g} : gens'[h] = gens[h]
  /\ \A b \in DOMAIN attempts \ {a} : attempts'[b] = attempts[b]

Publishes(g) ==
  /\ UNCHANGED attempts
  /\ Len(gens') = Len(gens)
  /\ CanPublish(g)
  /\ gens'[g] = [gens[g] EXCEPT !.status = "published"]
  /\ \A h \in GenIds \ {g} : gens'[h] = gens[h]
  /\ head' = IF gens[g].status = "published" THEN head ELSE g

Transaction ==
  \/ UNCHANGED store
  \/ Opens
  \/ \E p \in Procs : Begins(p)
  \/ \E p \in Procs, d \in Datasets : Fetches(p, d)
  \/ \E g \in GenIds, a \in DOMAIN attempts : Stages(g, a)
  \/ \E g \in GenIds : Publishes(g)

Typed == gens \in Seq(Generation) /\ attempts \in Seq(Attempt) /\ head \in Nat

\* A function on an initial interval is a sequence.
LEMMA IntervalSeq ==
  ASSUME NEW S, NEW n \in Nat, NEW f \in [1 .. n -> S]
  PROVE  f \in Seq(S) /\ Len(f) = n /\ DOMAIN f = 1 .. n
<1>1. f \in Seq(S)
  BY SeqDef
<1>2. DOMAIN f = 1 .. Len(f) /\ Len(f) \in Nat
  BY <1>1, LenProperties
<1> QED
  BY <1>1, <1>2

LEMMA TypedParts ==
  ASSUME Typed
  PROVE  /\ Len(gens) \in Nat /\ DOMAIN gens = GenIds
         /\ \A g \in GenIds : gens[g] \in Generation
         /\ Len(attempts) \in Nat /\ DOMAIN attempts = 1 .. Len(attempts)
         /\ \A a \in DOMAIN attempts : attempts[a] \in Attempt
<1>1. gens \in Seq(Generation) /\ attempts \in Seq(Attempt)
  BY DEF Typed
<1> HIDE DEF Generation, Attempt
<1> QED
  BY <1>1, LenProperties, ElementOfSeq DEF GenIds

\* Each action of the store is one of the transactions.
LEMMA Transactions ==
  ASSUME GenerationAssumption, TypeOK, Placed, [Next]_vars
  PROVE  Transaction /\ Typed'
<1>0. Typed
  BY DEF TypeOK, Typed
<1>1. ASSUME UNCHANGED store PROVE Transaction /\ Typed'
  BY <1>0, <1>1 DEF Transaction, Typed, store
<1>2. CASE OpenStore
  <2>1. \A a \in DOMAIN attempts :
          (IF Orphan(a) THEN [attempts[a] EXCEPT !.event = "rejected"] ELSE attempts[a])
            \in Attempt
    BY <1>0, TypedParts DEF Attempt
  <2>2. attempts' \in [1 .. Len(attempts) -> Attempt]
    BY <1>0, <1>2, <2>1, TypedParts DEF OpenStore
  <2>3. attempts' \in Seq(Attempt) /\ Len(attempts') = Len(attempts)
    BY <1>0, <2>2, TypedParts, IntervalSeq
  <2> QED
    BY <1>0, <1>2, <2>3 DEF OpenStore, Transaction, Opens, Typed
<1>3. ASSUME NEW p \in Procs, NEW force \in BOOLEAN, NEW next, BeginOrResume(p, force, next)
      PROVE  Transaction /\ Typed'
  <2>1. CASE Resume(p, force, next) \/ ClockRefused(p)
    BY <1>1, <2>1 DEF Resume, ClockRefused
  <2>2. CASE Replace(p, force, next)
    <3>1. \A g \in GenIds :
            (IF g \in Collecting THEN [gens[g] EXCEPT !.status = "abandoned"] ELSE gens[g])
              \in Generation
      BY <1>0, TypedParts DEF Generation
    <3>2. Abandon \in [1 .. Len(gens) -> Generation]
      BY <3>1 DEF Abandon, GenIds
    <3>3. Abandon \in Seq(Generation) /\ Len(Abandon) = Len(gens)
      BY <1>0, <3>2, TypedParts, IntervalSeq
    <3>4. New(p) \in Generation
      BY DEF New, Generation, Local, TypeOK, GenerationAssumption
    <3>5. gens' \in Seq(Generation) /\ Len(gens') = Len(gens) + 1
          /\ gens'[Len(gens) + 1] = New(p)
          /\ \A g \in GenIds : gens'[g] = Abandon[g]
      BY <1>0, <2>2, <3>3, <3>4, TypedParts DEF Replace, GenIds
    <3>6. Begins(p)
      BY <2>2, <3>5 DEF Begins, Replace, Abandon
    <3>7. Typed'
      BY <1>0, <2>2, <3>5 DEF Typed, Replace
    <3> QED
      BY <3>6, <3>7 DEF Transaction
  <2> QED
    BY <1>3, <2>1, <2>2 DEF BeginOrResume
<1>4. ASSUME NEW p \in Procs, NEW d \in Datasets, Fetch(p, d)
      PROVE  Transaction /\ Typed'
  <2>1. Fetched(p, d) \in Attempt
    BY DEF Fetched, Attempt, Local, TypeOK, GenerationAssumption
  <2>2. attempts' = Append(attempts, Fetched(p, d)) /\ UNCHANGED <<gens, head>>
    BY <1>4 DEF Fetch, Fetched
  <2>3. attempts' \in Seq(Attempt) /\ Len(attempts') = Len(attempts) + 1
        /\ attempts'[Len(attempts) + 1] = Fetched(p, d)
        /\ \A a \in DOMAIN attempts : attempts'[a] = attempts[a]
    BY <1>0, <2>1, <2>2, TypedParts DEF Typed
  <2> QED
    BY <1>0, <2>2, <2>3 DEF Transaction, Fetches, Typed
<1>5. ASSUME NEW p \in Procs, Stage(p)
      PROVE  Transaction /\ Typed'
  <2> DEFINE g == loc[p].gen
             a == loc[p].att
             d == attempts[a].data
             newG == [gens[g] EXCEPT !.shard[d] = a]
             newA == [attempts[a] EXCEPT !.event = "staged", !.gen = g]
  <2>0. pc[p] = "stage"
    BY <1>5 DEF Stage, Go
  <2>1. g \in GenIds /\ a \in DOMAIN attempts
    BY <2>0 DEF Placed
  <2>2. gens[g] \in Generation /\ attempts[a] \in Attempt
    BY <1>0, <2>1, TypedParts
  <2>e. g \in Nat /\ a \in Nat
    BY <1>0, <2>1, TypedParts DEF GenIds
  <2>3. newA \in Attempt
    <3> HIDE DEF g, a
    <3> QED  BY <2>2, <2>e DEF Attempt
  <2>4. newG \in Generation
    <3> HIDE DEF g, a
    <3>1. d \in Datasets  BY <2>2 DEF Attempt
    <3> HIDE DEF d
    <3> QED  BY <2>2, <2>e, <3>1 DEF Generation
  <2>5. gens' = [gens EXCEPT ![g] = newG] /\ attempts' = [attempts EXCEPT ![a] = newA]
        /\ UNCHANGED head
    BY <1>5 DEF Stage
  <2>6. gens \in Seq(Generation) /\ attempts \in Seq(Attempt) /\ g \in 1 .. Len(gens)
        /\ a \in 1 .. Len(attempts)
    BY <1>0, <2>1, TypedParts DEF Typed, GenIds
  <2>7. CanStage(g, a)
    BY <1>5 DEF Stage
  <2> HIDE DEF g, a, newG, newA
  <2>8. gens' \in Seq(Generation) /\ Len(gens') = Len(gens) /\ gens'[g] = newG
        /\ \A h \in GenIds \ {g} : gens'[h] = gens[h]
    BY <2>4, <2>5, <2>6, ExceptSeq DEF GenIds
  <2>9. attempts' \in Seq(Attempt) /\ Len(attempts') = Len(attempts) /\ attempts'[a] = newA
        /\ \A b \in DOMAIN attempts \ {a} : attempts'[b] = attempts[b]
    BY <1>0, <2>3, <2>5, <2>6, ExceptSeq, TypedParts
  <2>10. Stages(g, a)
    BY <2>5, <2>7, <2>8, <2>9 DEF Stages, newG, newA
  <2>11. Typed'
    BY <1>0, <2>5, <2>8, <2>9 DEF Typed
  <2> QED
    BY <2>1, <2>10, <2>11 DEF Transaction
<1>6. ASSUME NEW p \in Procs, Publish(p)
      PROVE  Transaction /\ Typed'
  <2> DEFINE g == loc[p].gen
             newG == [gens[g] EXCEPT !.status = "published"]
  <2>1. g \in GenIds
    BY <1>6 DEF Publish, Ready, Placed
  <2>2. gens[g] \in Generation /\ g \in Nat
    BY <1>0, <2>1, TypedParts DEF GenIds
  <2>3. newG \in Generation
    BY <2>2 DEF Generation
  <2>4. gens' = [gens EXCEPT ![g] = newG] /\ UNCHANGED attempts /\ CanPublish(g)
        /\ head' = IF gens[g].status = "published" THEN head ELSE g
    BY <1>6 DEF Publish
  <2>5. gens \in Seq(Generation) /\ g \in 1 .. Len(gens)
    BY <1>0, <2>1 DEF Typed, GenIds
  <2> HIDE DEF g, newG
  <2>6. gens' \in Seq(Generation) /\ Len(gens') = Len(gens) /\ gens'[g] = newG
        /\ \A h \in GenIds \ {g} : gens'[h] = gens[h]
    BY <2>3, <2>4, <2>5, ExceptSeq DEF GenIds
  <2>7. Publishes(g)
    BY <2>4, <2>6 DEF Publishes, newG
  <2>8. Typed'
    BY <1>0, <2>2, <2>4, <2>6 DEF Typed
  <2> QED
    BY <2>1, <2>7, <2>8 DEF Transaction
<1>7. CASE \/ Tick \/ Move \/ UNCHANGED vars
           \/ \E p \in Procs : \/ \E resume \in BOOLEAN, sem \in Semantics : Start(p, resume, sem)
                               \/ ReadClock(p) \/ Check(p) \/ StageRefused(p)
                               \/ PublishRefused(p) \/ Fail(p)
  <2>1. UNCHANGED store
    BY <1>7 DEF Tick, Move, vars, store, Start, ReadClock, Check, StageRefused, PublishRefused, Fail
  <2> QED
    BY <1>1, <2>1
<1>8. ASSUME NEW p \in Procs, Begin(p) \/ BeginAgain(p)
      PROVE  Transaction /\ Typed'
  <2>1. CASE Begin(p)
    <3>1. (~loc[p].resume) \in BOOLEAN
      OBVIOUS
    <3> QED
      BY <1>3, <2>1, <3>1 DEF Begin
  <2> QED
    BY <1>3, <1>8, <2>1 DEF BeginAgain
<1> QED
  BY <1>2, <1>4, <1>5, <1>6, <1>7, <1>8 DEF Next

\* The entries of the tables are numbered without gaps, in every state.
LEMMA Numbered ==
  ASSUME Typed, Typed'
  PROVE  /\ DOMAIN attempts = 1 .. Len(attempts)
         /\ (DOMAIN attempts)' = 1 .. Len(attempts')
         /\ GenIds = 1 .. Len(gens) /\ GenIds' = 1 .. Len(gens')
         /\ Len(gens) \in Nat /\ Len(attempts) \in Nat
         /\ Len(gens') \in Nat /\ Len(attempts') \in Nat
<1>1. (DOMAIN attempts)' = 1 .. Len(attempts') /\ Len(gens') \in Nat /\ Len(attempts') \in Nat
  BY LenProperties DEF Typed
<1> QED
  BY <1>1, TypedParts DEF GenIds

\* Nothing is ever removed from the store.
LEMMA Grows ==
  ASSUME Typed, Typed', Transaction
  PROVE  GenIds \subseteq GenIds' /\ DOMAIN attempts \subseteq (DOMAIN attempts)'
<1> DEFINE Longer == Len(gens') >= Len(gens) /\ Len(attempts') >= Len(attempts)
<1>1. Longer
  <2>1. CASE UNCHANGED store
    BY <2>1, Numbered DEF store
  <2>2. CASE Opens
    BY <2>2, Numbered DEF Opens
  <2>3. ASSUME NEW p \in Procs, Begins(p) PROVE Longer
    BY <2>3, Numbered DEF Begins
  <2>4. ASSUME NEW p \in Procs, NEW d \in Datasets, Fetches(p, d) PROVE Longer
    BY <2>4, Numbered DEF Fetches
  <2>5. CASE \E g \in GenIds, a \in DOMAIN attempts : Stages(g, a)
    BY <2>5, Numbered DEF Stages
  <2>6. CASE \E g \in GenIds : Publishes(g)
    BY <2>6, Numbered DEF Publishes
  <2> QED
    BY <2>1, <2>2, <2>3, <2>4, <2>5, <2>6 DEF Transaction
<1> QED
  BY <1>1, Numbered

LEMMA LocalsStep ==
  ASSUME GenerationAssumption, TypeOK, Placed, [Next]_vars
  PROVE  TypeOK' /\ Placed'
<1> USE DEF Places
<1>0. Typed /\ Typed' /\ Transaction
  BY Transactions DEF TypeOK, Typed
<1>1. GenIds \subseteq GenIds' /\ DOMAIN attempts \subseteq (DOMAIN attempts)'
      /\ GenIds \subseteq Nat /\ DOMAIN attempts \subseteq Nat
      /\ GenIds' = 1 .. Len(gens') /\ (DOMAIN attempts)' = 1 .. Len(attempts')
      /\ Len(gens) \in Nat /\ Len(attempts) \in Nat
  BY <1>0, Numbered, Grows
<1>2. clock' \in Nat /\ home' \in Datasets \cup {Nowhere}
  <2>1. CASE Tick
    BY <2>1 DEF Tick, TypeOK
  <2>2. CASE Move
    BY <2>2 DEF Move, TypeOK, GenerationAssumption
  <2>3. ASSUME NEW p \in Procs, NEW force, NEW next, BeginOrResume(p, force, next)
        PROVE  UNCHANGED world
    BY <2>3 DEF BeginOrResume, Resume, Replace, ClockRefused
  <2>4. UNCHANGED world \/ Tick \/ Move
    BY <2>3 DEF Next, vars, OpenStore, Start, ReadClock, Begin, BeginAgain, Check, Fetch,
                Stage, StageRefused, Publish, PublishRefused, Fail
  <2> QED
    BY <2>1, <2>2, <2>4 DEF TypeOK, world
\* What a step may do to the locals of the collector that takes it.
<1> DEFINE Local1(p, place, l) ==
             /\ place \in Places /\ l \in Local
             /\ place \in {"check", "again", "fetch", "stage"} => l.gen \in GenIds'
             /\ place = "stage" => l.att \in (DOMAIN attempts)'
           Moves(p) == \E place \in Places, l \in Local :
                           /\ Local1(p, place, l)
                           /\ pc' = [pc EXCEPT ![p] = place]
                           /\ loc' = [loc EXCEPT ![p] = l]
<1>3. \A p \in Procs : /\ pc[p] \in Places /\ loc[p] \in Local /\ Local1(p, pc[p], loc[p])
  BY <1>1 DEF TypeOK, Placed
<1>4. ASSUME NEW p \in Procs, Leave(p) PROVE Moves(p)
  <2>1. Local1(p, "idle", Blank)
    BY DEF Local, Blank
  <2> QED
    BY <1>4, <2>1 DEF Leave
<1>5. ASSUME NEW p \in Procs, NEW resume \in BOOLEAN, NEW sem \in Semantics,
             Start(p, resume, sem) PROVE Moves(p)
  <2> DEFINE l == [loc[p] EXCEPT !.resume = resume, !.sem = sem]
  <2>1. Local1(p, "now", l)
    BY <1>3 DEF Local
  <2> QED
    BY <1>5, <2>1 DEF Start, Go
<1>6. ASSUME NEW p \in Procs, ReadClock(p) PROVE Moves(p)
  <2> DEFINE l == [loc[p] EXCEPT !.now = clock]
  <2>1. Local1(p, "begin", l)
    BY <1>3 DEF Local, TypeOK
  <2> QED
    BY <1>6, <2>1 DEF ReadClock, Go
<1>7. ASSUME NEW p \in Procs, NEW force \in BOOLEAN, NEW next \in {"check", "fetch"},
             BeginOrResume(p, force, next)
      PROVE  Moves(p)
  <2>1. ASSUME NEW g \in Collecting, Resume(p, force, next),
               loc' = [loc EXCEPT ![p].gen = g, ![p].seen = Staged(g)]
        PROVE  Moves(p)
    <3> DEFINE l == [loc[p] EXCEPT !.gen = g, !.seen = Staged(g)]
    <3>1. g \in GenIds /\ Staged(g) \in SUBSET Datasets
      BY DEF Collecting, Staged
    <3>2. Local1(p, next, l)
      BY <1>1, <1>3, <3>1 DEF Local
    <3>3. loc' = [loc EXCEPT ![p] = l] /\ pc' = [pc EXCEPT ![p] = next]
      BY <2>1 DEF Resume
    <3> HIDE DEF l
    <3> QED
      BY <3>2, <3>3
  <2>2. CASE Replace(p, force, next)
    <3> DEFINE l == [loc[p] EXCEPT !.gen = Len(gens) + 1, !.seen = {}]
    <3>1. Len(gens') = Len(gens) + 1
      <4>1. Len(Abandon) = Len(gens)
        <5>1. Abandon \in [1 .. Len(gens) -> {Abandon[g] : g \in GenIds}]
          BY DEF Abandon, GenIds
        <5> QED
          BY <1>1, <5>1, IntervalSeq
      <4>2. Abandon \in Seq({Abandon[g] : g \in GenIds})
        BY <1>1, IntervalSeq DEF Abandon, GenIds
      <4> QED
        BY <2>2, <4>1, <4>2 DEF Replace
    <3>2. l \in Local /\ l.gen = Len(gens) + 1
      <4>1. loc[p] \in Local /\ Len(gens) + 1 \in Nat
        BY <1>1, <1>3
      <4> QED
        BY <4>1 DEF Local
    <3>3. loc' = [loc EXCEPT ![p] = l] /\ pc' = [pc EXCEPT ![p] = next]
      BY <2>2 DEF Replace
    <3> HIDE DEF l
    <3>4. Local1(p, next, l)
      BY <1>1, <3>1, <3>2
    <3> QED
      BY <3>3, <3>4
  <2>3. CASE ClockRefused(p)
    BY <1>4, <2>3 DEF ClockRefused
  <2> QED
    BY <1>7, <2>1, <2>2, <2>3 DEF BeginOrResume, Resume
<1>8. ASSUME NEW p \in Procs, Begin(p) \/ BeginAgain(p) PROVE Moves(p)
  <2>1. CASE Begin(p)
    <3>1. (~loc[p].resume) \in BOOLEAN
      OBVIOUS
    <3> QED
      BY <1>7, <2>1, <3>1 DEF Begin
  <2> QED
    BY <1>7, <1>8, <2>1 DEF BeginAgain
<1>9. ASSUME NEW p \in Procs, Check(p) PROVE Moves(p)
  <2>1. Local1(p, IF Matches(p) THEN "fetch" ELSE "again", loc[p])
    BY <1>3, <1>9 DEF Check, Go
  <2>2. loc' = [loc EXCEPT ![p] = loc[p]]
    BY <1>9 DEF Check, TypeOK
  <2> QED
    BY <1>9, <2>1, <2>2 DEF Check, Go
<1>10. ASSUME NEW p \in Procs, NEW d \in Datasets, Fetch(p, d) PROVE Moves(p)
  <2> DEFINE l == [loc[p] EXCEPT !.att = Len(attempts) + 1]
  <2>1. Len(attempts') = Len(attempts) + 1
    BY <1>0, <1>10 DEF Fetch, Typed
  <2>2. l \in Local /\ l.gen = loc[p].gen /\ l.att = Len(attempts) + 1
    <3>1. loc[p] \in Local /\ Len(attempts) + 1 \in Nat
      BY <1>1, <1>3
    <3> QED
      BY <3>1 DEF Local
  <2>3. pc[p] = "fetch" /\ pc' = [pc EXCEPT ![p] = "stage"] /\ loc' = [loc EXCEPT ![p] = l]
    BY <1>10 DEF Fetch, Go
  <2> HIDE DEF l
  <2>4. Local1(p, "stage", l)
    BY <1>1, <1>3, <2>1, <2>2, <2>3
  <2> QED
    BY <2>3, <2>4
<1>11. ASSUME NEW p \in Procs, Stage(p) PROVE Moves(p)
  <2> DEFINE l == [loc[p] EXCEPT !.seen = @ \cup {attempts[loc[p].att].data}, !.att = 0]
  <2>1. attempts[loc[p].att].data \in Datasets
    BY <1>0, <1>11, TypedParts DEF Stage, Go, Placed, Attempt
  <2>2. Local1(p, "fetch", l)
    BY <1>3, <1>11, <2>1 DEF Local, Stage, Go
  <2> QED
    BY <1>11, <2>2 DEF Stage, Go
<1>12. (\E p \in Procs : Moves(p)) \/ UNCHANGED <<pc, loc>>
  <2>1. CASE Tick \/ Move \/ OpenStore \/ UNCHANGED vars
    BY <2>1 DEF Tick, Move, OpenStore, vars
  <2>2. ASSUME NEW p \in Procs, StageRefused(p) \/ Publish(p) \/ PublishRefused(p) \/ Fail(p)
        PROVE  Moves(p)
    BY <1>4, <2>2 DEF StageRefused, Publish, PublishRefused, Fail
  <2> HIDE DEF Moves
  <2> QED
    BY <1>5, <1>6, <1>8, <1>9, <1>10, <1>11, <2>1, <2>2 DEF Next
<1>13. /\ pc' \in [Procs -> Places] /\ loc' \in [Procs -> Local]
       /\ \A q \in Procs : Local1(q, pc'[q], loc'[q])
  <2>0. pc \in [Procs -> Places] /\ loc \in [Procs -> Local]
    BY DEF TypeOK
  <2>1. CASE UNCHANGED <<pc, loc>>
    BY <1>3, <2>0, <2>1
  <2>2. CASE \E p \in Procs : Moves(p)
    <3>1. PICK p \in Procs, place \in Places, l \in Local :
            /\ Local1(p, place, l)
            /\ pc' = [pc EXCEPT ![p] = place]
            /\ loc' = [loc EXCEPT ![p] = l]
      BY <2>2
    <3>2. pc' \in [Procs -> Places] /\ loc' \in [Procs -> Local]
      BY <2>0, <3>1
    <3>3. pc'[p] = place /\ loc'[p] = l
          /\ \A q \in Procs \ {p} : pc'[q] = pc[q] /\ loc'[q] = loc[q]
      BY <2>0, <3>1
    <3> HIDE DEF Local1
    <3> QED
      BY <1>3, <3>1, <3>2, <3>3
  <2> QED
    BY <1>12, <2>1, <2>2
<1> QED
  BY <1>0, <1>2, <1>13 DEF TypeOK, Typed, Placed

-----------------------------------------------------------------------------
(* The transactions keep the bindings. *)

\* What a transaction does to a generation that is there: it may get a shard
\* while it is collected, and leave the collecting status; nothing else.
LEMMA GenerationStep ==
  ASSUME Typed, Typed', Transaction, NEW g \in GenIds
  PROVE  /\ gens'[g].pin = gens[g].pin /\ gens'[g].started = gens[g].started
         /\ gens[g].status # "collecting" => gens'[g] = gens[g]
<1>1. gens[g] \in Generation
  BY TypedParts
<1>2. CASE UNCHANGED store \/ Opens \/ \E p \in Procs, d \in Datasets : Fetches(p, d)
  BY <1>2 DEF store, Opens, Fetches
<1>3. CASE \E p \in Procs : Begins(p)
  BY <1>1, <1>3 DEF Begins, Generation, Collecting
<1>4. CASE \E h \in GenIds, a \in DOMAIN attempts : Stages(h, a)
  BY <1>1, <1>4 DEF Stages, CanStage, Generation
<1>5. CASE \E h \in GenIds : Publishes(h)
  <2>1. PICK h \in GenIds : Publishes(h)
    BY <1>5
  <2>2. CASE h = g
    <3>1. gens'[g] = [gens[g] EXCEPT !.status = "published"] /\ gens[g].status # "abandoned"
      BY <2>1, <2>2 DEF Publishes, CanPublish
    <3> QED
      BY <1>1, <3>1 DEF Generation
  <2>3. CASE h # g
    BY <2>1, <2>3 DEF Publishes
  <2> QED
    BY <2>2, <2>3
<1> QED
  BY <1>2, <1>3, <1>4, <1>5 DEF Transaction

\* What a transaction does to an attempt that is there: its event is written once.
LEMMA AttemptStep ==
  ASSUME Typed, Typed', Transaction, NEW a \in DOMAIN attempts
  PROVE  /\ attempts'[a].data = attempts[a].data /\ attempts'[a].sem = attempts[a].sem
         /\ attempts'[a].at = attempts[a].at /\ attempts'[a].lists = attempts[a].lists
         /\ attempts[a].event # "none" => attempts'[a] = attempts[a]
<1>1. attempts[a] \in Attempt
  BY TypedParts
<1>2. CASE UNCHANGED store \/ (\E p \in Procs : Begins(p)) \/ \E g \in GenIds : Publishes(g)
  BY <1>2 DEF store, Begins, Publishes
<1>3. CASE Opens
  BY <1>1, <1>3 DEF Opens, Orphan, Attempt
<1>4. CASE \E p \in Procs, d \in Datasets : Fetches(p, d)
  BY <1>4 DEF Fetches
<1>5. CASE \E g \in GenIds, b \in DOMAIN attempts : Stages(g, b)
  <2>1. PICK g \in GenIds, b \in DOMAIN attempts : Stages(g, b)
    BY <1>5
  <2>2. CASE b = a
    <3>1. attempts'[a] = [attempts[a] EXCEPT !.event = "staged", !.gen = g]
          /\ attempts[a].event = "none"
      BY <2>1, <2>2 DEF Stages, CanStage
    <3> QED
      BY <1>1, <3>1 DEF Attempt
  <2>3. CASE b # a
    BY <2>1, <2>3 DEF Stages
  <2> QED
    BY <2>2, <2>3
<1> QED
  BY <1>2, <1>3, <1>4, <1>5 DEF Transaction

LEMMA LastStep ==
  ASSUME Typed, Typed', Transaction, LastCollecting
  PROVE  LastCollecting'
<1> SUFFICES ASSUME NEW g \in Collecting' PROVE g = Len(gens')
  BY DEF LastCollecting
<1>1. g \in GenIds' /\ gens'[g].status = "collecting"
  BY DEF Collecting
<1>2. CASE \E p \in Procs : Begins(p)
  <2>1. PICK p \in Procs : Begins(p)
    BY <1>2
  <2>2. g \notin GenIds
    <3> SUFFICES ASSUME g \in GenIds PROVE FALSE
      OBVIOUS
    <3>1. gens[g] \in Generation
      BY TypedParts
    <3>2. CASE g \in Collecting
      BY <1>1, <2>1, <3>1, <3>2 DEF Begins, Generation
    <3>3. CASE g \notin Collecting
      BY <1>1, <2>1, <3>3 DEF Begins, Collecting
    <3> QED
      BY <3>2, <3>3
  <2> QED
    BY <1>1, <2>1, <2>2, Numbered DEF Begins
<1>3. CASE ~\E p \in Procs : Begins(p)
  <2>1. Len(gens') = Len(gens)
    BY <1>3 DEF Transaction, store, Opens, Fetches, Stages, Publishes
  <2>2. g \in GenIds
    BY <1>1, <2>1, Numbered
  <2>3. gens[g].status = "collecting"
    BY <1>1, <2>2, GenerationStep
  <2> QED
    BY <2>1, <2>2, <2>3 DEF LastCollecting, Collecting
<1> QED
  BY <1>2, <1>3

LEMMA ShardsStep ==
  ASSUME Typed, Typed', Transaction, ShardsBound
  PROVE  ShardsBound'
<1> SUFFICES ASSUME NEW g \in GenIds', NEW d \in Datasets, gens'[g].shard[d] # 0
             PROVE  Bound(g, d)'
  BY DEF ShardsBound
<1>1. ASSUME g \in GenIds, gens'[g].shard[d] = gens[g].shard[d]
      PROVE  Bound(g, d)'
  <2> DEFINE a == gens[g].shard[d]
  <2>1. Bound(g, d)
    BY <1>1 DEF ShardsBound
  <2>2. a \in DOMAIN attempts /\ a \in (DOMAIN attempts)' /\ attempts[a].event = "staged"
    BY <2>1, Grows DEF Bound
  <2>3. attempts'[a] = attempts[a]
    BY <2>2, AttemptStep
  <2>4. gens'[g].pin = gens[g].pin /\ gens'[g].started = gens[g].started
    BY <1>1, GenerationStep
  <2> QED
    BY <1>1, <2>1, <2>2, <2>3, <2>4 DEF Bound
<1>2. CASE UNCHANGED store \/ Opens \/ \E p \in Procs, e \in Datasets : Fetches(p, e)
  BY <1>1, <1>2, Numbered DEF store, Opens, Fetches
<1>3. CASE \E p \in Procs : Begins(p)
  <2>1. CASE g \in GenIds
    BY <1>1, <1>3, <2>1, TypedParts DEF Begins, Generation
  <2>2. CASE g \notin GenIds
    BY <1>3, <2>2, Numbered DEF Begins, New
  <2> QED
    BY <2>1, <2>2
<1>4. CASE \E h \in GenIds, a \in DOMAIN attempts : Stages(h, a)
  <2>1. PICK h \in GenIds, a \in DOMAIN attempts : Stages(h, a)
    BY <1>4
  <2>2. g \in GenIds /\ gens[h] \in Generation /\ attempts[a] \in Attempt
    BY <2>1, Numbered, TypedParts DEF Stages
  <2>3. CASE h = g /\ d = attempts[a].data
    <3>1. gens'[g].shard[d] = a /\ gens'[g].pin = gens[g].pin /\ gens'[g].started = gens[g].started
      BY <2>1, <2>2, <2>3 DEF Stages, Generation
    <3>2. /\ attempts'[a].event = "staged" /\ attempts'[a].gen = g
          /\ attempts'[a].data = d /\ attempts'[a].sem = attempts[a].sem
          /\ attempts'[a].at = attempts[a].at
      BY <2>1, <2>2, <2>3 DEF Stages, Attempt
    <3>3. a \in (DOMAIN attempts)'
      BY <2>1, Grows
    <3>4. CanStage(g, a)
      BY <2>1, <2>3 DEF Stages
    <3> QED
      BY <3>1, <3>2, <3>3, <3>4 DEF Bound, CanStage
  <2>4. CASE h # g \/ d # attempts[a].data
    <3>1. gens'[g].shard[d] = gens[g].shard[d]
      BY <2>1, <2>2, <2>4 DEF Stages, Generation
    <3> QED
      BY <1>1, <2>2, <3>1
  <2> QED
    BY <2>3, <2>4
<1>5. CASE \E h \in GenIds : Publishes(h)
  <2>1. PICK h \in GenIds : Publishes(h)
    BY <1>5
  <2>2. g \in GenIds /\ gens[h] \in Generation
    BY <2>1, Numbered, TypedParts DEF Publishes
  <2>3. gens'[g].shard[d] = gens[g].shard[d]
    BY <2>1, <2>2 DEF Publishes, Generation
  <2> QED
    BY <1>1, <2>2, <2>3
<1> QED
  BY <1>2, <1>3, <1>4, <1>5 DEF Transaction

LEMMA EventsStep ==
  ASSUME Typed, Typed', Transaction, ShardsBound, EventsBound
  PROVE  EventsBound'
<1> SUFFICES ASSUME NEW a \in (DOMAIN attempts)', attempts'[a].event = "staged"
             PROVE  /\ attempts'[a].gen \in GenIds'
                    /\ gens'[attempts'[a].gen].shard[attempts'[a].data] = a
  BY DEF EventsBound
<1> DEFINE g == attempts[a].gen
           d == attempts[a].data
\* The attempt was staged before, and so is its shard; shards are not replaced.
<1>1. ASSUME a \in DOMAIN attempts, attempts[a].event = "staged"
      PROVE  /\ g \in GenIds /\ g \in GenIds' /\ d \in Datasets
             /\ gens[g].shard[d] = a /\ gens[g].shard[d] # 0 /\ attempts'[a] = attempts[a]
  <2>1. attempts'[a] = attempts[a]
    BY <1>1, AttemptStep
  <2>2. g \in GenIds /\ gens[g].shard[d] = a
    BY <1>1 DEF EventsBound
  <2>3. attempts[a] \in Attempt /\ a # 0
    BY <1>1, TypedParts
  <2> QED
    BY <2>1, <2>2, <2>3, Grows DEF Attempt
<1>2. CASE UNCHANGED store \/ \E h \in GenIds : Publishes(h)
  <2>1. a \in DOMAIN attempts /\ attempts[a].event = "staged"
    BY <1>2 DEF store, Publishes
  <2>2. g \in GenIds /\ gens[g] \in Generation
    BY <1>1, <2>1, TypedParts
  <2>3. gens'[g].shard[d] = gens[g].shard[d]
    BY <1>2, <2>2 DEF store, Publishes, Generation
  <2> QED
    BY <1>1, <2>1, <2>3
<1>3. CASE Opens
  <2>1. a \in DOMAIN attempts
    BY <1>3, Numbered DEF Opens
  <2>2. attempts[a].event = "staged"
    BY <1>3, <2>1, TypedParts DEF Opens, Orphan, Attempt
  <2> QED
    BY <1>1, <1>3, <2>1, <2>2 DEF Opens
<1>4. CASE \E p \in Procs : Begins(p)
  <2>1. a \in DOMAIN attempts /\ attempts[a].event = "staged"
    BY <1>4 DEF Begins
  <2>2. g \in GenIds /\ gens[g] \in Generation
    BY <1>1, <2>1, TypedParts
  <2>3. gens'[g].shard[d] = gens[g].shard[d]
    BY <1>4, <2>2 DEF Begins, Generation
  <2> QED
    BY <1>1, <2>1, <2>3
<1>5. CASE \E p \in Procs, e \in Datasets : Fetches(p, e)
  <2>1. a \in DOMAIN attempts /\ attempts[a].event = "staged"
    BY <1>5, Numbered DEF Fetches, Fetched
  <2> QED
    BY <1>1, <1>5, <2>1 DEF Fetches
<1>6. CASE \E h \in GenIds, b \in DOMAIN attempts : Stages(h, b)
  <2>1. PICK h \in GenIds, b \in DOMAIN attempts : Stages(h, b)
    BY <1>6
  <2>2. a \in DOMAIN attempts /\ gens[h] \in Generation /\ attempts[b] \in Attempt
    BY <2>1, Numbered, TypedParts DEF Stages
  <2>3. CASE a = b
    <3>1. attempts'[a].gen = h /\ attempts'[a].data = attempts[a].data
          /\ attempts[a].data \in Datasets
      BY <2>1, <2>2, <2>3 DEF Stages, Attempt
    <3>2. gens'[h].shard[attempts[a].data] = a
      BY <2>1, <2>2, <2>3, <3>1 DEF Stages, Generation
    <3> QED
      BY <3>1, <3>2, Grows
  <2>4. CASE a # b
    <3>1. attempts[a].event = "staged"
      BY <2>1, <2>2, <2>4 DEF Stages
    <3>2. gens[g].shard[d] = a /\ g \in GenIds /\ d \in Datasets /\ gens[g].shard[d] # 0
      BY <1>1, <2>2, <3>1
    <3>3. ~(g = h /\ d = attempts[b].data)
      BY <2>1, <3>2 DEF Stages, CanStage
    <3>4. gens'[g].shard[d] = gens[g].shard[d]
      <4>1. CASE g # h
        BY <2>1, <3>2, <4>1 DEF Stages
      <4>2. CASE g = h
        BY <2>1, <2>2, <3>2, <3>3, <4>2 DEF Stages, Generation
      <4> QED
        BY <4>1, <4>2
    <3> QED
      BY <1>1, <2>2, <3>1, <3>4
  <2> QED
    BY <2>3, <2>4
<1> QED
  BY <1>2, <1>3, <1>4, <1>5, <1>6 DEF Transaction

LEMMA InvStep ==
  ASSUME GenerationAssumption, Inv, [Next]_vars
  PROVE  Inv' /\ Typed /\ Typed' /\ Transaction
<1>1. TypeOK' /\ Placed'
  BY LocalsStep DEF Inv
<1>2. Typed /\ Typed' /\ Transaction
  BY Transactions DEF Inv, TypeOK, Typed
<1> QED
  BY <1>1, <1>2, LastStep, ShardsStep, EventsStep DEF Inv

LEMMA InvInit == ASSUME GenerationAssumption, Init PROVE Inv
<1>1. TypeOK
  BY DEF GenerationAssumption, Init, TypeOK, Places, Local, Blank
<1>2. Placed /\ LastCollecting /\ ShardsBound /\ EventsBound
  BY DEF Init, Placed, LastCollecting, Collecting, GenIds, ShardsBound, EventsBound
<1> QED
  BY <1>1, <1>2 DEF Inv

THEOREM Invariant == Spec => []Inv
<1>1. GenerationAssumption
  BY GenerationAssumption
<1> QED
  BY <1>1, InvInit, InvStep, PTL DEF Spec

-----------------------------------------------------------------------------
\* The tables hold what the schema says, for any collectors and bounds.
THEOREM TypeCorrect == Spec => []TypeOK
  BY Invariant, PTL DEF Inv

\* A transaction publishes at most one generation more, the newest, and moves
\* the head to it.
LEMMA PublishedStep ==
  ASSUME Typed, Typed', Transaction, LastCollecting
  PROVE  \/ Published' = Published /\ head' = head
         \/ \E g \in GenIds : /\ g = Len(gens) /\ head' = g /\ Verifies(g)
                              /\ Published' = Published \cup {g}
                              /\ gens'[g] = [gens[g] EXCEPT !.status = "published"]
                              /\ UNCHANGED attempts
<1>1. \A g \in GenIds : gens[g].status = "published" => gens'[g] = gens[g]
  BY GenerationStep
<1>2. Published \subseteq Published'
  BY <1>1, Grows DEF Published
<1>3. ASSUME NEW h \in GenIds, Publishes(h), gens[h].status # "published"
      PROVE  /\ h = Len(gens) /\ head' = h /\ Verifies(h)
             /\ Published' = Published \cup {h}
             /\ gens'[h] = [gens[h] EXCEPT !.status = "published"] /\ UNCHANGED attempts
  <2>1. gens[h] \in Generation
    BY TypedParts
  <2>2. h \in Collecting /\ Verifies(h)
    BY <1>3, <2>1 DEF Publishes, CanPublish, Generation, Collecting
  <2>3. gens'[h].status = "published" /\ GenIds' = GenIds
        /\ \A g \in GenIds \ {h} : gens'[g] = gens[g]
    BY <1>3, <2>1, Numbered DEF Publishes, Generation
  <2>4. Published' = Published \cup {h}
    BY <2>3 DEF Published
  <2> QED
    BY <1>3, <2>2, <2>4 DEF LastCollecting, Publishes
<1>4. ASSUME ~\E h \in GenIds : Publishes(h) /\ gens[h].status # "published"
      PROVE  Published' = Published /\ head' = head
  <2> SUFFICES ASSUME NEW g \in Published' PROVE g \in Published
    <3>1. head' = head
      BY <1>4 DEF Transaction, store, Opens, Begins, Fetches, Stages, Publishes
    <3> QED
      BY <1>2, <3>1
  <2>1. g \in GenIds' /\ gens'[g].status = "published"
    BY DEF Published
  <2>2. CASE UNCHANGED store \/ Opens \/ \E p \in Procs, d \in Datasets : Fetches(p, d)
    BY <2>1, <2>2, Numbered DEF store, Opens, Fetches, Published
  <2>3. CASE \E p \in Procs : Begins(p)
    <3>1. PICK p \in Procs : Begins(p)
      BY <2>3
    <3>2. g \in GenIds
      BY <2>1, <3>1, Numbered DEF Begins, New
    <3>3. gens[g] \in Generation
      BY <3>2, TypedParts
    <3>4. g \notin Collecting
      BY <2>1, <3>1, <3>2, <3>3 DEF Begins, Generation
    <3> QED
      BY <2>1, <3>1, <3>2, <3>4 DEF Begins, Published
  <2>4. CASE \E h \in GenIds, a \in DOMAIN attempts : Stages(h, a)
    <3>1. PICK h \in GenIds, a \in DOMAIN attempts : Stages(h, a)
      BY <2>4
    <3>2. g \in GenIds /\ gens[h] \in Generation
      BY <2>1, <3>1, Numbered, TypedParts DEF Stages
    <3>3. gens'[g].status = gens[g].status
      BY <3>1, <3>2 DEF Stages, Generation
    <3> QED
      BY <2>1, <3>2, <3>3 DEF Published
  <2>5. CASE \E h \in GenIds : Publishes(h)
    <3>1. PICK h \in GenIds : Publishes(h) /\ gens[h].status = "published"
      BY <1>4, <2>5
    <3>2. g \in GenIds
      BY <2>1, <3>1, Numbered DEF Publishes
    <3> QED
      BY <2>1, <3>1, <3>2 DEF Publishes, Published
  <2> QED
    BY <2>2, <2>3, <2>4, <2>5 DEF Transaction
<1> QED
  BY <1>3, <1>4

\* The head names the newest published generation, so that no reader ever meets
\* "active market generation head rollback detected".
THEOREM HeadNewest == Spec => []HeadIsNewest
<1>1. Init => HeadIsNewest
  BY DEF Init, HeadIsNewest, Published, GenIds
<1>2. ASSUME GenerationAssumption, Inv, [Next]_vars, HeadIsNewest PROVE HeadIsNewest'
  <2>1. Typed /\ Typed' /\ Transaction /\ LastCollecting
    BY <1>2, InvStep DEF Inv
  <2>2. CASE Published' = Published /\ head' = head
    BY <1>2, <2>2 DEF HeadIsNewest
  <2>3. CASE \E g \in GenIds : g = Len(gens) /\ head' = g /\ Published' = Published \cup {g}
    <3>1. Len(gens) \in Nat /\ \A g \in Published : g \in 1 .. Len(gens)
      BY <2>1, Numbered DEF Published
    <3>2. \A g \in Published' : g <= head'
      BY <2>3, <3>1
    <3>3. head' # 0 /\ head' \in Published'
      BY <2>1, <2>3, Numbered
    <3> QED
      BY <3>2, <3>3 DEF HeadIsNewest
  <2> QED
    BY <2>1, <2>2, <2>3, PublishedStep
<1> QED
  BY <1>1, <1>2, GenerationAssumption, Invariant, PTL DEF Spec

\* What a generation shows once it is published, it shows for ever: no later
\* transaction touches its shards or the attempts they are bound to.
LEMMA VerifiesStays ==
  ASSUME Typed, Typed', Transaction, ShardsBound, NEW g \in GenIds, Verifies(g),
         gens'[g].shard = gens[g].shard
  PROVE  Verifies(g)'
<1>1. \A d \in Datasets : gens[g].shard[d] \in DOMAIN attempts
                          /\ attempts'[gens[g].shard[d]] = attempts[gens[g].shard[d]]
  <2> TAKE d \in Datasets
  <2>1. gens[g].shard[d] # 0
    BY DEF Verifies, Staged
  <2>2. gens[g].shard[d] \in DOMAIN attempts /\ attempts[gens[g].shard[d]].event = "staged"
    BY <2>1 DEF ShardsBound, Bound
  <2> QED
    BY <2>2, AttemptStep
<1>2. gens'[g].pin = gens[g].pin /\ gens'[g].started = gens[g].started
  BY GenerationStep
<1>3. Staged(g)' = Staged(g)
  BY DEF Staged
<1> QED
  BY <1>1, <1>2, <1>3 DEF Verifies, Lists

\* A published generation stays complete, of its requests, within its window and
\* bound to its attempts, whatever the store goes through.
THEOREM Verified == Spec => []PublishedVerifies
<1>1. Init => PublishedVerifies
  BY DEF Init, PublishedVerifies, Published, GenIds
<1>2. ASSUME GenerationAssumption, Inv, [Next]_vars, PublishedVerifies
      PROVE  PublishedVerifies'
  <2>1. Typed /\ Typed' /\ Transaction /\ LastCollecting /\ ShardsBound
    BY <1>2, InvStep DEF Inv
  <2>2. ASSUME NEW g \in Published PROVE Verifies(g)'
    <3>1. g \in GenIds /\ gens[g].status = "published" /\ Verifies(g)
      BY <1>2 DEF Published, PublishedVerifies
    <3>2. gens'[g] = gens[g]
      BY <2>1, <3>1, GenerationStep
    <3> QED
      BY <2>1, <3>1, <3>2, VerifiesStays
  <2>3. ASSUME NEW g \in GenIds, Verifies(g),
               gens'[g] = [gens[g] EXCEPT !.status = "published"]
        PROVE  Verifies(g)'
    <3>1. gens[g] \in Generation
      BY <2>1, TypedParts
    <3>2. gens'[g].shard = gens[g].shard
      BY <2>3, <3>1 DEF Generation
    <3> QED
      BY <2>1, <2>3, <3>2, VerifiesStays
  <2> QED
    BY <2>1, <2>2, <2>3, PublishedStep DEF PublishedVerifies
<1> QED
  BY <1>1, <1>2, GenerationAssumption, Invariant, PTL DEF Spec

\* Published generations are never rewritten, and the head never moves back.
THEOREM NeverRewritten == Spec => PublishedStays
<1>1. ASSUME GenerationAssumption, Inv, HeadIsNewest, [Next]_vars
      PROVE  /\ head' >= head
             /\ \A g \in Published : gens'[g] = gens[g]
  <2>1. Typed /\ Typed' /\ Transaction /\ LastCollecting
    BY <1>1, InvStep DEF Inv
  <2>2. \A g \in Published : gens'[g] = gens[g]
    BY <2>1, GenerationStep DEF Published
  <2>3. Len(gens) \in Nat /\ head \in Nat /\ (head = 0 \/ head \in 1 .. Len(gens))
    BY <1>1, <2>1, Numbered DEF HeadIsNewest, Published, Typed
  <2>4. head' = head \/ head' = Len(gens)
    BY <2>1, PublishedStep
  <2> QED
    BY <2>2, <2>3, <2>4
<1> QED
  BY <1>1, GenerationAssumption, Invariant, HeadNewest, PTL DEF Spec, PublishedStays

\* An answer is a shard of the generation its event names, and of no other.
THEOREM StagedOnceOnly == Spec => []StagedOnce
<1>1. ASSUME Inv PROVE StagedOnce
  <2>1. Typed /\ ShardsBound /\ EventsBound
    BY <1>1 DEF Inv, TypeOK, Typed
  <2> SUFFICES ASSUME NEW a \in DOMAIN attempts
               PROVE  {g \in GenIds : \E d \in Datasets : gens[g].shard[d] = a}
                        = IF attempts[a].event = "staged" THEN {attempts[a].gen} ELSE {}
    BY DEF StagedOnce
  <2>2. a # 0 /\ attempts[a] \in Attempt
    BY <2>1, TypedParts
  <2>3. ASSUME NEW g \in GenIds, NEW d \in Datasets, gens[g].shard[d] = a
        PROVE  attempts[a].event = "staged" /\ attempts[a].gen = g
    BY <2>1, <2>2, <2>3 DEF ShardsBound, Bound
  <2>4. attempts[a].event = "staged" =>
          /\ attempts[a].gen \in GenIds /\ attempts[a].data \in Datasets
          /\ gens[attempts[a].gen].shard[attempts[a].data] = a
    BY <2>1, <2>2 DEF EventsBound, Attempt
  <2> QED
    BY <2>3, <2>4
<1> QED
  BY <1>1, Invariant, PTL

\* Where securities do not move between the datasets, as among those of a trade
\* date, a complete generation can always be published.
THEOREM CompletePublishable ==
  ASSUME NEW one, Movable \cap Datasets \subseteq {one}
  PROVE  Spec => []CompleteIsPublishable
<1> DEFINE Apart == /\ home \in Movable \cup {Nowhere}
                    /\ \A a \in DOMAIN attempts : attempts[a].lists => attempts[a].data = one
<1>1. ASSUME GenerationAssumption, Init PROVE Apart
  BY <1>1 DEF Init
<1>2. ASSUME GenerationAssumption, Inv, [Next]_vars, Apart PROVE Apart'
  <2>1. Typed /\ Typed' /\ Transaction
    BY <1>2, InvStep
  <2>2. home' \in Movable \cup {Nowhere}
    <3>1. ASSUME NEW p \in Procs, NEW force, NEW next, BeginOrResume(p, force, next)
          PROVE  UNCHANGED home
      BY <3>1 DEF BeginOrResume, Resume, Replace, ClockRefused, world
    <3>2. Move \/ UNCHANGED home
      BY <1>2, <3>1 DEF Next, vars, world, Tick, OpenStore, Start, ReadClock, Begin,
           BeginAgain, Check, Fetch, Stage, StageRefused, Publish, PublishRefused, Fail
    <3> QED
      BY <1>2, <3>2 DEF Move
  <2>3. ASSUME NEW a \in (DOMAIN attempts)', attempts'[a].lists
        PROVE  attempts'[a].data = one
    <3>1. CASE a \in DOMAIN attempts
      BY <1>2, <2>1, <2>3, <3>1, AttemptStep
    <3>2. CASE a \notin DOMAIN attempts
      <4>1. PICK p \in Procs, d \in Datasets : Fetches(p, d)
        BY <2>1, <3>2, Numbered DEF Transaction, store, Opens, Begins, Stages, Publishes
      <4>2. attempts'[a] = Fetched(p, d)
        BY <2>1, <3>2, <4>1, Numbered DEF Fetches
      <4>3. Fetched(p, d).lists = (d = home) /\ Fetched(p, d).data = d
        BY DEF Fetched
      <4>4. d = home
        BY <2>3, <4>2, <4>3
      <4> QED
        BY <1>2, <4>2, <4>3, <4>4 DEF GenerationAssumption
    <3> QED
      BY <3>1, <3>2
  <2> QED
    BY <2>2, <2>3
<1>3. ASSUME Inv, Apart PROVE CompleteIsPublishable
  <2> SUFFICES ASSUME NEW g \in Collecting, Staged(g) = Datasets PROVE Verifies(g)
    BY DEF CompleteIsPublishable
  <2>1. \A d \in Datasets : Bound(g, d)
    BY <1>3 DEF Inv, ShardsBound, Staged, Collecting
  <2>2. \A d \in Datasets : Lists(g, d) => d = one
    BY <1>3, <2>1 DEF Lists, Bound
  <2> QED
    BY <2>1, <2>2 DEF Verifies, Bound
<1> HIDE DEF Apart
<1> QED
  BY <1>1, <1>2, <1>3, GenerationAssumption, Invariant, PTL DEF Spec

-----------------------------------------------------------------------------
(* A collector that has the store to itself. *)

\* What it has seen staged is what is staged, for the requests it makes.
InStep(p) ==
  /\ pc[p] # "again"
  /\ pc[p] \in {"check", "fetch", "stage"} =>
       loc[p].seen = Staged(loc[p].gen) /\ gens[loc[p].gen].pin = loc[p].sem
  /\ pc[p] = "stage" => attempts[loc[p].att].data \notin loc[p].seen

LEMMA AloneStep ==
  ASSUME GenerationAssumption, Inv, NEW q, Procs = {q}, InStep(q), [Next]_vars
  PROVE  InStep(q)'
<1>0. /\ Typed /\ Typed' /\ Transaction /\ Inv' /\ ShardsBound /\ q \in Procs
      /\ pc \in [Procs -> Places] /\ loc \in [Procs -> Local] /\ Placed
  BY InvStep DEF Inv, TypeOK
<1>1. CASE UNCHANGED <<gens, attempts, pc, loc>>
  BY <1>1 DEF InStep, Staged
<1>2. CASE OpenStore
  <2>1. UNCHANGED <<gens, pc, loc>>
    BY <1>2 DEF OpenStore
  <2>2. pc[q] = "stage" => attempts'[loc[q].att].data = attempts[loc[q].att].data
    BY <1>0, AttemptStep DEF Placed
  <2> QED
    BY <2>1, <2>2 DEF InStep, Staged
<1>3. CASE pc'[q] \in {"idle", "now", "begin"}
  BY <1>3 DEF InStep
<1>4. ASSUME NEW force, NEW next \in {"check", "fetch"}, BeginOrResume(q, force, next)
      PROVE  InStep(q)'
  <2>1. CASE Resume(q, force, next)
    <3>1. PICK g \in Collecting : /\ Keeps(q, force, g)
                                  /\ loc' = [loc EXCEPT ![q].gen = g, ![q].seen = Staged(g)]
                                  /\ pc' = [pc EXCEPT ![q] = next] /\ UNCHANGED gens
      BY <2>1 DEF Resume, store
    <3>2. /\ loc'[q].gen = g /\ loc'[q].seen = Staged(g) /\ loc'[q].sem = loc[q].sem
          /\ pc'[q] = next
      BY <1>0, <3>1 DEF Local
    <3> QED
      BY <3>1, <3>2 DEF InStep, Keeps, Staged
  <2>2. CASE Replace(q, force, next)
    <3> DEFINE n == Len(gens) + 1
    <3>1. /\ loc'[q].gen = n /\ loc'[q].seen = {} /\ loc'[q].sem = loc[q].sem
          /\ pc'[q] = next
      BY <1>0, <2>2 DEF Replace, Local
    <3>2. n \in GenIds' /\ n \notin GenIds
      <4>1. n \notin GenIds
        BY <1>0, Numbered
      <4>2. n \in GenIds'
        BY <1>0, <3>1 DEF Inv, Placed
      <4> QED
        BY <4>1, <4>2
    <3>3. PICK p \in Procs : Begins(p)
      BY <1>0, <3>2, Numbered DEF Transaction, store, Opens, Fetches, Stages, Publishes
    <3>4. gens'[n] = New(q)
      BY <3>3 DEF Begins
    <3>5. {e \in Datasets : gens'[n].shard[e] # 0} = {} /\ gens'[n].pin = loc[q].sem
      BY <3>4 DEF New
    <3> HIDE DEF n
    <3> QED
      BY <3>1, <3>5 DEF InStep, Staged
  <2>3. CASE ClockRefused(q)
    BY <1>0, <1>3, <2>3 DEF ClockRefused, Leave
  <2> QED
    BY <1>4, <2>1, <2>2, <2>3 DEF BeginOrResume
<1>5. CASE Check(q)
  <2>1. pc[q] = "check" /\ UNCHANGED <<gens, attempts, loc>>
    BY <1>5 DEF Check, Go, store
  <2>2. Matches(q)
    <3>1. loc[q].gen \in GenIds /\ loc[q].seen = Staged(loc[q].gen)
          /\ gens[loc[q].gen].pin = loc[q].sem
      BY <1>0, <2>1 DEF InStep, Placed
    <3> QED
      BY <1>0, <3>1 DEF Matches, Staged, ShardsBound, Bound
  <2>3. pc'[q] = "fetch"
    BY <1>0, <1>5, <2>2 DEF Check, Go
  <2> QED
    BY <2>1, <2>3 DEF InStep, Staged
<1>6. ASSUME NEW d \in Datasets, Fetch(q, d) PROVE InStep(q)'
  <2>1. pc[q] = "fetch" /\ pc'[q] = "stage" /\ d \notin loc[q].seen /\ UNCHANGED gens
    BY <1>0, <1>6 DEF Fetch, Go, Missing
  <2>2. /\ loc'[q].att = Len(attempts) + 1 /\ loc'[q].gen = loc[q].gen
        /\ loc'[q].seen = loc[q].seen /\ loc'[q].sem = loc[q].sem
    BY <1>0, <1>6 DEF Fetch, Local
  <2>3. attempts'[Len(attempts) + 1].data = d
    BY <1>0, <1>6 DEF Fetch, Typed
  <2> QED
    BY <2>1, <2>2, <2>3 DEF InStep, Staged
<1>7. CASE Stage(q)
  <2> DEFINE g == loc[q].gen
             a == loc[q].att
             d == attempts[a].data
  <2>1. pc[q] = "stage" /\ pc'[q] = "fetch" /\ gens' = [gens EXCEPT ![g].shard[d] = a]
    BY <1>0, <1>7 DEF Stage, Go
  <2>2. g \in GenIds /\ a \in DOMAIN attempts /\ gens[g] \in Generation /\ attempts[a] \in Attempt
    BY <1>0, <2>1, TypedParts DEF Placed
  <2>3. /\ loc'[q].gen = g /\ loc'[q].seen = loc[q].seen \cup {d}
        /\ loc'[q].sem = loc[q].sem
    BY <1>0, <1>7 DEF Stage, Local
  <2>4. a # 0 /\ d \in Datasets /\ g \in DOMAIN gens
    BY <1>0, <2>2, TypedParts DEF Attempt
  <2>5. gens'[g].pin = gens[g].pin
        /\ gens'[g].shard = [gens[g].shard EXCEPT ![d] = a]
    <3> HIDE DEF g, a, d
    <3> QED  BY <2>1, <2>2, <2>4 DEF Generation
  <2>6. gens[g].shard \in [Datasets -> Nat]
    BY <2>2 DEF Generation
  <2>7. {e \in Datasets : gens'[g].shard[e] # 0} = Staged(g) \cup {d}
    <3> HIDE DEF g, a, d
    <3> QED  BY <2>4, <2>5, <2>6 DEF Staged
  <2>8. loc[q].seen = Staged(g) /\ gens[g].pin = loc[q].sem
    BY <2>1 DEF InStep
  <2>9. loc'[q].seen = {e \in Datasets : gens'[loc'[q].gen].shard[e] # 0}
        /\ gens'[loc'[q].gen].pin = loc'[q].sem
    <3> HIDE DEF g, a, d
    <3> QED  BY <2>3, <2>5, <2>7, <2>8
  <2> QED
    BY <2>1, <2>9 DEF InStep, Staged
<1>8. CASE \/ \E resume \in BOOLEAN, sem \in Semantics : Start(q, resume, sem)
           \/ ReadClock(q) \/ StageRefused(q) \/ Publish(q) \/ PublishRefused(q) \/ Fail(q)
  BY <1>0, <1>3, <1>8
     DEF Start, ReadClock, Go, StageRefused, Publish, PublishRefused, Fail, Leave
<1>9. CASE Begin(q) \/ BeginAgain(q)
  BY <1>4, <1>9 DEF Begin, BeginAgain
<1>10. CASE Tick \/ Move \/ UNCHANGED vars
  BY <1>1, <1>10 DEF Tick, Move, vars, store
<1> QED
  BY <1>0, <1>2, <1>5, <1>6, <1>7, <1>8, <1>9, <1>10 DEF Next

\* A collector that has the store to itself never meets "already staged;
\* conflict", not even when it resumes the generation of one that died.
THEOREM AloneNoConflict ==
  ASSUME NEW q, Procs = {q}
  PROVE  Spec => []NoConflict
<1>1. ASSUME Init PROVE InStep(q)
  BY <1>1 DEF Init, InStep
<1>2. ASSUME Inv, InStep(q) PROVE NoConflict
  <2> SUFFICES ASSUME pc[q] = "stage"
               PROVE  gens[loc[q].gen].shard[attempts[loc[q].att].data] = 0
    BY DEF NoConflict
  <2>1. attempts[loc[q].att].data \in Datasets
    BY <1>2, TypedParts DEF Inv, TypeOK, Typed, Placed, Attempt
  <2> QED
    BY <1>2, <2>1 DEF InStep, Staged
<1> QED
  BY <1>1, <1>2, AloneStep, GenerationAssumption, Invariant, PTL DEF Spec

\* A collector that has the store to itself and resumes gives up a generation
\* only when it is too old or asks for something else.
THEOREM AloneResumes ==
  ASSUME NEW q, Procs = {q}
  PROVE  Spec => FreshPartialResumes
<1>1. ASSUME Init PROVE InStep(q)
  BY <1>1 DEF Init, InStep
<1>2. ASSUME GenerationAssumption, Inv, InStep(q), [Next]_vars
      PROVE  \A p \in Procs : \A g \in Collecting :
               pc'[p] # pc[p] /\ loc[p].resume /\ gens'[g].status = "abandoned" =>
                 Expired(g, loc[p].now) \/ gens[g].pin # loc[p].sem
  <2> SUFFICES ASSUME NEW g \in Collecting, pc'[q] # pc[q], loc[q].resume,
                      gens'[g].status = "abandoned"
               PROVE  Expired(g, loc[q].now) \/ gens[g].pin # loc[q].sem
    OBVIOUS
  <2>0. Typed /\ gens[g] \in Generation /\ g \in GenIds /\ gens[g].status = "collecting"
    BY <1>2, InvStep, TypedParts DEF Collecting
  <2>1. CASE \E force, next : Replace(q, force, next) /\ force = FALSE
    BY <2>1 DEF Replace, Keeps
  <2>2. ~BeginAgain(q)
    BY <1>2 DEF InStep, BeginAgain
  <2>3. CASE Begin(q)
    <3>1. CASE \E next : Replace(q, FALSE, next)
      BY <2>1, <3>1
    <3>2. CASE UNCHANGED gens
      BY <2>0, <3>2
    <3> QED
      BY <2>3, <3>1, <3>2 DEF Begin, BeginOrResume, Resume, ClockRefused, store
  <2>4. CASE Stage(q)
    <3>1. PICK h, d, a : gens' = [gens EXCEPT ![h].shard[d] = a]
      BY <2>4 DEF Stage
    <3>2. gens'[g].status = gens[g].status
      BY <2>0, <3>1, TypedParts DEF Generation
    <3> QED
      BY <2>0, <3>2
  <2>5. CASE Publish(q)
    <3>1. PICK h : gens' = [gens EXCEPT ![h].status = "published"]
      BY <2>5 DEF Publish
    <3>2. gens'[g].status \in {gens[g].status, "published"}
      BY <2>0, <3>1, TypedParts DEF Generation
    <3> QED
      BY <2>0, <3>2
  <2>6. CASE UNCHANGED gens
    BY <2>0, <2>6
  <2> QED
    BY <1>2, <2>2, <2>3, <2>4, <2>5, <2>6
       DEF Next, vars, store, Tick, Move, OpenStore, Start, ReadClock, Check, Fetch,
           StageRefused, PublishRefused, Fail
<1> QED
  BY <1>1, <1>2, AloneStep, GenerationAssumption, Invariant, PTL DEF Spec, FreshPartialResumes
===============================================================================
