---------------------------- MODULE ResearchProofs ----------------------------
(***************************************************************************)
(* Proofs about PrecomputeLaunch, FormalLaunch and PortfolioSelection.     *)
(*                                                                         *)
(* FormalLaunch: no two authorizations that share a key are both used, and *)
(* a run nobody can end is never worked on again.  What carries the proof  *)
(* is that nothing in the ledger goes away or changes (WrittenStays) and   *)
(* that nobody comes back to files that were let go (LetGoStays).          *)
(*                                                                         *)
(* PrecomputeLaunch: types, what a completed launch has on file, what a    *)
(* call that raised says, and who may still work for a launch that is      *)
(* closed.                                                                 *)
(*                                                                         *)
(* PortfolioSelection: the invariant ties what the scan keeps, the         *)
(* positions held and the last exits, to everything it has taken: active   *)
(* is exactly the set of trades that are still held, and lastExit is at    *)
(* least every exit of its symbol.                                         *)
(***************************************************************************)
EXTENDS PrecomputeLaunch, FormalLaunch, PortfolioSelection, FiniteSetTheorems, TLAPS

(* The execution ledger of the formal supervisor. *)

\* The steps of a supervisor from the last file it writes before the worker.
Authorized == {"start", "working", "recheck", "terminal", "complete", "confirm"}
FormalSteps ==
  {"idle", "resume", "open", "claim", "transition"} \cup Categories \cup Authorized

\* The type invariant.
FormalTypeOK ==
  /\ claims \in SUBSET Launches /\ terminals \in SUBSET Launches
  /\ completions \in SUBSET Launches /\ orphans \in SUBSET Launches
  /\ replay \in [Categories -> [Keys -> Runs \cup {Unwritten}]]
  /\ transitions \in [Runs -> Resumes \cup {Unwritten}]
  /\ step \in [Supervisors -> FormalSteps]
  /\ launch \in [Supervisors -> Launches \cup {Unwritten}]

\* What the authorization of a supervisor must be at each of its steps.
StepsFit ==
  \A p \in Supervisors :
    /\ step[p] # "idle" => launch[p] \in Launches
    /\ step[p] \in {"resume", "open", "transition"} => launch[p] \in Resumes
    /\ step[p] \in Categories => launch[p] \in Runs

\* Only one supervisor holds the files of an authorization, and they are there.
HeldAlone ==
  \A p \in Supervisors : HoldsClaim(p) =>
    /\ launch[p] \in claims
    /\ \A q \in Supervisors : HoldsClaim(q) /\ launch[q] = launch[p] => q = p

\* The key of a supervisor's run that it has gone past.
KeysWritten ==
  \A p \in Supervisors :
    LET written == {c \in Categories : replay[c][ReplayKey[launch[p]][c]] = launch[p]} IN
    /\ step[p] = "id" => "bootstrap" \in written
    /\ step[p] = "nonce" => {"bootstrap", "id"} \subseteq written

\* A resume that goes on, and one that has its claim, found its run claimed in
\* full and held by nobody.
Opened(l) == Claimed(Original[l]) /\ ~HeldBySomebody(Original[l])
OriginalsOpened ==
  /\ \A l \in Resumes : l \in claims => Opened(l)
  /\ \A p \in Supervisors : step[p] = "claim" /\ launch[p] \in Resumes => Opened(launch[p])

\* What an authorization has written before it has a worker.
Written(l) ==
  /\ l \in claims
  /\ l \in Runs => Claimed(l)
  /\ l \in Resumes => transitions[Original[l]] = l
AuthorizedWrote ==
  /\ \A p \in Supervisors : step[p] \in Authorized => Written(launch[p])
  /\ \A l \in orphans : Written(l) /\ ~HeldBySomebody(l)
  /\ \A l \in completions : Written(l)

\* The one resume of a run.
TransitionsTaken ==
  \A r \in Runs : transitions[r] # Unwritten =>
    transitions[r] \in claims /\ Original[transitions[r]] = r

\* A resume comes to its end only when its run did not.
NotTwice ==
  /\ \A p \in Supervisors :
       step[p] \in {"terminal", "complete", "confirm"} /\ launch[p] \in Resumes =>
         Original[launch[p]] \notin completions
  /\ \A l \in completions : l \in Resumes => Original[l] \notin completions

FormalInv ==
  /\ FormalTypeOK /\ StepsFit /\ HeldAlone /\ KeysWritten /\ OriginalsOpened
  /\ AuthorizedWrote /\ TransitionsTaken /\ NotTwice

-----------------------------------------------------------------------------
(* What a step leaves alone. *)
\* What a supervisor does to its step, and what it leaves to the others.
LEMMA OwnStep ==
  ASSUME FormalTypeOK, NEW p \in Supervisors, FormalStep(p)
  PROVE  /\ \A q \in Supervisors \ {p} : step'[q] = step[q] /\ launch'[q] = launch[q]
         /\ step[p] = "idle" \/ launch' = launch
BY DEF FormalTypeOK, FormalStep, StepTo, Wrote, Supervise, CheckOriginal, OpenOriginal,
       WriteClaim, WriteTransition, WriteKey, StartWorker, WorkerEnds, Recheck,
       WriteTerminal, WriteCompleted, Confirm, Stop, SupervisorDies

\* The claims and the completions grow, by the authorization of the supervisor.
LEMMA Growth ==
  ASSUME FormalTypeOK, NEW p \in Supervisors, FormalStep(p)
  PROVE  /\ claims' = claims \/ WriteClaim(p)
         /\ transitions' = transitions \/ WriteTransition(p)
         /\ replay' = replay \/ \E c \in Categories : WriteKey(p, c)
         /\ completions' = completions \/ WriteCompleted(p)
         /\ orphans' = orphans \/ SupervisorDies(p)
BY DEF FormalStep, StepTo, Wrote, ledgerFiles, Supervise, CheckOriginal, OpenOriginal,
       WriteClaim, WriteTransition, WriteKey, StartWorker, WorkerEnds, Recheck,
       WriteTerminal, WriteCompleted, Confirm, Stop, SupervisorDies

\* By which action a supervisor gets to the steps that matter.
LEMMA HowReached ==
  ASSUME FormalTypeOK, NEW p \in Supervisors, FormalStep(p)
  PROVE  /\ step'[p] = "claim" /\ launch'[p] \in Resumes => OpenOriginal(p)
         /\ step'[p] \in {"id", "nonce"} => \E c \in Categories : WriteKey(p, c)
         /\ step'[p] \in Authorized /\ step[p] \notin Authorized =>
              WriteTransition(p) \/ WriteKey(p, "nonce")
         /\ step'[p] \in {"terminal", "complete", "confirm"} =>
              Recheck(p) \/ step[p] \in {"terminal", "complete", "confirm"}
         /\ step'[p] = "working" => step[p] = "start"
BY DEF FormalTypeOK, FormalStep, StepTo, Wrote, Following, Categories, Authorized,
       Supervise, CheckOriginal, OpenOriginal, WriteClaim, WriteTransition, WriteKey,
       StartWorker, WorkerEnds, Recheck, WriteTerminal, WriteCompleted, Confirm, Stop,
       SupervisorDies

\* Nothing that was written goes away or changes.
LEMMA WrittenStays ==
  ASSUME FormalTypeOK, NEW p \in Supervisors, FormalStep(p)
  PROVE  /\ claims \subseteq claims'
         /\ \A r \in Runs : transitions[r] # Unwritten => transitions'[r] = transitions[r]
         /\ \A c \in Categories, k \in Keys :
              replay[c][k] # Unwritten => replay'[c][k] = replay[c][k]
<1>1. claims \subseteq claims'
  BY Growth DEF WriteClaim
<1>2. \A r \in Runs : transitions[r] # Unwritten => transitions'[r] = transitions[r]
  BY Growth DEF WriteTransition, FormalTypeOK
<1>3. \A c \in Categories, k \in Keys :
        replay[c][k] # Unwritten => replay'[c][k] = replay[c][k]
  <2>1. CASE replay' = replay
    BY <2>1
  <2>2. ASSUME NEW c \in Categories, WriteKey(p, c)
        PROVE  \A d \in Categories, k \in Keys :
                 replay[d][k] # Unwritten => replay'[d][k] = replay[d][k]
    BY <2>2 DEF WriteKey, FormalTypeOK
  <2> QED  BY <2>1, <2>2, Growth
<1> QED  BY <1>1, <1>2, <1>3

\* Who holds files goes on with its authorization, and files come to be held
\* only with the claim, which was not there.
LEMMA HoldersGoOn ==
  ASSUME FormalTypeOK, NEW p \in Supervisors, FormalStep(p),
         NEW q \in Supervisors, HoldsClaim(q)'
  PROVE  /\ launch'[q] = launch[q]
         /\ HoldsClaim(q) \/ (q = p /\ WriteClaim(p))
BY DEF HoldsClaim, FormalTypeOK, FormalStep, StepTo, Wrote, Categories, Supervise,
       CheckOriginal, OpenOriginal, WriteClaim, WriteTransition, WriteKey, StartWorker,
       WorkerEnds, Recheck, WriteTerminal, WriteCompleted, Confirm, Stop, SupervisorDies

\* Nobody comes back to an authorization that is claimed and let go.
LEMMA LetGoStays ==
  ASSUME FormalTypeOK, NEW p \in Supervisors, FormalStep(p),
         NEW l \in claims, ~HeldBySomebody(l)
  PROVE  ~HeldBySomebody(l)'
<1> SUFFICES ASSUME NEW q \in Supervisors, HoldsClaim(q)', launch'[q] = l
             PROVE  FALSE
  BY DEF HeldBySomebody
<1>1. launch[q] = l /\ (HoldsClaim(q) \/ (q = p /\ WriteClaim(p)))
  BY HoldersGoOn
<1> QED  BY <1>1 DEF HeldBySomebody, WriteClaim

\* A run that is claimed in full stays so.
LEMMA ClaimedStays ==
  ASSUME FormalAssumption, FormalTypeOK, NEW p \in Supervisors, FormalStep(p),
         NEW r \in Runs, Claimed(r)
  PROVE  Claimed(r)'
BY WrittenStays DEF FormalAssumption, Launches, Claimed

\* So does the original of a resume, claimed and let go.
LEMMA OpenedStays ==
  ASSUME FormalAssumption, FormalTypeOK, NEW p \in Supervisors, FormalStep(p),
         NEW l \in Resumes, Opened(l)
  PROVE  Opened(l)'
<1>1. Original[l] \in Runs /\ Original[l] \in claims /\ ~HeldBySomebody(Original[l])
  BY DEF FormalAssumption, Opened, Claimed
<1> QED  BY <1>1, ClaimedStays, LetGoStays DEF Opened

\* An authorization that wrote all its files has them for good.
LEMMA WroteStays ==
  ASSUME FormalAssumption, FormalTypeOK, NEW p \in Supervisors, FormalStep(p),
         NEW l \in Launches, Written(l)
  PROVE  Written(l)'
<1>1. l \in claims'
  BY WrittenStays DEF Written
<1>2. l \in Runs => Claimed(l)'
  BY ClaimedStays DEF Written
<1>3. l \in Resumes => transitions'[Original[l]] = l
  BY WrittenStays DEF Written, FormalAssumption, Launches
<1> QED  BY <1>1, <1>2, <1>3 DEF Written

-----------------------------------------------------------------------------
(* Each part of the invariant. *)
\* Types, and what the steps say of the authorization.
LEMMA TypesKept ==
  ASSUME FormalAssumption, FormalTypeOK, StepsFit, NEW p \in Supervisors, FormalStep(p)
  PROVE  FormalTypeOK' /\ StepsFit'
<1> USE DEF FormalTypeOK, StepsFit, FormalSteps, Authorized, Categories, ledgerFiles
<1>1. CASE \E l \in Launches : Supervise(p, l)
  BY <1>1 DEF Supervise, Launches
<1>2. CASE CheckOriginal(p) \/ OpenOriginal(p)
  BY <1>2 DEF CheckOriginal, OpenOriginal, StepTo
<1>3. CASE WriteClaim(p)
  BY <1>3 DEF WriteClaim, Wrote, StepTo, Launches
<1>7. CASE WriteTransition(p)
  BY <1>7 DEF WriteTransition, Wrote, StepTo, Root, Launches, FormalAssumption
<1>4. CASE \E c \in Categories : WriteKey(p, c)
  BY <1>4 DEF WriteKey, Wrote, StepTo, Following, FormalAssumption
<1>5. CASE StartWorker(p) \/ WorkerEnds(p) \/ Recheck(p) \/ Confirm(p) \/ Stop(p)
  BY <1>5 DEF StartWorker, WorkerEnds, Recheck, Confirm, Stop, StepTo
<1>6. CASE WriteTerminal(p) \/ WriteCompleted(p) \/ SupervisorDies(p)
  BY <1>6 DEF WriteTerminal, WriteCompleted, SupervisorDies, Wrote, StepTo
<1> QED  BY <1>1, <1>2, <1>3, <1>4, <1>5, <1>6, <1>7 DEF FormalStep

\* Files are held by one supervisor.
LEMMA HeldAloneKept ==
  ASSUME FormalTypeOK, HeldAlone, NEW p \in Supervisors, FormalStep(p)
  PROVE  HeldAlone'
<1>1. \A q \in Supervisors : HoldsClaim(q)' => launch'[q] \in claims'
  BY HoldersGoOn, WrittenStays DEF HeldAlone, WriteClaim
<1>2. \A q, o \in Supervisors :
        HoldsClaim(q)' /\ HoldsClaim(o)' /\ launch'[o] = launch'[q] => o = q
  <2> SUFFICES ASSUME NEW q \in Supervisors, NEW o \in Supervisors, HoldsClaim(q)',
                      HoldsClaim(o)', launch'[o] = launch'[q]
               PROVE  o = q
    OBVIOUS
  <2>1. launch[q] = launch'[q] /\ (HoldsClaim(q) \/ (q = p /\ WriteClaim(p)))
    BY HoldersGoOn
  <2>2. launch[o] = launch'[o] /\ (HoldsClaim(o) \/ (o = p /\ WriteClaim(p)))
    BY HoldersGoOn
  <2> QED  BY <2>1, <2>2 DEF HeldAlone, WriteClaim
<1> QED  BY <1>1, <1>2 DEF HeldAlone

\* The keys a supervisor has gone past are its own.
LEMMA KeysKept ==
  ASSUME FormalAssumption, FormalTypeOK, StepsFit, KeysWritten, NEW p \in Supervisors,
         FormalStep(p)
  PROVE  KeysWritten'
<1> SUFFICES ASSUME NEW q \in Supervisors, NEW r \in Runs, launch'[q] = r,
                    step'[q] \in {"id", "nonce"}
             PROVE  /\ replay'["bootstrap"][ReplayKey[r]["bootstrap"]] = r
                    /\ step'[q] = "nonce" => replay'["id"][ReplayKey[r]["id"]] = r
  BY TypesKept DEF KeysWritten, StepsFit, Categories
<1>1. CASE step[q] = step'[q] /\ launch[q] = r
  BY <1>1, WrittenStays DEF KeysWritten, Categories, FormalAssumption, Launches
<1>2. CASE q = p /\ \E c \in Categories : WriteKey(p, c)
  BY <1>2 DEF WriteKey, Wrote, StepTo, Following, KeysWritten, Categories,
              FormalAssumption, FormalTypeOK, Launches
<1>3. q = p => \E c \in Categories : WriteKey(p, c)
  BY HowReached
<1> QED  BY <1>1, <1>2, <1>3, OwnStep

\* The original of a resume that goes on is claimed and let go.
LEMMA OpenedKept ==
  ASSUME FormalAssumption, FormalTypeOK, StepsFit, OriginalsOpened, NEW p \in Supervisors,
         FormalStep(p)
  PROVE  OriginalsOpened'
<1>1. ASSUME NEW l \in Resumes, l \in claims'
      PROVE  Opened(l)'
  <2>1. CASE l \in claims
    BY <2>1, OpenedStays DEF OriginalsOpened
  <2>2. CASE l \notin claims
    <3>1. WriteClaim(p) /\ launch[p] = l
      BY <1>1, <2>2, Growth DEF WriteClaim
    <3>2. step[p] = "claim"
      BY <3>1 DEF WriteClaim, Wrote, StepTo
    <3> QED  BY <3>1, <3>2, OpenedStays DEF OriginalsOpened
  <2> QED  BY <2>1, <2>2
<1>2. ASSUME NEW q \in Supervisors, NEW l \in Resumes, step'[q] = "claim", launch'[q] = l
      PROVE  Opened(l)'
  <2>1. CASE q # p
    BY <2>1, <1>2, OwnStep, OpenedStays DEF OriginalsOpened
  <2>2. CASE q = p
    <3>1. OpenOriginal(p)
      BY <2>2, <1>2, HowReached
    <3>2. Opened(launch[p]) /\ launch' = launch
      BY <3>1, <1>2, <2>2 DEF OpenOriginal, Opened, Root
    <3> QED  BY <3>2, <2>2, <1>2, OpenedStays
  <2> QED  BY <2>1, <2>2
<1> QED  BY <1>1, <1>2 DEF OriginalsOpened

\* The one resume of a run has its claim.
LEMMA TakenKept ==
  ASSUME FormalAssumption, FormalTypeOK, StepsFit, HeldAlone, TransitionsTaken,
         NEW p \in Supervisors, FormalStep(p)
  PROVE  TransitionsTaken'
<1> SUFFICES ASSUME NEW r \in Runs, transitions'[r] # Unwritten
             PROVE  transitions'[r] \in claims' /\ Original[transitions'[r]] = r
  BY DEF TransitionsTaken
<1>1. CASE transitions[r] # Unwritten
  BY <1>1, WrittenStays DEF TransitionsTaken
<1>2. CASE transitions[r] = Unwritten
  <2>1. WriteTransition(p) /\ transitions'[r] = launch[p] /\ Root(launch[p]) = r
    BY <1>2, Growth DEF WriteTransition, FormalTypeOK
  <2>2. step[p] = "transition"
    BY <2>1 DEF WriteTransition, Wrote, StepTo
  <2>3. launch[p] \in claims /\ launch[p] \in Resumes
    BY <2>2 DEF HeldAlone, HoldsClaim, StepsFit
  <2> QED  BY <2>1, <2>3, WrittenStays DEF Root
<1> QED  BY <1>1, <1>2

\* The last file before the worker makes the authorization complete.
LEMMA LastFile ==
  ASSUME FormalAssumption, FormalTypeOK, StepsFit, HeldAlone, KeysWritten,
         NEW p \in Supervisors, FormalStep(p),
         step[p] \notin Authorized, step'[p] \in Authorized
  PROVE  launch' = launch /\ launch[p] \in Launches /\ Written(launch[p])'
<1>1. WriteTransition(p) \/ WriteKey(p, "nonce")
  BY HowReached
<1>2. CASE WriteTransition(p)
  <2>1. step[p] = "transition"
    BY <1>2 DEF WriteTransition, Wrote, StepTo
  <2>2. launch[p] \in claims /\ launch[p] \in Resumes
    BY <2>1 DEF HeldAlone, HoldsClaim, StepsFit
  <2>3. transitions'[Original[launch[p]]] = launch[p]
    BY <1>2, <2>2 DEF WriteTransition, Root, FormalTypeOK, FormalAssumption
  <2> QED  BY <1>2, <2>2, <2>3, WrittenStays
           DEF WriteTransition, Written, Launches, FormalAssumption
<1>3. CASE WriteKey(p, "nonce")
  <2>1. step[p] = "nonce"
    BY <1>3 DEF WriteKey, Wrote, StepTo
  <2>2. launch[p] \in claims /\ launch[p] \in Runs
    BY <2>1 DEF HeldAlone, HoldsClaim, StepsFit, Categories
  <2>3. \A c \in Categories : replay'[c][ReplayKey[launch[p]][c]] = launch[p]
    BY <1>3, <2>1, <2>2
    DEF WriteKey, KeysWritten, Categories, FormalTypeOK, FormalAssumption
  <2> QED  BY <1>3, <2>2, <2>3, WrittenStays
           DEF WriteKey, Written, Claimed, Launches, FormalAssumption
<1> QED  BY <1>1, <1>2, <1>3

\* Whoever has a worker, had one or is completed wrote all its files.
LEMMA WroteKept ==
  ASSUME FormalAssumption, FormalTypeOK, StepsFit, HeldAlone, KeysWritten, AuthorizedWrote,
         NEW p \in Supervisors, FormalStep(p)
  PROVE  AuthorizedWrote'
<1>1. ASSUME NEW q \in Supervisors, NEW l, step'[q] \in Authorized, launch'[q] = l
      PROVE  Written(l)'
  <2>1. CASE step[q] \in Authorized /\ launch[q] = l
    BY <2>1, WroteStays DEF AuthorizedWrote, StepsFit, Authorized
  <2>2. CASE q = p /\ step[p] \notin Authorized
    BY <1>1, <2>2, LastFile
  <2> QED  BY <1>1, <2>1, <2>2, OwnStep DEF Authorized
<1>2. ASSUME NEW l \in orphans'
      PROVE  Written(l)' /\ ~HeldBySomebody(l)'
  <2>1. CASE l \in orphans
    BY <2>1, WroteStays, LetGoStays DEF AuthorizedWrote, Written, FormalTypeOK
  <2>2. CASE l \notin orphans
    <3>1. SupervisorDies(p) /\ l = launch[p]
      BY <1>2, <2>2, Growth DEF SupervisorDies
    <3>2. step[p] = "working" /\ step'[p] = "idle"
      BY <3>1 DEF SupervisorDies, StepTo, FormalTypeOK
    <3>3. Written(l)'
      BY <3>1, <3>2, WroteStays DEF AuthorizedWrote, StepsFit, Authorized
    <3>4. ASSUME NEW q \in Supervisors, HoldsClaim(q)', launch'[q] = l
          PROVE  FALSE
      BY <3>1, <3>2, <3>4 DEF HeldAlone, HoldsClaim, SupervisorDies, StepTo, FormalTypeOK
    <3> QED  BY <3>3, <3>4 DEF HeldBySomebody
  <2> QED  BY <2>1, <2>2
<1>3. ASSUME NEW l \in completions'
      PROVE  Written(l)'
  <2>1. CASE l \in completions
    BY <2>1, WroteStays DEF AuthorizedWrote, FormalTypeOK
  <2>2. CASE l \notin completions
    <3>1. WriteCompleted(p) /\ l = launch[p]
      BY <1>3, <2>2, Growth DEF WriteCompleted
    <3>2. step[p] = "complete"
      BY <3>1 DEF WriteCompleted, Wrote, StepTo
    <3> QED  BY <3>1, <3>2, WroteStays DEF AuthorizedWrote, StepsFit, Authorized
  <2> QED  BY <2>1, <2>2
<1> QED  BY <1>1, <1>2, <1>3 DEF AuthorizedWrote

\* A run whose resume has its claim is not completed any more.
LEMMA NoLateCompletion ==
  ASSUME FormalAssumption, FormalTypeOK, OriginalsOpened, NEW p \in Supervisors,
         FormalStep(p),
         NEW l \in Resumes, l \in claims, Original[l] \notin completions
  PROVE  Original[l] \notin completions'
<1>1. ~HeldBySomebody(Original[l])
  BY DEF OriginalsOpened, Opened
<1>2. ASSUME WriteCompleted(p)
      PROVE  launch[p] # Original[l]
  <2>1. HoldsClaim(p)
    BY <1>2 DEF WriteCompleted, Wrote, StepTo, HoldsClaim
  <2> QED  BY <1>1, <2>1 DEF HeldBySomebody
<1> QED  BY <1>2, Growth DEF WriteCompleted

\* A run and its resume are not both completed.
LEMMA NotTwiceKept ==
  ASSUME FormalAssumption, FormalTypeOK, StepsFit, OriginalsOpened, AuthorizedWrote,
         NotTwice,
         NEW p \in Supervisors, FormalStep(p)
  PROVE  NotTwice'
<1> DEFINE Ending == {"terminal", "complete", "confirm"}
<1>1. ASSUME NEW q \in Supervisors, NEW l \in Resumes, step'[q] \in Ending, launch'[q] = l
      PROVE  Original[l] \notin completions'
  <2>1. CASE step[q] \in Ending /\ launch[q] = l
    <3>1. l \in claims /\ Original[l] \notin completions
      BY <2>1 DEF AuthorizedWrote, Written, Authorized, NotTwice
    <3> QED  BY <3>1, NoLateCompletion
  <2>2. CASE q = p /\ step[p] \notin Ending
    <3>1. Recheck(p)
      BY <1>1, <2>2, HowReached
    <3> QED  BY <1>1, <2>2, <3>1 DEF Recheck, Uncompleted, Root, ledgerFiles
  <2> QED  BY <1>1, <2>1, <2>2, OwnStep
<1>2. ASSUME NEW l \in completions', l \in Resumes
      PROVE  Original[l] \notin completions'
  <2>1. CASE l \in completions
    <3>1. l \in claims /\ Original[l] \notin completions
      BY <1>2, <2>1 DEF AuthorizedWrote, Written, NotTwice
    <3> QED  BY <1>2, <3>1, NoLateCompletion
  <2>2. CASE l \notin completions
    <3>1. WriteCompleted(p) /\ l = launch[p]
      BY <1>2, <2>2, Growth DEF WriteCompleted
    <3>2. step[p] = "complete"
      BY <3>1 DEF WriteCompleted, Wrote, StepTo
    <3>3. l \in claims /\ Original[l] \notin completions
      BY <1>2, <3>1, <3>2 DEF AuthorizedWrote, Written, Authorized, NotTwice
    <3> QED  BY <1>2, <3>3, NoLateCompletion
  <2> QED  BY <2>1, <2>2
<1> QED  BY <1>1, <1>2 DEF NotTwice

\* The invariant holds at the start.
LEMMA FormalInvInit == ASSUME FormalAssumption, FormalInit PROVE FormalInv
BY DEF FormalInit, FormalAssumption, FormalInv, FormalTypeOK, FormalSteps, StepsFit,
       HeldAlone, HoldsClaim, KeysWritten, Categories, OriginalsOpened, AuthorizedWrote,
       Authorized, TransitionsTaken, NotTwice

\* Every step keeps the invariant.
LEMMA FormalInvNext ==
  ASSUME FormalAssumption, FormalInv, [FormalNext]_formalVars
  PROVE  FormalInv'
<1>1. ASSUME NEW p \in Supervisors, FormalStep(p)
      PROVE  FormalInv'
  BY <1>1, TypesKept, HeldAloneKept, KeysKept, OpenedKept, WroteKept, TakenKept,
     NotTwiceKept DEF FormalInv
<1> USE DEF FormalInv, FormalTypeOK, StepsFit, HeldAlone, HoldsClaim, KeysWritten,
            OriginalsOpened, Opened, AuthorizedWrote, Written, Claimed, HeldBySomebody,
            TransitionsTaken, NotTwice, ledgerFiles
<1>2. CASE OrphanEnds
  BY <1>2 DEF OrphanEnds
<1>3. CASE UNCHANGED formalVars
  BY <1>3 DEF formalVars
<1> QED  BY <1>1, <1>2, <1>3 DEF FormalNext

-----------------------------------------------------------------------------
\* Authorizations that wrote their files and share a key are for one run.
LEMMA OneRun ==
  ASSUME FormalAssumption, FormalInv, NEW l \in Launches, NEW m \in Launches,
         Written(l), Written(m), Rivals(l, m)
  PROVE  /\ Root(l) = Root(m) /\ l # m
         /\ (l \in Runs /\ m \in Resumes) \/ (l \in Resumes /\ m \in Runs)
<1>1. Claimed(Root(l)) /\ Claimed(Root(m))
  BY DEF FormalInv, OriginalsOpened, Opened, Written, Root, Launches
<1>2. Root(l) = Root(m)
  BY <1>1 DEF Rivals, Claimed
<1>3. ~(l \in Resumes /\ m \in Resumes)
  BY <1>2 DEF Written, Root, Rivals
<1>4. ~(l \in Runs /\ m \in Runs)
  BY <1>2 DEF Root, Rivals, FormalAssumption
<1> QED  BY <1>2, <1>3, <1>4 DEF Launches, Rivals

\* The invariant says that no key is used twice.
LEMMA InvUsedOnce == ASSUME FormalAssumption, FormalInv PROVE UsedOnce
<1>1. ASSUME NEW l \in completions, NEW m \in completions
      PROVE  ~Rivals(l, m)
  BY OneRun DEF FormalInv, FormalTypeOK, AuthorizedWrote, NotTwice, Root, FormalAssumption
<1>2. ASSUME NEW p \in Supervisors, NEW q \in Supervisors,
             step[p] = "working", step[q] = "working", p # q
      PROVE  launch[p] # launch[q] /\ ~Rivals(launch[p], launch[q])
  <2>1. HoldsClaim(p) /\ HoldsClaim(q)
    BY <1>2 DEF HoldsClaim
  <2>2. /\ launch[p] \in Launches /\ Written(launch[p])
        /\ launch[q] \in Launches /\ Written(launch[q])
    BY <1>2 DEF FormalInv, StepsFit, AuthorizedWrote, Authorized
  <2>3. launch[p] # launch[q]
    BY <1>2, <2>1 DEF FormalInv, HeldAlone
  <2>4. ~HeldBySomebody(Original[launch[p]]) \/ launch[p] \notin Resumes
    BY <2>2 DEF FormalInv, OriginalsOpened, Opened, Written
  <2>5. ~HeldBySomebody(Original[launch[q]]) \/ launch[q] \notin Resumes
    BY <2>2 DEF FormalInv, OriginalsOpened, Opened, Written
  <2> QED
    BY <2>1, <2>2, <2>3, <2>4, <2>5, OneRun DEF HeldBySomebody, Root, FormalAssumption
<1>3. ASSUME NEW p \in Supervisors, NEW l \in orphans, step[p] = "working"
      PROVE  l # launch[p] /\ (Rivals(l, launch[p]) => l = Root(launch[p]))
  <2>1. HoldsClaim(p) /\ launch[p] \in Launches /\ Written(launch[p])
    BY <1>3 DEF HoldsClaim, FormalInv, StepsFit, AuthorizedWrote, Authorized
  <2>2. l \in Launches /\ Written(l) /\ ~HeldBySomebody(l)
    BY DEF FormalInv, FormalTypeOK, AuthorizedWrote
  <2>3. ~HeldBySomebody(Original[l]) \/ l \notin Resumes
    BY <2>2 DEF FormalInv, OriginalsOpened, Opened, Written
  <2> QED  BY <2>1, <2>2, <2>3, OneRun DEF HeldBySomebody, Root, FormalAssumption
<1> QED  BY <1>1, <1>2, <1>3 DEF UsedOnce

\* A spent run stays spent in every step, and gets no worker.
LEMMA SpentStep ==
  ASSUME FormalAssumption, FormalInv, [FormalNext]_formalVars, NEW r \in Runs, Spent(r)
  PROVE  Spent(r)' /\ \A p \in Supervisors : step'[p] = "working" => Root(launch'[p]) # r
<1> USE DEF FormalInv
\* Whoever is authorized for the run keeps it from being spent.
<1>1. ASSUME NEW p \in Supervisors, step[p] \in Authorized
      PROVE  Root(launch[p]) # r
  <2>1. HoldsClaim(p) /\ launch[p] \in Launches /\ Written(launch[p])
    BY <1>1 DEF HoldsClaim, StepsFit, AuthorizedWrote, Authorized
  <2>2. CASE launch[p] \in Runs
    BY <2>1, <2>2 DEF Spent, HeldBySomebody, Root, FormalAssumption
  <2>3. CASE launch[p] \in Resumes
    BY <2>1, <2>3 DEF Spent, HeldBySomebody, Root, Written, OriginalsOpened, Opened
  <2> QED  BY <2>1, <2>2, <2>3 DEF Launches
<1>2. ASSUME NEW p \in Supervisors, FormalStep(p)
      PROVE  Spent(r)' /\ \A q \in Supervisors : step'[q] = "working" => Root(launch'[q]) # r
  <2>1. r \in claims' /\ ~HeldBySomebody(r)'
    BY <1>2, WrittenStays, LetGoStays DEF Spent
  <2>2. ASSUME ~Claimed(r)
        PROVE  Spent(r)'
    <3>1. ~Claimed(r)'
      <4>1. PICK c \in Categories : replay[c][ReplayKey[r][c]] # r
        BY <2>2 DEF Claimed, Spent
      <4>2. replay'[c][ReplayKey[r][c]] # r
        <5>1. CASE replay' = replay
          BY <5>1, <4>1
        <5>2. ASSUME NEW d \in Categories, WriteKey(p, d)
              PROVE  replay'[c][ReplayKey[r][c]] # r
          <6>1. HoldsClaim(p)
            BY <5>2 DEF WriteKey, Wrote, StepTo, HoldsClaim, Categories
          <6>2. launch[p] # r
            BY <6>1 DEF Spent, HeldBySomebody
          <6> QED  BY <4>1, <5>2, <6>2 DEF WriteKey, FormalTypeOK
        <5> QED  BY <1>2, <5>1, <5>2, Growth
      <4> QED  BY <4>2 DEF Claimed
    <3> QED  BY <2>1, <3>1 DEF Spent
  <2>3. ASSUME transitions[r] # Unwritten, ~HeldBySomebody(transitions[r])
        PROVE  Spent(r)'
    <3>1. transitions[r] \in claims /\ transitions'[r] = transitions[r]
      BY <1>2, <2>3, WrittenStays DEF TransitionsTaken
    <3>2. \A l \in claims : ~HeldBySomebody(l) => ~HeldBySomebody(l)'
      BY <1>2, LetGoStays
    <3>3. ~HeldBySomebody(transitions[r])'
      BY <2>3, <3>1, <3>2 DEF HeldBySomebody
    <3> QED  BY <2>1, <2>3, <3>1, <3>3 DEF Spent, HeldBySomebody
  <2>4. ASSUME NEW q \in Supervisors, step'[q] = "working"
        PROVE  Root(launch'[q]) # r
    <3>1. CASE step[q] \in Authorized /\ launch'[q] = launch[q]
      BY <3>1, <1>1 DEF Root
    <3>2. CASE q = p /\ step[p] \notin Authorized
      BY <1>2, <2>4, <3>2, HowReached DEF Authorized
    <3> QED  BY <1>2, <2>4, <3>1, <3>2, OwnStep DEF Authorized
  <2> QED  BY <2>1, <2>2, <2>3, <2>4 DEF Spent
<1>3. CASE OrphanEnds \/ UNCHANGED formalVars
  <2>1. UNCHANGED <<ledgerFiles, step, launch>>
    BY <1>3 DEF OrphanEnds, formalVars
  <2>2. Spent(r)'
    BY <2>1 DEF Spent, HeldBySomebody, HoldsClaim, Claimed, ledgerFiles
  <2> QED  BY <1>1, <2>1, <2>2 DEF Root, Authorized
<1> QED  BY <1>2, <1>3 DEF FormalNext

-----------------------------------------------------------------------------
\* The ledger, whoever supervises, stops or dies (_supervise_with_pins).
THEOREM FormalInvHolds == FormalSpec => []FormalInv
BY FormalAssumption, FormalInvInit, FormalInvNext, PTL DEF FormalSpec

\* Of the authorizations that share a key, a resume among them, one at most is
\* completed and one at most has a worker under a supervisor that lives.
THEOREM AuthorizationsUsedOnce == FormalSpec => []UsedOnce
BY FormalInvHolds, FormalAssumption, InvUsedOnce, PTL

\* A run that its supervisor left half claimed, or its resume unfinished, never
\* gets a worker again.
THEOREM SpentForever == FormalSpec => SpentStays
<1>1. ASSUME FormalInv, [FormalNext]_formalVars
      PROVE  [\A r \in Runs : Spent(r) =>
                /\ Spent(r)'
                /\ \A p \in Supervisors : step'[p] = "working" => Root(launch'[p]) # r]_formalVars
  BY <1>1, FormalAssumption, SpentStep
<1> QED  BY <1>1, FormalInvHolds, PTL DEF FormalSpec, SpentStays

-----------------------------------------------------------------------------
(* The supervised precompute launch. *)

\* The parent calls the supervisor's launch its own from its authorization on.
Working == {"materialize", "claim", "verify", "spawn", "attach", "await", "wait",
            "record", "complete"}

\* Who is in the middle of a call owns the mutex.
Owned == \A p \in Parents : pc[p] # "idle" => owner = p

\* A call knows of its launch, and of its result, only after the step that
\* makes it.
Known ==
  \A p \in Parents :
    /\ pc[p] \in {"idle", "select", "authorize"} => ~started[p] /\ ~result[p]
    /\ pc[p] \in Working => started[p]
    /\ pc[p] \in Working \ {"complete"} => ~result[p]
    /\ pc[p] = "complete" => result[p]
    /\ result[p] => started[p]

\* The launch is open as long as its parent works, and when its handler runs
\* before there was a result.
Kept ==
  \A p \in Parents :
    /\ pc[p] \in Working => own = "launched"
    /\ pc[p] = "except" /\ started[p] /\ ~result[p] => own = "launched"
    /\ pc[p] = "except" /\ started[p] => own \notin {"registered", "withdrawn"}
    /\ pc[p] = "seal" => own = "launched"
    /\ pc[p] = "sealed" => own \in {"launched", "failed"}

\* A child works under a parent that waits for it, or its job is closing.
Watched == child \in Live => doomed \/ \E p \in Parents : pc[p] \in {"await", "wait"}

\* What a parent has found before it records and completes.
Ready ==
  \A p \in Parents :
    /\ pc[p] = "record" => child = "success"
    /\ pc[p] = "complete" => child = "success" /\ {"output", "result"} \subseteq files

LaunchInv == TypeOK /\ Owned /\ Known /\ Kept /\ Watched /\ Ready /\ CompletedHasResult

-----------------------------------------------------------------------------
LEMMA InitInv == ASSUME LaunchAssumption, Init PROVE LaunchInv
<1>1. TypeOK
  <2>1. own \in Rows /\ atTip \in BOOLEAN /\ owner \in Parents \cup {Nobody}
    BY DEF Init, Rows
  <2>2. pc \in [Parents -> Steps] /\ started \in [Parents -> BOOLEAN]
    BY DEF Init, Steps
  <2>3. result \in [Parents -> BOOLEAN] /\ outcome \in [Parents -> Outcomes]
    BY DEF Init, Outcomes
  <2>4. files \in SUBSET Files /\ doomed \in BOOLEAN
    BY DEF Init
  <2>6. faults \in 0 .. MaxFaults
    BY DEF LaunchAssumption, Init
  <2>5. child \in Live \cup {"none", "suspended", "success", "failure"}
    BY DEF Init
  <2> QED  BY <2>1, <2>2, <2>3, <2>4, <2>5, <2>6 DEF TypeOK
<1>2. Owned /\ Known /\ Kept /\ Ready
  BY DEF Init, Owned, Known, Kept, Ready, Working
<1>3. Watched /\ CompletedHasResult
  BY DEF Init, Watched, CompletedHasResult, Live
<1> QED  BY <1>1, <1>2, <1>3 DEF LaunchInv

USE DEF LaunchInv, TypeOK, Owned, Known, Kept, Watched, Ready, CompletedHasResult,
        Working, Rows, Steps, Outcomes, Files, Live,
        vars, ledger, call, work, Go, Fault, Ends, AppendRow

\* What the end of a call leaves behind.
LEMMA EndsTyped ==
  ASSUME LaunchInv, NEW p \in Parents, NEW how \in Outcomes, Ends(p, how)
  PROVE  /\ owner' \in Parents \cup {Nobody}
         /\ pc' \in [Parents -> Steps]
         /\ started' \in [Parents -> BOOLEAN]
         /\ result' \in [Parents -> BOOLEAN]
         /\ outcome' \in [Parents -> Outcomes]
  OBVIOUS

\* A fault is counted.
LEMMA FaultTyped ==
  ASSUME LaunchAssumption, LaunchInv, Fault \/ UNCHANGED faults
  PROVE  faults' \in 0 .. MaxFaults
  BY DEF LaunchAssumption

\* The parent command.
LEMMA ParentSteps ==
  ASSUME LaunchAssumption, LaunchInv, NEW p \in Parents,
         Begin(p) \/ Reconcile(p) \/ ReconcileFails(p) \/ Select(p) \/ SelectNothing(p)
           \/ Crash(p)
  PROVE  LaunchInv'
<1>1. CASE Begin(p)
  <2>1. TypeOK' /\ Owned'  BY <1>1 DEF Begin, LaunchAssumption
  <2>2. Known' /\ Kept'  BY <1>1 DEF Begin
  <2>3. Watched' /\ Ready' /\ CompletedHasResult'  BY <1>1 DEF Begin
  <2> QED  BY <2>1, <2>2, <2>3
<1>2. CASE Reconcile(p)
  <2>1. TypeOK'
    <3>1. \E how \in Outcomes : Ends(p, how)  BY <1>2 DEF Reconcile
    <3>2. own' \in Rows /\ atTip' \in BOOLEAN /\ UNCHANGED work
      BY <1>2 DEF Reconcile
    <3>3. Fault \/ UNCHANGED faults  BY <1>2 DEF Reconcile
    <3> HIDE DEF Ends, Fault
    <3> QED  BY <3>1, <3>2, <3>3, EndsTyped, FaultTyped
  <2>5. Owned'  BY <1>2 DEF Reconcile, LaunchAssumption
  <2>2. Known'  BY <1>2 DEF Reconcile
  <2>3. Kept'  BY <1>2 DEF Reconcile, LaunchAssumption
  <2>4. Watched' /\ Ready' /\ CompletedHasResult'  BY <1>2 DEF Reconcile
  <2> QED  BY <2>1, <2>2, <2>3, <2>4, <2>5
<1>3. CASE ReconcileFails(p)  BY <1>3 DEF ReconcileFails, LaunchAssumption
<1>4. CASE Select(p)  BY <1>4 DEF Select, LaunchAssumption
<1>5. CASE SelectNothing(p)  BY <1>5 DEF SelectNothing, LaunchAssumption
<1>6. CASE Crash(p)  BY <1>6 DEF Crash, LaunchAssumption
<1> QED  BY <1>1, <1>2, <1>3, <1>4, <1>5, <1>6

\* The supervisor, up to the child.
LEMMA SupervisorSteps ==
  ASSUME LaunchAssumption, LaunchInv, NEW p \in Parents,
         Authorize(p) \/ AuthorizeRefused(p) \/ Materialize(p) \/ PublishClaim(p) \/ Verify(p)
  PROVE  LaunchInv'
<1>1. CASE Authorize(p)
  <2>1. CASE Go(p, "authorize", "materialize")
    BY <1>1, <2>1 DEF Authorize, LaunchAssumption
  <2>2. CASE Go(p, "authorize", "except")
    BY <1>1, <2>2 DEF Authorize, LaunchAssumption
  <2> QED  BY <1>1, <2>1, <2>2 DEF Authorize
<1>2. CASE AuthorizeRefused(p)  BY <1>2 DEF AuthorizeRefused, LaunchAssumption
<1>3. CASE Materialize(p)
  <2>1. CASE Go(p, "materialize", "claim")
    BY <1>3, <2>1 DEF Materialize, Create, LaunchAssumption
  <2>2. CASE Go(p, "materialize", "except")
    <3>1. files' \in SUBSET Files  BY <1>3, <2>2 DEF Materialize, Create
    <3>2. faults' \in 0 .. MaxFaults  BY <1>3, <2>2, FaultTyped DEF Materialize, Create
    <3>3. pc' \in [Parents -> Steps] /\ result' \in [Parents -> BOOLEAN]
      BY <1>3, <2>2 DEF Materialize, Create
    <3>4. TypeOK'  BY <1>3, <3>1, <3>2, <3>3 DEF Materialize, Create
    <3>5. Owned' /\ Known'  BY <1>3, <2>2 DEF Materialize, Create, LaunchAssumption
    <3>6. Kept'  BY <1>3, <2>2 DEF Materialize, Create, LaunchAssumption
    <3>7. Watched' /\ Ready' /\ CompletedHasResult'
      BY <1>3, <2>2 DEF Materialize, Create, LaunchAssumption
    <3> QED  BY <3>4, <3>5, <3>6, <3>7
  <2> QED  BY <1>3, <2>1, <2>2 DEF Materialize, Create
<1>4. CASE PublishClaim(p)
  <2>1. CASE Go(p, "claim", "verify")
    BY <1>4, <2>1 DEF PublishClaim, Create, LaunchAssumption
  <2>2. CASE Go(p, "claim", "except")
    <3>1. files' \in SUBSET Files  BY <1>4, <2>2 DEF PublishClaim, Create
    <3>2. faults' \in 0 .. MaxFaults  BY <1>4, <2>2, FaultTyped DEF PublishClaim, Create
    <3>3. pc' \in [Parents -> Steps] /\ result' \in [Parents -> BOOLEAN]
      BY <1>4, <2>2 DEF PublishClaim, Create
    <3>4. TypeOK'  BY <1>4, <3>1, <3>2, <3>3 DEF PublishClaim, Create
    <3>5. Owned' /\ Known'  BY <1>4, <2>2 DEF PublishClaim, Create, LaunchAssumption
    <3>6. Kept'  BY <1>4, <2>2 DEF PublishClaim, Create, LaunchAssumption
    <3>7. Watched' /\ Ready' /\ CompletedHasResult'
      BY <1>4, <2>2 DEF PublishClaim, Create, LaunchAssumption
    <3> QED  BY <3>4, <3>5, <3>6, <3>7
  <2> QED  BY <1>4, <2>1, <2>2 DEF PublishClaim, Create
<1>5. CASE Verify(p)  BY <1>5 DEF Verify, Verifies, LaunchAssumption
<1> QED  BY <1>1, <1>2, <1>3, <1>4, <1>5

\* The launcher.
LEMMA LauncherSteps ==
  ASSUME LaunchAssumption, LaunchInv, NEW p \in Parents,
         Spawn(p) \/ Attach(p) \/ Acknowledge(p) \/ GiveUp(p) \/ Join(p)
  PROVE  LaunchInv'
<1>1. CASE Spawn(p)  BY <1>1 DEF Spawn, LaunchAssumption
<1>2. CASE Attach(p)  BY <1>2 DEF Attach, LaunchAssumption
<1>3. CASE Acknowledge(p)  BY <1>3 DEF Acknowledge, LaunchAssumption
<1>4. CASE GiveUp(p)  BY <1>4 DEF GiveUp, Terminate, LaunchAssumption
<1>5. CASE Join(p)  BY <1>5 DEF Join, LaunchAssumption
<1> QED  BY <1>1, <1>2, <1>3, <1>4, <1>5

\* The result and the completion.
LEMMA CompletionSteps ==
  ASSUME LaunchAssumption, LaunchInv, NEW p \in Parents,
         Record(p) \/ Complete(p) \/ CompleteRefused(p)
  PROVE  LaunchInv'
<1>1. CASE Record(p)
  <2>1. CASE Go(p, "record", "complete")
    BY <1>1, <2>1 DEF Record, Create, LaunchAssumption
  <2>2. CASE Go(p, "record", "except")
    <3>1. files' \in SUBSET Files  BY <1>1, <2>2 DEF Record, Create
    <3>2. faults' \in 0 .. MaxFaults  BY <1>1, <2>2, FaultTyped DEF Record, Create
    <3>3. pc' \in [Parents -> Steps] /\ result' \in [Parents -> BOOLEAN]
      BY <1>1, <2>2 DEF Record, Create
    <3>4. TypeOK'  BY <1>1, <3>1, <3>2, <3>3 DEF Record, Create
    <3>5. Owned' /\ Known'  BY <1>1, <2>2 DEF Record, Create, LaunchAssumption
    <3>6. Kept'  BY <1>1, <2>2 DEF Record, Create, LaunchAssumption
    <3>7. Watched' /\ Ready' /\ CompletedHasResult'
      BY <1>1, <2>2 DEF Record, Create, LaunchAssumption
    <3> QED  BY <3>4, <3>5, <3>6, <3>7
  <2> QED  BY <1>1, <2>1, <2>2 DEF Record, Create
<1>2. CASE Complete(p)
  <2>1. CASE Ends(p, "completed")
    BY <1>2, <2>1 DEF Complete, LaunchAssumption
  <2>2. CASE Go(p, "complete", "except")
    <3>1. TypeOK'  BY <1>2, <2>2 DEF Complete, LaunchAssumption
    <3>2. Owned' /\ Known'  BY <1>2, <2>2 DEF Complete, LaunchAssumption
    <3>3. Kept'  BY <1>2, <2>2 DEF Complete, LaunchAssumption
    <3>4. Watched' /\ Ready' /\ CompletedHasResult'
      BY <1>2, <2>2 DEF Complete, LaunchAssumption
    <3> QED  BY <3>1, <3>2, <3>3, <3>4
  <2> QED  BY <1>2, <2>1, <2>2 DEF Complete
<1>3. CASE CompleteRefused(p)  BY <1>3 DEF CompleteRefused, LaunchAssumption
<1> QED  BY <1>1, <1>2, <1>3

\* The exception handler.
LEMMA HandlerSteps ==
  ASSUME LaunchAssumption, LaunchInv, NEW p \in Parents,
         Recover(p) \/ Reraise(p) \/ ToSeal(p) \/ Seal(p) \/ SealRefused(p) \/ SealRead(p)
  PROVE  LaunchInv'
<1>1. CASE Recover(p)  BY <1>1 DEF Recover, State, Consults, LaunchAssumption
<1>2. CASE Reraise(p)  BY <1>2 DEF Reraise, State, Consults, LaunchAssumption
<1>3. CASE ToSeal(p)  BY <1>3 DEF ToSeal, State, Consults, LaunchAssumption
<1>4. CASE Seal(p)
  <2>1. CASE Ends(p, "raised")
    BY <1>4, <2>1 DEF Seal, LaunchAssumption
  <2>2. CASE Go(p, "seal", "sealed")
    BY <1>4, <2>2 DEF Seal, LaunchAssumption
  <2> QED  BY <1>4, <2>1, <2>2 DEF Seal
<1>5. CASE SealRefused(p)  BY <1>5 DEF SealRefused, LaunchAssumption
<1>6. CASE SealRead(p)  BY <1>6 DEF SealRead, State, LaunchAssumption
<1> QED  BY <1>1, <1>2, <1>3, <1>4, <1>5, <1>6

\* The child, the system and everybody else.
LEMMA OtherSteps ==
  ASSUME LaunchAssumption, LaunchInv, ChildStep \/ JobCloses \/ OthersAppend \/ OthersMove
  PROVE  LaunchInv'
<1>1. CASE Consume  BY <1>1 DEF Consume, ChildGoes
<1>2. CASE SayReady  BY <1>2 DEF SayReady, ChildGoes
<1>3. CASE SeeAck  BY <1>3 DEF SeeAck, ChildGoes
<1>4. CASE Reverify  BY <1>4 DEF Reverify, ChildGoes
<1>5. CASE WriteOutput  BY <1>5 DEF WriteOutput, ChildGoes
<1>6. CASE Exit  BY <1>6 DEF Exit, ChildGoes
<1>7. CASE ChildFails  BY <1>7 DEF ChildFails, ChildGoes
<1>8. CASE JobCloses  BY <1>8 DEF JobCloses
<1>9. CASE OthersAppend  BY <1>9 DEF OthersAppend
<1>10. CASE OthersMove  BY <1>10 DEF OthersMove
<1> QED  BY <1>1, <1>2, <1>3, <1>4, <1>5, <1>6, <1>7, <1>8, <1>9, <1>10 DEF ChildStep

\* Stuttering.
LEMMA StutterStep == ASSUME LaunchInv, UNCHANGED vars PROVE LaunchInv'
  OBVIOUS

LEMMA NextInv == ASSUME LaunchAssumption, LaunchInv, [Next]_vars PROVE LaunchInv'
<1> HIDE DEF LaunchInv
<1>1. ASSUME NEW p \in Parents, Begin(p) \/ Step(p) \/ Crash(p) PROVE LaunchInv'
  BY <1>1, ParentSteps, SupervisorSteps, LauncherSteps, CompletionSteps, HandlerSteps
     DEF Step
<1>2. CASE UNCHANGED vars  BY <1>2, StutterStep
<1> QED  BY <1>1, <1>2, OtherSteps DEF Next

LEMMA InvHolds == Spec => []LaunchInv
<1> HIDE DEF LaunchInv
<1> QED  BY InitInv, NextInv, LaunchAssumption, PTL DEF Spec

\* Every variable keeps its type (run_registered_precompute_supervised_v2 and
\* the processes around it).
THEOREM TypeCorrect == Spec => []TypeOK
<1>1. LaunchInv => TypeOK  OBVIOUS
<1> HIDE DEF LaunchInv, TypeOK
<1> QED  BY <1>1, InvHolds, PTL

\* The launch, its parents dying and its appends raising included, does to the row
\* of its experiment only what the experiment ledger lets it do, and counts on
\* nothing of the others but that: the launch of research_precompute_parent.py is
\* one the ledger's LaunchLedger describes.
THEOREM LaunchStaysWithinLedger == Spec => MovesItsRow
<1>1. Init => Seen!Init
  BY DEF Init, Seen!Init
<1>2. [Next]_vars => [Seen!Next]_<<own, atTip>>
  <2> SUFFICES ASSUME [Next]_vars PROVE Seen!Next \/ UNCHANGED ledger
    BY DEF ledger
  <2> USE DEF ledger, AppendRow, Seen!Next, Seen!Launch, Seen!End, Seen!AppendRow
  <2>1. ASSUME NEW p \in Parents, Reconcile(p) \/ Complete(p) \/ Seal(p) \/ Authorize(p)
        PROVE  Seen!Next
    BY <2>1 DEF Reconcile, Complete, Seal, Authorize
  <2>2. ASSUME NEW p \in Parents,
               \/ Begin(p) \/ Crash(p) \/ ReconcileFails(p) \/ Select(p) \/ SelectNothing(p)
               \/ AuthorizeRefused(p) \/ Materialize(p) \/ PublishClaim(p) \/ Verify(p)
               \/ Spawn(p) \/ Attach(p) \/ Acknowledge(p) \/ GiveUp(p) \/ Join(p)
        PROVE  UNCHANGED ledger
    BY <2>2 DEF Begin, Crash, ReconcileFails, Select, SelectNothing, AuthorizeRefused,
                Materialize, PublishClaim, Create, Verify, Spawn, Attach, Acknowledge,
                GiveUp, Terminate, Join
  <2>3. ASSUME NEW p \in Parents,
               \/ Record(p) \/ CompleteRefused(p) \/ Recover(p) \/ Reraise(p) \/ ToSeal(p)
               \/ SealRefused(p) \/ SealRead(p)
        PROVE  UNCHANGED ledger
    BY <2>3 DEF Record, Create, CompleteRefused, Recover, Reraise, ToSeal, SealRefused,
                SealRead
  <2>4. CASE ChildStep \/ JobCloses
    BY <2>4 DEF ChildStep, ChildGoes, Consume, SayReady, SeeAck, Reverify, WriteOutput, Exit,
                ChildFails, JobCloses
  <2>5. CASE OthersAppend \/ OthersMove
    BY <2>5 DEF OthersAppend, OthersMove, Seen!OthersAppend, Seen!OthersMove
  <2> QED  BY <2>1, <2>2, <2>3, <2>4, <2>5 DEF Next, Step, vars
<1> QED  BY <1>1, <1>2, PTL DEF Spec, MovesItsRow, Seen!Spec

\* Whatever raised and whoever died, a completed launch has its output, its
\* result and a child that ended well.
THEOREM CompletedLaunchHasResult == Spec => []CompletedHasResult
<1>1. LaunchInv => CompletedHasResult  OBVIOUS
<1> HIDE DEF LaunchInv, CompletedHasResult
<1> QED  BY <1>1, InvHolds, PTL

\* A child works only for an open launch, or its job is being closed.
THEOREM SealedLaunchIsQuiet == Spec => []SealedIsQuiet
<1>1. LaunchInv => SealedIsQuiet  BY DEF SealedIsQuiet
<1> HIDE DEF LaunchInv, SealedIsQuiet
<1> QED  BY <1>1, InvHolds, PTL

\* What the supervisor's call reports is what the ledger says.
THEOREM ReportIsTrue == Spec => OutcomeIsTrue
<1> DEFINE Ended(p) ==
      pc[p] # "idle" /\ pc'[p] = "idle" /\ result[p] /\ outcome'[p] # "crashed"
    Told(p) ==
      outcome'[p] \in {"completed", "recovered"} <=> own' = "completed" /\ atTip'
<1>1. ASSUME LaunchInv, [Next]_vars PROVE [\A p \in Parents : Ended(p) => Told(p)]_vars
  <2> SUFFICES ASSUME NEW p \in Parents, Ended(p), Next PROVE Told(p)
    BY <1>1
  <2>1. ASSUME NEW q \in Parents,
               Begin(q) \/ Select(q) \/ Authorize(q) \/ AuthorizeRefused(q)
                 \/ Materialize(q) \/ PublishClaim(q) \/ Verify(q)
        PROVE  FALSE
    BY <1>1, <2>1 DEF Begin, Select, Authorize, AuthorizeRefused, Materialize, PublishClaim,
                      Create, Verify
  <2>2. ASSUME NEW q \in Parents,
               Spawn(q) \/ Attach(q) \/ Acknowledge(q) \/ GiveUp(q) \/ Join(q)
                 \/ Record(q) \/ CompleteRefused(q) \/ ToSeal(q)
                 \/ SealRefused(q)
        PROVE  FALSE
    BY <1>1, <2>2 DEF Spawn, Attach, Acknowledge, GiveUp, Terminate, Join, Record, Create,
                      CompleteRefused, ToSeal, SealRefused
  <2>3. ASSUME ChildStep \/ JobCloses \/ OthersAppend \/ OthersMove PROVE FALSE
    BY <1>1, <2>3 DEF ChildStep, Consume, SayReady, SeeAck, Reverify, WriteOutput, Exit,
                      ChildFails, ChildGoes, JobCloses, OthersAppend, OthersMove
  <2>4. ASSUME NEW q \in Parents, Reconcile(q) \/ ReconcileFails(q) \/ SelectNothing(q)
        PROVE  FALSE
    BY <1>1, <2>4 DEF Reconcile, ReconcileFails, SelectNothing
  <2>5. ASSUME NEW q \in Parents, Crash(q) PROVE FALSE
    BY <1>1, <2>5 DEF Crash
  <2>6. ASSUME NEW q \in Parents, Complete(q) PROVE Told(p)
    BY <1>1, <2>6 DEF Complete
  <2>7. ASSUME NEW q \in Parents, Recover(q) \/ Reraise(q) PROVE Told(p)
    BY <1>1, <2>7 DEF Recover, Reraise, State
  <2>8. ASSUME NEW q \in Parents, Seal(q) \/ SealRead(q) PROVE Told(p)
    BY <1>1, <2>8 DEF Seal, SealRead
  <2> HIDE DEF LaunchInv, Ended, Told
  <2> QED  BY <2>1, <2>2, <2>3, <2>4, <2>5, <2>6, <2>7, <2>8 DEF Next, Step
<1> QED  BY <1>1, InvHolds, PTL DEF Spec, OutcomeIsTrue
-----------------------------------------------------------------------------
(* Which candidates a portfolio takes. *)

\* A trade is entered after its signal and leaves later, and its signal has
\* come.
InOrder ==
  \A i \in Taken :
    /\ selected[i].signal < selected[i].entry
    /\ selected[i].entry <= selected[i].exit
    /\ selected[i].signal <= today

ActiveIsHeld == active = {i \in Taken : Held(selected[i].exit, today)}

LastIsLast == \A i \in Taken : selected[i].exit <= lastExit[selected[i].symbol]

ActiveFits == MaxActive > 0 => Cardinality(active) <= MaxActive

SelectionInv ==
  SelectionTypeOK /\ InOrder /\ ActiveIsHeld /\ LastIsLast /\ ActiveFits
    /\ HeldOnce /\ WithinCapacity

-----------------------------------------------------------------------------
(* The scan. *)

\* Every set of indices of what was taken is finite.
LEMMA TakenFinite ==
  ASSUME SelectionTypeOK, NEW S \in SUBSET Taken
  PROVE  IsFiniteSet(S) /\ Cardinality(S) \in Nat
<1>1. Taken = 1 .. Len(selected) /\ Len(selected) \in Nat
  BY DEF SelectionTypeOK, Taken
<1>2. IsFiniteSet(Taken)
  BY <1>1, FS_Interval
<1> QED
  BY <1>2, FS_Subset, FS_CardinalityType

\* One more element makes a finite set larger by one at most.
LEMMA AddedAtMostOne ==
  ASSUME NEW S, NEW x, IsFiniteSet(S)
  PROVE  /\ Cardinality(S) \in Nat /\ Cardinality(S \cup {x}) \in Nat
         /\ Cardinality(S \cup {x}) <= Cardinality(S) + 1
<1>1. IsFiniteSet(S \cup {x})
      /\ Cardinality(S \cup {x}) = IF x \in S THEN Cardinality(S) ELSE Cardinality(S) + 1
  BY FS_AddElement
<1>2. Cardinality(S) \in Nat /\ Cardinality(S \cup {x}) \in Nat
  BY <1>1, FS_CardinalityType
<1> QED
  BY <1>1, <1>2

\* What is held on a later day was held before.
LEMMA HeldEarlierToo ==
  ASSUME NEW exit \in Int, NEW d \in Int, NEW e \in Int, d <= e, Held(exit, e)
  PROVE  Held(exit, d)
BY DEF Held

\* What Candidates offers is a trade of the day.
LEMMA CandidateIsTrade ==
  ASSUME SelectionAssumption, SelectionTypeOK, today \in Days, NEW t \in Candidates
  PROVE  /\ t \in Trade
         /\ t.signal = today /\ today < t.entry /\ t.entry <= t.exit
<1>1. /\ t.symbol \in Symbols /\ t.industry \in Industries /\ t.signal = today
      /\ t.entry \in today + 1 .. today + MaxHold
      /\ t.exit \in today + 1 .. today + 2 * MaxHold
      /\ t.entry <= t.exit
  BY DEF Candidates
<1>2. t.entry \in Dates /\ t.exit \in Dates
  BY <1>1, SelectionAssumption DEF Dates, Days, SelectionAssumption
<1>3. t = [symbol |-> t.symbol, industry |-> t.industry, signal |-> t.signal,
           entry |-> t.entry, exit |-> t.exit]
  BY DEF Candidates
<1> QED
  BY <1>1, <1>2, <1>3 DEF Trade, Days

-----------------------------------------------------------------------------
(* One fact for each conjunct that taking a trade can disturb. *)

\* The scan is open only on a day.
OpenOnDay == ~closed => today \in Days
Inv == SelectionInv /\ OpenOnDay

LEMMA SelectKeepsTypes ==
  ASSUME SelectionAssumption, Inv, NEW t \in Candidates, Take(t)
  PROVE  /\ SelectionTypeOK' /\ today \in Days /\ today' = today
         /\ t \in Trade /\ t.signal = today /\ today < t.entry /\ t.entry <= t.exit
         /\ Taken' = Taken \cup {Len(selected) + 1}
         /\ Taken = 1 .. Len(selected) /\ Len(selected) \in Nat
         /\ selected'[Len(selected) + 1] = t
         /\ \A i \in Taken : selected'[i] = selected[i]
<1>1. today \in Days
  BY DEF Take, Scanned, Inv, OpenOnDay
<1>2. t \in Trade /\ t.signal = today /\ today < t.entry /\ t.entry <= t.exit
  BY <1>1, CandidateIsTrade DEF Inv, SelectionInv
<1>3. selected \in Seq(Trade) /\ selected' = Append(selected, t)
  BY DEF Take, Inv, SelectionInv, SelectionTypeOK
<1>4. /\ selected' \in Seq(Trade)
      /\ Taken' = Taken \cup {Len(selected) + 1}
      /\ Taken = 1 .. Len(selected) /\ Len(selected) \in Nat
      /\ selected'[Len(selected) + 1] = t
      /\ \A i \in Taken : selected'[i] = selected[i]
  BY <1>2, <1>3 DEF Taken
<1>5. SelectionTypeOK'
  <2>1. active' \subseteq Taken'
    BY <1>4 DEF Take, Inv, SelectionInv, SelectionTypeOK
  <2>2. lastExit' \in [Symbols -> {0} \cup Dates]
    BY <1>2 DEF Take, Inv, SelectionInv, SelectionTypeOK, Trade
  <2>3. today' \in {0} \cup Days /\ dayCount' \in Nat /\ closed' \in BOOLEAN
    BY DEF Take, Inv, SelectionInv, SelectionTypeOK
  <2> QED
    BY <1>4, <2>1, <2>2, <2>3 DEF SelectionTypeOK
<1> QED
  BY <1>1, <1>2, <1>4, <1>5 DEF Take

\* What is not passed over holds nothing of its symbol, nor of its industry
\* under the cap, among all that was taken, and the cooldown is over.
LEMMA NotPassed ==
  ASSUME SelectionAssumption, Inv, today \in Days, NEW t \in Trade, ~Passed(t),
         NEW i \in Taken
  PROVE  /\ selected[i].symbol = t.symbol =>
              /\ ~Held(selected[i].exit, today)
              /\ Cooldown > 0 => today - selected[i].exit >= Cooldown
         /\ IndustryCap /\ selected[i].industry = t.industry =>
              ~Held(selected[i].exit, today)
<1>1. i \in active <=> Held(selected[i].exit, today)
  BY DEF Inv, SelectionInv, ActiveIsHeld
<1>2. ~HeldSymbol(t) /\ ~HeldIndustry(t) /\ ~Cooling(t)
  BY DEF Passed
<1>3. selected[i] \in Trade
  BY DEF Inv, SelectionInv, SelectionTypeOK, Taken
<1>4. ASSUME selected[i].symbol = t.symbol, Cooldown > 0
      PROVE  today - selected[i].exit >= Cooldown
  <2>1. selected[i].exit <= lastExit[t.symbol]
    BY <1>4 DEF Inv, SelectionInv, LastIsLast
  <2>2. lastExit[t.symbol] \in {0} \cup Dates /\ selected[i].exit \in Dates
    BY <1>3 DEF Inv, SelectionInv, SelectionTypeOK, Trade
  <2>3. lastExit[t.symbol] > 0
    BY <2>1, <2>2 DEF Dates
  <2> QED
    BY <1>2, <1>4, <2>1, <2>2, <2>3, SelectionAssumption
    DEF Cooling, Dates, Days, SelectionAssumption
<1> QED
  BY <1>1, <1>2, <1>4 DEF HeldSymbol, HeldIndustry

LEMMA SelectKeepsOrder ==
  ASSUME SelectionAssumption, Inv, NEW t \in Candidates, Take(t)
  PROVE  InOrder' /\ ActiveIsHeld' /\ LastIsLast'
<1> DEFINE n == Len(selected) + 1
<1>1. /\ today \in Days /\ today' = today /\ t \in Trade /\ t.signal = today
      /\ today < t.entry /\ t.entry <= t.exit
      /\ Taken' = Taken \cup {n} /\ n \notin Taken
      /\ selected'[n] = t /\ \A i \in Taken : selected'[i] = selected[i]
  BY SelectKeepsTypes
<1>2. \A i \in Taken : selected[i] \in Trade
  BY DEF Inv, SelectionInv, SelectionTypeOK, Taken
<1> HIDE DEF n
<1>3. InOrder'
  <2> SUFFICES ASSUME NEW i \in Taken'
               PROVE  /\ selected'[i].signal < selected'[i].entry
                      /\ selected'[i].entry <= selected'[i].exit
                      /\ selected'[i].signal <= today'
    BY DEF InOrder
  <2>1. CASE i = n
    BY <1>1, <2>1 DEF Days
  <2>2. CASE i \in Taken
    BY <1>1, <2>2 DEF Inv, SelectionInv, InOrder
  <2> QED
    BY <1>1, <2>1, <2>2
<1>4. ActiveIsHeld'
  <2>1. active' = active \cup {n}
    BY DEF Take, n
  <2>2. Held(t.exit, today)
    BY <1>1, SelectionAssumption DEF Held, Trade, Days, Dates, SelectionAssumption
  <2>3. ActiveIsHeld
    BY DEF Inv, SelectionInv
  <2> QED
    BY <1>1, <2>1, <2>2, <2>3 DEF ActiveIsHeld
<1>5. LastIsLast'
  <2> SUFFICES ASSUME NEW i \in Taken'
               PROVE  selected'[i].exit <= lastExit'[selected'[i].symbol]
    BY DEF LastIsLast
  <2>1. lastExit' = [lastExit EXCEPT ![t.symbol] = t.exit]
        /\ lastExit \in [Symbols -> {0} \cup Dates] /\ t.symbol \in Symbols
    BY <1>1 DEF Take, Inv, SelectionInv, SelectionTypeOK, Trade
  <2>2. t.exit \in Int /\ today \in Int /\ today < t.exit
    BY <1>1 DEF Trade, Days, Dates
  <2>3. CASE i = n
    BY <1>1, <2>1, <2>2, <2>3
  <2>4. CASE i \in Taken /\ selected[i].symbol = t.symbol
    <3>1. ~Held(selected[i].exit, today)
      BY <1>1, <2>4, NotPassed DEF Take
    <3>2. selected[i].exit \in Int
      BY <1>2, <2>4 DEF Trade, Dates
    <3>3. selected[i].exit <= today
      BY <2>2, <3>1, <3>2 DEF Held
    <3>4. lastExit'[t.symbol] = t.exit /\ selected'[i] = selected[i]
      BY <1>1, <2>1, <2>4
    <3> QED
      BY <2>2, <2>4, <3>2, <3>3, <3>4
  <2>5. CASE i \in Taken /\ selected[i].symbol # t.symbol
    BY <1>1, <1>2, <2>1, <2>5 DEF Inv, SelectionInv, LastIsLast, Trade
  <2> QED
    BY <1>1, <2>3, <2>4, <2>5
<1> QED
  BY <1>3, <1>4, <1>5

LEMMA SelectKeepsHeldOnce ==
  ASSUME SelectionAssumption, Inv, NEW t \in Candidates, Take(t)
  PROVE  HeldOnce'
<1> DEFINE n == Len(selected) + 1
<1>1. /\ today \in Days /\ t \in Trade /\ t.signal = today
      /\ Taken' = Taken \cup {n} /\ Taken = 1 .. Len(selected) /\ Len(selected) \in Nat
      /\ selected'[n] = t /\ \A i \in Taken : selected'[i] = selected[i]
  BY SelectKeepsTypes
<1> SUFFICES ASSUME NEW i \in Taken', NEW j \in Taken', i < j
             PROVE  LET a == selected'[i]  b == selected'[j] IN
                    /\ a.symbol = b.symbol =>
                         /\ ~Held(a.exit, b.signal)
                         /\ Cooldown > 0 => b.signal - a.exit >= Cooldown
                    /\ IndustryCap /\ a.industry = b.industry => ~Held(a.exit, b.signal)
  BY DEF HeldOnce, Held
<1>2. i \in Taken
  BY <1>1
<1>3. CASE j = n
  <2>1. /\ selected[i].symbol = t.symbol =>
             /\ ~Held(selected[i].exit, today)
             /\ Cooldown > 0 => today - selected[i].exit >= Cooldown
        /\ IndustryCap /\ selected[i].industry = t.industry =>
             ~Held(selected[i].exit, today)
    BY <1>1, <1>2, NotPassed DEF Take
  <2>2. selected'[i] = selected[i] /\ selected'[j] = t
    BY <1>1, <1>2, <1>3
  <2> QED
    BY <1>1, <2>1, <2>2
<1>4. CASE j \in Taken
  <2>1. selected'[i] = selected[i] /\ selected'[j] = selected[j]
    BY <1>1, <1>2, <1>4
  <2> QED
    BY <1>2, <1>4, <2>1 DEF Inv, SelectionInv, HeldOnce
<1> QED
  BY <1>1, <1>3, <1>4

\* Who is open on a date on which the new trade is open was held when it was
\* taken: its entry is after its signal, and so is that date.
LEMMA SelectKeepsCapacity ==
  ASSUME SelectionAssumption, Inv, NEW t \in Candidates, Take(t)
  PROVE  ActiveFits' /\ WithinCapacity'
<1> DEFINE n == Len(selected) + 1
<1>1. /\ SelectionTypeOK' /\ today \in Days /\ t \in Trade /\ today < t.entry
      /\ Taken' = Taken \cup {n} /\ Taken = 1 .. Len(selected) /\ Len(selected) \in Nat
      /\ selected'[n] = t /\ \A i \in Taken : selected'[i] = selected[i]
  BY SelectKeepsTypes
<1>2. active \subseteq Taken /\ IsFiniteSet(active) /\ Cardinality(active) \in Nat
  BY TakenFinite DEF Inv, SelectionInv, SelectionTypeOK
<1>3. ASSUME MaxActive > 0  PROVE  Cardinality(active) + 1 <= MaxActive
  <2>1. ~Full
    BY DEF Take
  <2> QED
    BY <1>2, <1>3, <2>1, SelectionAssumption DEF Full, SelectionAssumption
<1>4. ActiveFits'
  <2>1. active' = active \cup {n}
    BY DEF Take, n
  <2>2. Cardinality(active') <= Cardinality(active) + 1
    BY <1>2, <2>1, AddedAtMostOne
  <2>3. Cardinality(active') \in Nat
    BY <1>2, <2>1, AddedAtMostOne
  <2> QED
    BY <1>2, <1>3, <2>2, <2>3, SelectionAssumption DEF ActiveFits, SelectionAssumption
<1>5. WithinCapacity'
  <2> SUFFICES ASSUME MaxActive > 0, NEW date \in Dates
               PROVE  Cardinality(OpenOn(date)') <= MaxActive
    BY DEF WithinCapacity, OpenOn
  <2>1. \A i \in Taken : selected[i] \in Trade
    BY DEF Inv, SelectionInv, SelectionTypeOK, Taken
  <2>2. OpenOn(date)' = IF t.entry <= date /\ date < t.exit
                         THEN OpenOn(date) \cup {n} ELSE OpenOn(date)
    BY <1>1 DEF OpenOn
  <2>3. IsFiniteSet(OpenOn(date)) /\ Cardinality(OpenOn(date)) \in Nat
    BY TakenFinite DEF OpenOn, Inv, SelectionInv
  <2>4. Cardinality(OpenOn(date)) <= MaxActive
    BY DEF Inv, SelectionInv, WithinCapacity
  <2>5. CASE t.entry <= date /\ date < t.exit
    <3>1. OpenOn(date) \subseteq active
      <4> SUFFICES ASSUME NEW i \in OpenOn(date)  PROVE i \in active
        OBVIOUS
      <4>1. i \in Taken /\ date < selected[i].exit /\ selected[i] \in Trade
        BY <2>1 DEF OpenOn
      <4>2. Held(selected[i].exit, today)
        BY <1>1, <2>5, <4>1 DEF Held, Trade, Dates, Days
      <4> QED
        BY <4>1, <4>2 DEF Inv, SelectionInv, ActiveIsHeld
    <3>2. Cardinality(OpenOn(date)) <= Cardinality(active)
      BY <1>2, <3>1, FS_Subset
    <3>3. /\ Cardinality(OpenOn(date)') \in Nat
          /\ Cardinality(OpenOn(date)') <= Cardinality(OpenOn(date)) + 1
      BY <2>2, <2>3, <2>5, AddedAtMostOne
    <3> QED
      BY <1>2, <1>3, <2>3, <3>2, <3>3, SelectionAssumption DEF SelectionAssumption
  <2>6. CASE ~(t.entry <= date /\ date < t.exit)
    BY <2>2, <2>4, <2>6
  <2> QED
    BY <2>5, <2>6
<1> QED
  BY <1>4, <1>5

\* A new day drops what is no longer held.
LEMMA NextDayStep ==
  ASSUME SelectionAssumption, Inv, NextDay
  PROVE  Inv'
<1>1. PICK day \in Days :
        /\ day > today /\ today' = day
        /\ active' = {i \in active : Held(selected[i].exit, day)}
        /\ dayCount' = 0 /\ closed' = FALSE
        /\ selected' = selected /\ lastExit' = lastExit
  BY DEF NextDay
<1>2. Taken' = Taken /\ \A i \in Taken : selected[i] \in Trade
  BY <1>1 DEF Taken, Inv, SelectionInv, SelectionTypeOK
<1>3. SelectionTypeOK' /\ OpenOnDay'
  BY <1>1, <1>2 DEF SelectionTypeOK, Taken, OpenOnDay, Inv, SelectionInv
<1>4. today \in Int /\ day \in Int /\ today < day
  BY <1>1 DEF Inv, SelectionInv, SelectionTypeOK, Days
<1>5. InOrder'
  BY <1>1, <1>2, <1>4 DEF InOrder, Inv, SelectionInv, Trade, Days, Dates
<1>6. ActiveIsHeld'
  <2>1. \A i \in Taken : Held(selected[i].exit, day) => Held(selected[i].exit, today)
    BY <1>2, <1>4, HeldEarlierToo DEF Trade, Dates
  <2> QED
    BY <1>1, <1>2, <2>1 DEF ActiveIsHeld, Inv, SelectionInv
<1>7. LastIsLast' /\ HeldOnce' /\ WithinCapacity'
  BY <1>1, <1>2 DEF LastIsLast, HeldOnce, Held, WithinCapacity, OpenOn, Taken, Inv, SelectionInv
<1>8. ActiveFits'
  <2>1. active \subseteq Taken /\ IsFiniteSet(active) /\ Cardinality(active) \in Nat
    BY TakenFinite DEF Inv, SelectionInv, SelectionTypeOK
  <2>2. active' \subseteq active
    BY <1>1
  <2>3. Cardinality(active') <= Cardinality(active) /\ Cardinality(active') \in Nat
    BY <2>1, <2>2, FS_Subset, FS_CardinalityType
  <2> QED
    BY <2>1, <2>3, SelectionAssumption
    DEF ActiveFits, Inv, SelectionInv, SelectionAssumption
<1> QED
  BY <1>3, <1>5, <1>6, <1>7, <1>8 DEF Inv, SelectionInv

\* A step that takes nothing and begins no day.
LEMMA QuietStep ==
  ASSUME Inv, UNCHANGED <<selected, active, lastExit, today, dayCount>>,
         closed' \in BOOLEAN, closed => closed'
  PROVE  Inv'
<1>1. Taken' = Taken
  BY DEF Taken
<1>2. SelectionTypeOK' /\ OpenOnDay'
  BY <1>1 DEF SelectionTypeOK, OpenOnDay, Inv, SelectionInv
<1>3. InOrder' /\ ActiveIsHeld' /\ LastIsLast' /\ ActiveFits'
  BY <1>1 DEF InOrder, ActiveIsHeld, LastIsLast, ActiveFits, Held, Inv, SelectionInv
<1>4. HeldOnce' /\ WithinCapacity'
  BY <1>1 DEF HeldOnce, WithinCapacity, OpenOn, Held, Inv, SelectionInv
<1> QED
  BY <1>2, <1>3, <1>4 DEF Inv, SelectionInv

LEMMA Invariance ==
  ASSUME SelectionAssumption, Inv, [SelectionNext]_selectionVars
  PROVE  Inv'
<1>1. CASE NextDay
  BY <1>1, NextDayStep
<1>2. ASSUME NEW t \in Candidates, Skip(t) \/ SkipCorrelated(t)  PROVE Inv'
  BY <1>2, QuietStep DEF Skip, SkipCorrelated, selectionVars, Inv, SelectionInv, SelectionTypeOK
<1>3. ASSUME NEW t \in Candidates, BreakFull(t)  PROVE Inv'
  BY <1>3, QuietStep DEF BreakFull
<1>4. ASSUME NEW t \in Candidates, Take(t)  PROVE Inv'
  <2>1. SelectionTypeOK' /\ today \in Days /\ today' = today
    BY <1>4, SelectKeepsTypes
  <2> QED
    BY <1>4, <2>1, SelectKeepsOrder, SelectKeepsHeldOnce, SelectKeepsCapacity
    DEF Inv, SelectionInv, OpenOnDay
<1>5. CASE UNCHANGED selectionVars
  BY <1>5, QuietStep DEF selectionVars, Inv, SelectionInv, SelectionTypeOK
<1> QED
  BY <1>1, <1>2, <1>3, <1>4, <1>5 DEF SelectionNext

LEMMA Initially ==
  ASSUME SelectionAssumption, SelectionInit
  PROVE  Inv
<1>1. Taken = {}
  BY DEF SelectionInit, Taken
<1>2. SelectionTypeOK /\ OpenOnDay
  BY <1>1 DEF SelectionInit, SelectionTypeOK, OpenOnDay
<1>3. InOrder /\ ActiveIsHeld /\ LastIsLast /\ HeldOnce
  BY <1>1 DEF SelectionInit, InOrder, ActiveIsHeld, LastIsLast, HeldOnce
<1>4. ActiveFits
  BY FS_EmptySet, SelectionAssumption DEF SelectionInit, ActiveFits, SelectionAssumption
<1>5. WithinCapacity
  <2>1. \A date \in Dates : OpenOn(date) = {}
    BY <1>1 DEF OpenOn
  <2> QED
    BY <2>1, FS_EmptySet, SelectionAssumption DEF WithinCapacity, SelectionAssumption
<1> QED
  BY <1>2, <1>3, <1>4, <1>5 DEF Inv, SelectionInv

\* The inductive invariant holds of every behaviour.
THEOREM SelectionInvHolds == SelectionSpec => []Inv
<1>1. SelectionInit => Inv
  BY Initially, SelectionAssumption
<1>2. Inv /\ [SelectionNext]_selectionVars => Inv'
  BY Invariance, SelectionAssumption
<1> QED
  BY <1>1, <1>2, PTL DEF SelectionSpec

\* The positions and the last exits the scan keeps are of the trades it took.
THEOREM SelectionTypeCorrect == SelectionSpec => []SelectionTypeOK
<1>1. Inv => SelectionTypeOK
  BY DEF Inv, SelectionInv
<1> QED
  BY <1>1, SelectionInvHolds, PTL

\* No symbol is held twice at once or within its cooldown, and no industry twice
\* under the cap, whatever candidates come (the loops over active_positions and
\* last_exit_by_symbol).
THEOREM TakenOnce == SelectionSpec => []HeldOnce
<1>1. Inv => HeldOnce
  BY DEF Inv, SelectionInv
<1> QED
  BY <1>1, SelectionInvHolds, PTL

\* No date has more open positions than max_active_positions.
THEOREM CapacityKept == SelectionSpec => []WithinCapacity
<1>1. Inv => WithinCapacity
  BY DEF Inv, SelectionInv
<1> QED
  BY <1>1, SelectionInvHolds, PTL

\* A trade is alone, or all the trades it is counted with are open on the day of
\* its entry.
LEMMA CountIsWithin ==
  ASSUME SelectionAssumption, Inv
  PROVE  BudgetAccepts
<1> SUFFICES ASSUME MaxActive > 0, \A i \in Taken : selected[i].entry < selected[i].exit,
                    NEW i \in Taken
             PROVE  Cardinality(OpenWith(i)) <= MaxActive
  BY DEF BudgetAccepts, CapacityAccepted
<1> DEFINE date == selected[i].entry
<1>1. \A j \in Taken : selected[j] \in Trade
  BY DEF Inv, SelectionInv, SelectionTypeOK, Taken
<1>2. date \in Dates
  BY <1>1 DEF Trade
<1>3. OpenWith(i) \subseteq OpenOn(date)
  BY <1>1 DEF OpenWith, OpenOn, NotAfter, Trade, Dates
<1>4. IsFiniteSet(OpenOn(date)) /\ Cardinality(OpenOn(date)) \in Nat
  BY TakenFinite DEF OpenOn, Inv, SelectionInv
<1>5. Cardinality(OpenWith(i)) <= Cardinality(OpenOn(date))
      /\ Cardinality(OpenWith(i)) \in Nat
  BY <1>3, <1>4, FS_Subset, FS_CardinalityType
<1>6. Cardinality(OpenOn(date)) <= MaxActive
  BY <1>2 DEF Inv, SelectionInv, WithinCapacity
<1> QED
  BY <1>4, <1>5, <1>6, SelectionAssumption DEF SelectionAssumption

\* The probability budget never refuses what a selection took for its number of
\* positions (_validate_selected_active_capacity).
THEOREM BudgetNeverRefuses == SelectionSpec => []BudgetAccepts
<1>1. Inv => BudgetAccepts
  BY CountIsWithin, SelectionAssumption
<1> QED
  BY <1>1, SelectionInvHolds, PTL
=============================================================================
