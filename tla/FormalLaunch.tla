------------------------------ MODULE FormalLaunch ------------------------------
(***************************************************************************)
(* The execution ledger of the formal supervisor                           *)
(* (app/factor_v3_formal_trusted_supervisor.py): signed authorizations to  *)
(* run, or to resume one run, are used up by files that are written once.  *)
(* A file is staged under a lease and renamed without replacing, which is  *)
(* one step here: it appears whole, and once.  The supervisor keeps the    *)
(* files it wrote open for writing until it ends, so that nobody else can  *)
(* open them; only their names can be looked at.                           *)
(*                                                                         *)
(* The checks of signatures, hashes and held sources, the credential and   *)
(* the artifacts are left out: any of them may end the supervisor (Stop).  *)
(***************************************************************************)
EXTENDS Naturals

CONSTANTS
  Supervisors,   \* processes
  Runs, Resumes, \* launch authorizations, by their action
  Original,      \* the run a resume is signed for
  Keys,
  ReplayKey,     \* of a run and a category, what must not be used twice
  Unwritten

Launches == Runs \cup Resumes
Categories == {"bootstrap", "id", "nonce"}

ASSUME FormalAssumption ==
  /\ Runs \cap Resumes = {}
  /\ Original \in [Resumes -> Runs]
  /\ ReplayKey \in [Runs -> [Categories -> Keys]]
  /\ Unwritten \notin Launches

VARIABLES
  claims,         \* claims/<authorization>
  replay,         \* bootstrap_authorizations, authorization_ids, _nonces:
                  \* the run whose claim is the content
  transitions,    \* resumed_authorizations/<run>: the resume
  terminals,      \* worker_terminals/<authorization>
  completions,    \* completed/<authorization>
  step, launch,   \* of every supervisor: where it is, and its authorization
  orphans         \* authorizations whose worker outlived its supervisor

ledgerFiles == <<claims, replay, transitions, terminals, completions>>
formalVars == <<ledgerFiles, step, launch, orphans>>

FormalInit ==
  /\ claims = {} /\ terminals = {} /\ completions = {} /\ orphans = {}
  /\ replay = [c \in Categories |-> [k \in Keys |-> Unwritten]]
  /\ transitions = [r \in Runs |-> Unwritten]
  /\ step = [p \in Supervisors |-> "idle"]
  /\ launch = [p \in Supervisors |-> Unwritten]

\* A resume has the id, the nonce and the bootstrap authorization of its run.
Root(l) == IF l \in Resumes THEN Original[l] ELSE l

StepTo(p, from, to) == step[p] = from /\ step' = [step EXCEPT ![p] = to]

Supervise(p, l) ==
  /\ step[p] = "idle"
  /\ step' = [step EXCEPT ![p] = IF l \in Resumes THEN "resume" ELSE "claim"]
  /\ launch' = [launch EXCEPT ![p] = l]
  /\ UNCHANGED <<ledgerFiles, orphans>>

Uncompleted(p) == launch[p] \in Resumes => Root(launch[p]) \notin completions

CheckOriginal(p) ==
  /\ Uncompleted(p)
  /\ StepTo(p, "resume", "open")
  /\ UNCHANGED <<ledgerFiles, launch, orphans>>

\* The files of an authorization are held from its claim on.
HoldsClaim(p) == step[p] \notin {"idle", "resume", "open", "claim"}
HeldBySomebody(l) == \E p \in Supervisors : HoldsClaim(p) /\ launch[p] = l

\* The claim and the three keys say the same.
Claimed(r) == r \in claims /\ \A c \in Categories : replay[c][ReplayKey[r][c]] = r

\* Mutant: the keys are not compared with the claim.
OpenClaimAlone(p) ==
  /\ Root(launch[p]) \in claims /\ ~HeldBySomebody(Root(launch[p]))
  /\ StepTo(p, "open", "claim")
  /\ UNCHANGED <<ledgerFiles, launch, orphans>>

\* The supervisor of the original is gone: none comes back to a claimed run, so
\* that the four files can be opened in one step.
OpenOriginal(p) ==
  /\ Claimed(Root(launch[p])) /\ ~HeldBySomebody(Root(launch[p]))
  /\ StepTo(p, "open", "claim")
  /\ UNCHANGED <<ledgerFiles, launch, orphans>>

\* A file is on disk when the supervisor goes on, and also when it stops because
\* what follows the rename raised.
Wrote(p, from, to) == \E next \in {to, "idle"} : StepTo(p, from, next)

WriteClaim(p) ==
  /\ launch[p] \notin claims
  /\ claims' = claims \cup {launch[p]}
  /\ Wrote(p, "claim", IF launch[p] \in Resumes THEN "transition" ELSE "bootstrap")
  /\ UNCHANGED <<replay, transitions, terminals, completions, launch, orphans>>

WriteTransition(p) ==
  /\ Wrote(p, "transition", "start")
  /\ transitions[Root(launch[p])] = Unwritten
  /\ transitions' = [transitions EXCEPT ![Root(launch[p])] = launch[p]]
  /\ UNCHANGED <<claims, replay, terminals, completions, launch, orphans>>

Following == [bootstrap |-> "id", id |-> "nonce", nonce |-> "start"]

WriteKey(p, c) ==
  LET key == ReplayKey[launch[p]][c] IN
  /\ Wrote(p, c, Following[c])
  /\ replay[c][key] = Unwritten
  /\ replay' = [replay EXCEPT ![c][key] = launch[p]]
  /\ UNCHANGED <<claims, transitions, terminals, completions, launch, orphans>>

StartWorker(p) ==
  /\ StepTo(p, "start", "working")
  /\ UNCHANGED <<ledgerFiles, launch, orphans>>

WorkerEnds(p) ==
  /\ StepTo(p, "working", "recheck")
  /\ UNCHANGED <<ledgerFiles, launch, orphans>>

\* Mutant: the original is not looked at again.
RecheckNothing(p) ==
  /\ StepTo(p, "recheck", "terminal")
  /\ UNCHANGED <<ledgerFiles, launch, orphans>>

Recheck(p) ==
  /\ Uncompleted(p)
  /\ StepTo(p, "recheck", "terminal")
  /\ UNCHANGED <<ledgerFiles, launch, orphans>>

WriteTerminal(p) ==
  /\ launch[p] \notin terminals
  /\ terminals' = terminals \cup {launch[p]}
  /\ Wrote(p, "terminal", "complete")
  /\ UNCHANGED <<claims, replay, transitions, completions, launch, orphans>>

WriteCompleted(p) ==
  /\ launch[p] \notin completions
  /\ completions' = completions \cup {launch[p]}
  /\ Wrote(p, "complete", "confirm")
  /\ UNCHANGED <<claims, replay, transitions, terminals, launch, orphans>>

\* The terminal goes to the standard output after one more look.
Confirm(p) ==
  /\ Uncompleted(p)
  /\ StepTo(p, "confirm", "idle")
  /\ UNCHANGED <<ledgerFiles, launch, orphans>>

\* Anything that raises, a file that is there already or an original that is
\* completed among it, ends the supervisor; a worker that takes too long or says
\* too much is killed before.
Stop(p) ==
  /\ step[p] # "idle"
  /\ step' = [step EXCEPT ![p] = "idle"]
  /\ UNCHANGED <<ledgerFiles, launch, orphans>>

\* Nothing ends a worker with its supervisor.
SupervisorDies(p) ==
  /\ StepTo(p, "working", "idle")
  /\ orphans' = orphans \cup {launch[p]}
  /\ UNCHANGED <<ledgerFiles, launch>>

OrphanEnds == \E l \in orphans :
  /\ orphans' = orphans \ {l}
  /\ UNCHANGED <<ledgerFiles, step, launch>>

FormalStep(p) ==
  \/ \E l \in Launches : Supervise(p, l)
  \/ CheckOriginal(p) \/ OpenOriginal(p)
  \/ WriteClaim(p) \/ WriteTransition(p) \/ \E c \in Categories : WriteKey(p, c)
  \/ StartWorker(p) \/ WorkerEnds(p) \/ Recheck(p)
  \/ WriteTerminal(p) \/ WriteCompleted(p) \/ Confirm(p)
  \/ Stop(p) \/ SupervisorDies(p)

FormalNext == (\E p \in Supervisors : FormalStep(p)) \/ OrphanEnds

FormalSpec == FormalInit /\ [][FormalNext]_formalVars

-----------------------------------------------------------------------------
\* Two authorizations for the same run, or for runs that share a key.
Rivals(l, m) ==
  l # m /\ \E c \in Categories : ReplayKey[Root(l)][c] = ReplayKey[Root(m)][c]

\* Of authorizations that share an id, a nonce or a bootstrap authorization, a
\* resume among them, one at most is ever completed, although a run may complete
\* between the moment its resume finds it uncompleted and the one it opens its
\* claim; no two of them have a worker under a supervisor that lives; and beside
\* the worker of a supervisor that died only the resume of its run has one.
UsedOnce ==
  /\ \A l, m \in completions : ~Rivals(l, m)
  /\ \A p, q \in Supervisors : step[p] = "working" /\ step[q] = "working" =>
       p = q \/ (launch[p] # launch[q] /\ ~Rivals(launch[p], launch[q]))
  /\ \A p \in Supervisors, l \in orphans : step[p] = "working" =>
       l # launch[p] /\ (Rivals(l, launch[p]) => l = Root(launch[p]))

\* A run nobody can bring to an end any more: its supervisor is gone and left a
\* key unwritten, or its one resume is gone.
Spent(r) ==
  /\ r \in claims /\ ~HeldBySomebody(r)
  /\ \/ ~Claimed(r)
     \/ transitions[r] # Unwritten /\ ~HeldBySomebody(transitions[r])

\* For such a run no worker is started again, whatever is signed to resume it.
SpentStays ==
  [][\A r \in Runs : Spent(r) =>
       /\ Spent(r)'
       /\ \A p \in Supervisors : step'[p] = "working" => Root(launch'[p]) # r]_formalVars
=============================================================================
