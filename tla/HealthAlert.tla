------------------------------ MODULE HealthAlert ------------------------------
(***************************************************************************)
(* The notification of production health (production_status.py             *)
(* process_health_alert): a check reads the state the last one left, posts *)
(* when the status changed or a reminder is due, and replaces the state.   *)
(* A timer starts checks and so may a person, with no lock between them.   *)
(***************************************************************************)
EXTENDS Naturals

CONSTANTS
  Checks,      \* checks that may be under way at once
  Problems,    \* fingerprints of a status that is not healthy
  Healthy, Nothing,
  Reminder,    \* production_health_reminder_hours
  MaxChanges,  \* bound: changes of the world
  MaxFaults    \* bound: checks that die

VARIABLES
  world,       \* the status a check would observe
  state,       \* the state file: status and hours since last_notified_at
  heard,       \* the last status the receiver got
  hpc, observed, previous,   \* of every check
  changes, deaths,
  quiet        \* history: no post failed, no check died and no two overlapped

healthVars == <<world, state, heard, hpc, observed, previous, changes, deaths, quiet>>

Statuses == Problems \cup {Healthy}

HealthInit ==
  /\ world = Healthy
  /\ state = [status |-> Nothing, age |-> 0]
  /\ heard = Nothing
  /\ hpc = [k \in Checks |-> "idle"]
  /\ observed = [k \in Checks |-> Nothing]
  /\ previous = [k \in Checks |-> [status |-> Nothing, age |-> 0]]
  /\ changes = 0 /\ deaths = 0
  /\ quiet = TRUE

Change == \E s \in Statuses :
  /\ changes < MaxChanges
  /\ changes' = changes + 1
  /\ world' = s
  /\ UNCHANGED <<state, heard, hpc, observed, previous, deaths, quiet>>

\* Stamps grow older, those a check holds among them.
Older(s) == [s EXCEPT !.age = IF @ < Reminder THEN @ + 1 ELSE @]
Hour ==
  /\ state' = Older(state)
  /\ previous' = [k \in Checks |-> Older(previous[k])]
  /\ <<state, previous>>' # <<state, previous>>
  /\ UNCHANGED <<world, heard, hpc, observed, changes, deaths, quiet>>

Observe(k) ==
  /\ hpc[k] = "idle"
  /\ hpc' = [hpc EXCEPT ![k] = "observed"]
  /\ observed' = [observed EXCEPT ![k] = world]
  /\ quiet' = (quiet /\ \A j \in Checks : hpc[j] = "idle")
  /\ UNCHANGED <<world, state, heard, previous, changes, deaths>>

\* Mutant: a recovery is not notified.
NotifiesProblems(k) ==
  observed[k] # Healthy /\ (state.status # observed[k] \/ state.age = Reminder)

\* Mutant: no reminder.
NotifiesChanges(k) == state.status # observed[k]

\* changed or reminder; nothing was ever notified before the first state.
Notifies(k) ==
  \/ state.status # observed[k]
  \/ observed[k] # Healthy /\ state.age = Reminder

ReadState(k) ==
  /\ hpc[k] = "observed"
  /\ hpc' = [hpc EXCEPT ![k] = IF Notifies(k) THEN "notifying" ELSE "writing"]
  /\ previous' = [previous EXCEPT ![k] = state]
  /\ UNCHANGED <<world, state, heard, observed, changes, deaths, quiet>>

Deliver(k) ==
  /\ hpc[k] = "notifying"
  /\ hpc' = [hpc EXCEPT ![k] = "writing"]
  /\ heard' = observed[k]
  /\ previous' = [previous EXCEPT ![k].age = 0]
  /\ UNCHANGED <<world, state, observed, changes, deaths, quiet>>

\* _post_webhook swallows the error, and the state will say notified.
Swallow(k) ==
  /\ hpc[k] = "notifying"
  /\ hpc' = [hpc EXCEPT ![k] = "writing"]
  /\ previous' = [previous EXCEPT ![k].age = 0]
  /\ quiet' = FALSE
  /\ UNCHANGED <<world, state, heard, observed, changes, deaths>>

WriteState(k) ==
  /\ hpc[k] = "writing"
  /\ hpc' = [hpc EXCEPT ![k] = "idle"]
  /\ state' = [status |-> observed[k], age |-> previous[k].age]
  /\ observed' = [observed EXCEPT ![k] = Nothing]
  /\ previous' = [previous EXCEPT ![k] = [status |-> Nothing, age |-> 0]]
  /\ UNCHANGED <<world, heard, changes, deaths, quiet>>

\* Anything but the two errors that are caught ends the check as a crash does.
Dies(k) ==
  /\ hpc[k] # "idle" /\ deaths < MaxFaults
  /\ deaths' = deaths + 1
  /\ hpc' = [hpc EXCEPT ![k] = "idle"]
  /\ observed' = [observed EXCEPT ![k] = Nothing]
  /\ previous' = [previous EXCEPT ![k] = [status |-> Nothing, age |-> 0]]
  /\ quiet' = FALSE
  /\ UNCHANGED <<world, state, heard, changes>>

CheckSteps(k) == Observe(k) \/ ReadState(k) \/ Deliver(k) \/ Swallow(k) \/ WriteState(k)

HealthNext ==
  \/ Change \/ Hour
  \/ \E k \in Checks : CheckSteps(k) \/ Dies(k)

\* The timer starts checks for ever, a check goes on, time passes, and posts do
\* not fail for ever.
HealthFairness ==
  /\ WF_healthVars(Hour)
  /\ \A k \in Checks : WF_healthVars(CheckSteps(k)) /\ SF_healthVars(Deliver(k))

HealthSpec == HealthInit /\ [][HealthNext]_healthVars /\ HealthFairness

\* As long as no post failed, no check died and none overlapped another, the
\* receiver knows what the state file says: every change, recovery included, was
\* reported.
QuietIsHeard ==
  quiet /\ (\A k \in Checks : hpc[k] = "idle") => heard = state.status

\* A problem that stays is heard in the end and stays the last thing heard, in
\* spite of lost posts, crashes and overlapping checks.
LastingProblemIsHeard ==
  \A s \in Problems : <>[](world = s) => <>[](heard = s)
=============================================================================
