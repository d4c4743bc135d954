----------------------------- MODULE MonitorAlerts -----------------------------
(***************************************************************************)
(* Runs of the monitors (recommendations.py monitor_recommendations,       *)
(* monitor_planned_exits): each reads the ids on file, then files and      *)
(* posts, one after the other, the alerts that apply and are not known.    *)
(* Timers and HTTP requests start runs at any time and nothing excludes    *)
(* them from each other.                                                   *)
(***************************************************************************)
EXTENDS Logs, FiniteSets

CONSTANTS
  Monitors,    \* runs that may be under way at once
  Alerts,      \* ids of alerts
  Window,      \* lines read_jsonl parses
  MaxRows      \* bound: lines on file

ASSUME MonitorsAssumption ==
  IsFiniteSet(Monitors) /\ Alerts # {} /\ Window \in Nat

VARIABLES
  file,        \* lines [id, seen, text] of the alert written last on each; seen is
               \* the length of the file its run read
  fileCut,     \* the file does not end with a newline
  sent,        \* how often the receiver got each alert
  mpc,         \* of every run: "idle", "reading", "filing" or "posting"
  known, todo, \* of every run: existing_ids, and the alerts still to do
  current, seen

monitorVars == <<file, fileCut, sent, mpc, known, todo, current, seen>>

\* A line parses, or it is skipped (JSONDecodeError), or the file cannot be decoded.
Texts == {"whole", "torn", "garbled"}

\* What a run holds that has filed nothing yet.
AnAlert == CHOOSE a \in Alerts : TRUE

MonitorInit ==
  /\ file = <<>> /\ fileCut = FALSE
  /\ sent = [a \in Alerts |-> 0]
  /\ mpc = [m \in Monitors |-> "idle"]
  /\ known = [m \in Monitors |-> {}] /\ todo = [m \in Monitors |-> {}]
  /\ current = [m \in Monitors |-> AnAlert]
  /\ seen = [m \in Monitors |-> 0]

\* Mutant: the first line of the window is overlooked.
OnRecordShort == {file[i].id : i \in {j \in 1..Len(file) :
  j + Window > Len(file) + 1 /\ file[j].text = "whole"}}

\* The ids read_jsonl finds: of the last lines, those that parse.
OnRecord == {file[i].id : i \in {j \in 1..Len(file) :
  j + Window > Len(file) /\ file[j].text = "whole"}}

\* Which alerts apply that are not on file is decided item by item; here at once, as
\* nothing else sees it.  Over a file cut within a character read_text raises, now and
\* ever after.
ReadKnown(m) == \E applies \in SUBSET (Alerts \ OnRecord) :
  /\ mpc[m] = "idle" /\ \A i \in 1..Len(file) : file[i].text # "garbled"
  /\ mpc' = [mpc EXCEPT ![m] = "filing"]
  /\ known' = [known EXCEPT ![m] = OnRecord]
  /\ todo' = [todo EXCEPT ![m] = applies]
  /\ seen' = [seen EXCEPT ![m] = Len(file)]
  /\ UNCHANGED <<file, fileCut, sent, current>>

\* Run m writes alert a, or as much of it as text says.  Behind a line without its
\* newline it goes on that line, which then does not parse.
FileLine(m, a, text) ==
  LET Line(t) == [id |-> a, seen |-> seen[m], text |-> t]
      both == IF "garbled" \in {text, file[Len(file)].text} THEN "garbled" ELSE "torn"
  IN  /\ Len(file) < MaxRows
      /\ file' = Written(file, fileCut, Line(text), Line(both))

FileAlert(m) == \E a \in todo[m] \ known[m] :
  /\ mpc[m] = "filing"
  /\ FileLine(m, a, "whole") /\ fileCut' = FALSE
  /\ current' = [current EXCEPT ![m] = a]
  /\ mpc' = [mpc EXCEPT ![m] = "posting"]
  /\ UNCHANGED <<sent, known, todo, seen>>

Leave(m) ==
  /\ mpc' = [mpc EXCEPT ![m] = "idle"]
  /\ known' = [known EXCEPT ![m] = {}] /\ todo' = [todo EXCEPT ![m] = {}]
  /\ seen' = [seen EXCEPT ![m] = 0] /\ current' = [current EXCEPT ![m] = AnAlert]

\* A crash or a full disk cuts the append short, of its newline at least, and the
\* run ends before it posts.
TearAlert(m) == \E a \in todo[m] \ known[m], text \in Texts :
  /\ mpc[m] = "filing"
  /\ FileLine(m, a, text) /\ fileCut' = TRUE
  /\ Leave(m)
  /\ UNCHANGED sent

\* The post arrives, or is swallowed (URLError, TimeoutError); the id is known
\* either way.
PostAlert(m) ==
  /\ mpc[m] = "posting"
  /\ mpc' = [mpc EXCEPT ![m] = "filing"]
  /\ known' = [known EXCEPT ![m] = @ \cup {current[m]}]
  /\ sent' \in {sent, [sent EXCEPT ![current[m]] = @ + 1]}
  /\ UNCHANGED <<file, fileCut, todo, current, seen>>

\* The run is through, or an exception or a crash ends it; a post that raised
\* may have arrived.
MonitorEnds(m) ==
  /\ mpc[m] # "idle" /\ Leave(m)
  /\ IF mpc[m] = "posting"
       THEN sent' \in {sent, [sent EXCEPT ![current[m]] = @ + 1]}
       ELSE UNCHANGED sent
  /\ UNCHANGED <<file, fileCut>>

MonitorNext == \E m \in Monitors :
  \/ ReadKnown(m) \/ FileAlert(m) \/ TearAlert(m)
  \/ PostAlert(m) \/ MonitorEnds(m)

MonitorSpec == MonitorInit /\ [][MonitorNext]_monitorVars

\* The same alert is filed on two lines only by runs of which one did not see the
\* other's row: it read the file before, or the row is past the window, or the row
\* does not parse because an append was cut short, its own or the one before.  The
\* receiver gets no alert more often than there are lines on which its append went
\* through, parse or not, whatever run dies or is started again.
RepeatsAreUnseen ==
  /\ \A i, j \in 1..Len(file) : i < j /\ file[i].id = file[j].id =>
       file[j].seen < i \/ i + Window <= file[j].seen \/ file[i].text # "whole"
  /\ \A a \in Alerts : sent[a] <= Cardinality({i \in 1..Len(file) :
       file[i].id = a /\ ~(fileCut /\ i = Len(file))})
=============================================================================
