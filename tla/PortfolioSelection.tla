-------------------------- MODULE PortfolioSelection --------------------------
(***************************************************************************)
(* Which of the candidate trades a research portfolio takes.  Three        *)
(* selectors share one scan, over the signal days in order and over the    *)
(* candidates of a day in the order of their rank:                         *)
(*   research_portfolio.py _select_with_portfolio_controls_receipt,        *)
(*   research_sweep.py _select_with_correlation_budget, and                *)
(*   _select_with_industry_cap_receipt of the audited strategies.          *)
(* They differ in what the constants say.  The candidates are any: the     *)
(* next one is chosen as the scan gets to it.  Ranks, returns and the      *)
(* digests of the receipt are left out.                                    *)
(***************************************************************************)
EXTENDS Integers, Sequences, FiniteSets

CONSTANTS
  Symbols, Industries,
  TopN,         \* top_n
  MaxActive,    \* max_active_positions, 0 for none
  Cooldown,     \* symbol_cooldown_days
  SameDayExit,  \* same_day_exit_before_signal_selection
  IndustryCap,  \* one position per industry
  Correlated,   \* candidates are compared with the positions held
  LastDay,      \* bound: signal days
  MaxHold       \* bound: days from a signal to the entry, and on to the exit

ASSUME SelectionAssumption ==
  /\ TopN \in Nat /\ MaxActive \in Nat /\ Cooldown \in Nat
  /\ SameDayExit \in BOOLEAN /\ IndustryCap \in BOOLEAN /\ Correlated \in BOOLEAN
  /\ LastDay \in Nat /\ MaxHold \in Nat

VARIABLES
  selected,     \* the trades taken, in order
  active,       \* active_positions, as indices of selected
  lastExit,     \* last_exit_by_symbol, 0 for none
  today,        \* signal_day, 0 before the first
  dayCount,
  closed        \* the scan of the day has ended with a break

selectionVars == <<selected, active, lastExit, today, dayCount, closed>>

Days == 1 .. LastDay
Dates == 1 .. LastDay + 2 * MaxHold
Trade == [symbol : Symbols, industry : Industries,
          signal : Days, entry : Dates, exit : Dates]
Taken == DOMAIN selected

SelectionTypeOK ==
  /\ selected \in Seq(Trade)
  /\ active \subseteq Taken
  /\ lastExit \in [Symbols -> {0} \cup Dates]
  /\ today \in {0} \cup Days
  /\ dayCount \in Nat
  /\ closed \in BOOLEAN

SelectionInit ==
  /\ selected = <<>> /\ active = {} /\ lastExit = [s \in Symbols |-> 0]
  /\ today = 0 /\ dayCount = 0 /\ closed = TRUE

\* A position that leaves on the signal day is out before the selection, or,
\* as receipts of version 1 have it, still in.
Held(exit, day) == IF SameDayExit THEN exit > day ELSE exit >= day

NextDay == \E day \in Days :
  /\ day > today
  /\ today' = day
  /\ active' = {i \in active : Held(selected[i].exit, day)}
  /\ dayCount' = 0 /\ closed' = FALSE
  /\ UNCHANGED <<selected, lastExit>>

\* The candidates of a signal: bought at the symbol's next bar, which may be
\* late, and sold there or later.
Candidates ==
  {t \in [symbol : Symbols, industry : Industries, signal : {today},
          entry : today + 1 .. today + MaxHold,
          exit : today + 1 .. today + 2 * MaxHold] :
     t.entry <= t.exit /\ t.exit <= t.entry + MaxHold}

\* A day with two candidates of the same trade key ends in an error before any
\* of them is taken; without that check a candidate could come twice, which
\* changes nothing here: the symbol is held, or it is passed over again.
Scanned(t) == ~closed /\ t \in Candidates

HeldSymbol(t) == \E i \in active : selected[i].symbol = t.symbol
HeldIndustry(t) == IndustryCap /\ \E i \in active : selected[i].industry = t.industry

\* Mutant: the cooldown is one day.
CoolingOnce(t) == Cooldown > 0 /\ lastExit[t.symbol] > 0 /\ today - lastExit[t.symbol] < 1

Cooling(t) ==
  Cooldown > 0 /\ lastExit[t.symbol] > 0 /\ today - lastExit[t.symbol] < Cooldown

Passed(t) == HeldSymbol(t) \/ HeldIndustry(t) \/ Cooling(t)

\* Mutant: one position more than max_active_positions.
FullLate == MaxActive > 0 /\ Cardinality(active) > MaxActive

Full == MaxActive > 0 /\ Cardinality(active) >= MaxActive

Skip(t) == Scanned(t) /\ Passed(t) /\ UNCHANGED selectionVars

\* Its correlation with some position is too high; how correlations come about
\* is left out.
SkipCorrelated(t) ==
  Scanned(t) /\ ~Passed(t) /\ ~Full /\ Correlated /\ active # {} /\ UNCHANGED selectionVars

BreakFull(t) ==
  /\ Scanned(t) /\ ~Passed(t) /\ Full
  /\ closed' = TRUE
  /\ UNCHANGED <<selected, active, lastExit, today, dayCount>>

\* The count is looked at after a candidate was taken: a top_n of zero takes one.
Take(t) ==
  /\ Scanned(t) /\ ~Passed(t) /\ ~Full
  /\ selected' = Append(selected, t)
  /\ active' = active \cup {Len(selected) + 1}
  /\ lastExit' = [lastExit EXCEPT ![t.symbol] = t.exit]
  /\ dayCount' = dayCount + 1
  /\ closed' = (dayCount + 1 >= TopN)
  /\ UNCHANGED today

SelectionNext ==
  \/ NextDay
  \/ \E t \in Candidates : Skip(t) \/ SkipCorrelated(t) \/ BreakFull(t) \/ Take(t)

SelectionSpec == SelectionInit /\ [][SelectionNext]_selectionVars

-----------------------------------------------------------------------------
\* A symbol, and under the cap an industry, is taken again only after its last
\* position has left, and a symbol not before the cooldown since is over: the
\* controls look at the positions still held and at the last exit, and this is
\* about every position there ever was.
HeldOnce ==
  \A i, j \in Taken : i < j =>
    LET t == selected[i]  u == selected[j] IN
    /\ t.symbol = u.symbol =>
         ~Held(t.exit, u.signal) /\ (Cooldown > 0 => u.signal - t.exit >= Cooldown)
    /\ IndustryCap /\ t.industry = u.industry => ~Held(t.exit, u.signal)

\* On no date are more positions open than max_active_positions, although the
\* scan counts them on signal days and they open later, each at its own time.
OpenOn(date) == {i \in Taken : selected[i].entry <= date /\ date < selected[i].exit}
WithinCapacity ==
  MaxActive > 0 => \A date \in Dates : Cardinality(OpenOn(date)) <= MaxActive

\* _validate_selected_active_capacity: the trades in the order of entry, then of
\* exit; how many are open when one is entered, with those that leave in time
\* dropped.  Trades that are alike count one after the other, so that the last
\* of them counts all.
NotAfter(t, u) == t.entry < u.entry \/ (t.entry = u.entry /\ t.exit <= u.exit)
OpenWith(i) ==
  {j \in Taken : /\ NotAfter(selected[j], selected[i])
                 /\ j = i \/ selected[j].exit > selected[i].entry}
CapacityAccepted == \A i \in Taken : Cardinality(OpenWith(i)) <= MaxActive

\* The probability budget counts what the selection took in its own way, and
\* never refuses it for its number of positions.
BudgetAccepts ==
  (MaxActive > 0 /\ \A i \in Taken : selected[i].entry < selected[i].exit)
    => CapacityAccepted
=============================================================================
