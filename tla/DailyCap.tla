------------------------------- MODULE DailyCap -------------------------------
(***************************************************************************)
(* What publishing recommendations promises to a reader: for every target  *)
(* trade date one growing set of symbols, never larger than the cap.  A    *)
(* publication adds its new symbols in one step; nothing is taken back     *)
(* but all at once, when the record breaks, and then for good: a reader is *)
(* told nothing rather than something else.                                *)
(***************************************************************************)
EXTENDS FiniteSets, Naturals

CONSTANTS
  Dates,    \* target trade dates
  Symbols,  \* canonical symbols
  Cap       \* the most symbols a date may ever show (3 in the code)

VARIABLES
  published,  \* what a reader is told a date shows
  readable    \* the record is in order

Nothing == [d \in Dates |-> {}]

Init == published = Nothing /\ readable = TRUE

Publish(d, S) ==
  /\ readable /\ UNCHANGED readable
  /\ Cardinality(published[d] \cup S) <= Cap
  /\ published' = [published EXCEPT ![d] = @ \cup S]

Break ==
  /\ readable /\ readable' = FALSE
  /\ published' = Nothing

Next == Break \/ \E d \in Dates : \E S \in SUBSET Symbols : Publish(d, S)

Spec == Init /\ [][Next]_<<published, readable>>
=============================================================================
