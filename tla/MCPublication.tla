----------------------------- MODULE MCPublication -----------------------------
(***************************************************************************)
(* Two runs over two target dates; runs that overlap are for the first     *)
(* one, and so is a history from before the ledger.  At most one of the    *)
(* two files lacks its last newline.  The wide audit admits every symbol,  *)
(* the narrow one a single symbol.                                         *)
(***************************************************************************)
EXTENDS Publication, TLC

CONSTANTS s1, s2, s3, wide, narrow, d1, d2

MCSymbols == {s1, s2, s3}
MCPools == {wide, narrow}
MCAllowed == (wide :> MCSymbols) @@ (narrow :> {s1})
MCDates == {d1, d2}
Symmetry == Permutations(Runs) \cup Permutations({s2, s3})

OverlapOnOneDate == overlapped => \A r \in Runs : Active(r) => job[r].target = d1

OneFileCut == Cardinality(cut) <= 1

MCInit == Init /\ \A i \in DOMAIN history : history[i].target = d1

MCSpec == MCInit /\ [][Next /\ OverlapOnOneDate' /\ OneFileCut']_vars
=============================================================================
