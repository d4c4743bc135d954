--------------------------------- MODULE Logs ---------------------------------
(* Append-only files of JSON lines, as sequences: the index of a last row, and *)
(* what a write leaves.                                                        *)
EXTENDS Naturals, Sequences

\* The largest of a set of indices.
LastOf(S) == CHOOSE i \in S : \A j \in S : j <= i

\* A file is opened to append and written to at once, whatever it ends with: x gets
\* a line of its own unless the last line is cut short of its newline, and then that
\* line holds both.
Written(log, cut, x, both) ==
  IF cut THEN [log EXCEPT ![Len(log)] = both] ELSE Append(log, x)
=============================================================================
