------------------------------ MODULE MCTaskInfo -----------------------------
(* Instances of TaskInfo for TLC.                                          *)
EXTENDS TaskInfo, TLC

Symmetry == Permutations(Threads)

\* Entries of `entry` units with bounds lo .. hi; `app` units of app info.
Of(entry, name, lo, hi, size, app) ==
  [entry |-> entry, fields |-> TRUE, name |-> name, text |-> TRUE,
   lo |-> lo, hi |-> hi, size |-> size, app |-> app]

\* Layouts that could be taken for one another: the same size, or the same
\* bounds and size with and without a name.
SomeChanging == {Of(2, -1, 1, 2, 4, 2), Of(4, 2, 1, 1, 4, 0), Of(4, -1, 1, 1, 4, 2)}

\* Names, bounds and sizes at and around every limit of the checks.
SomeMetas ==
  SomeChanging
    \cup {Of(e, n, lo, hi, size, 0) :
            e \in 1 .. 4, n \in {-1, 1, 2, 3}, lo \in {-3, -2, 2}, hi \in {-3, 1, 2},
            size \in {0, 2, 4, 5, 8, 10}}
    \cup {[Of(4, 2, 0, 1, 8, a) EXCEPT !.fields = f, !.text = x] :
            a \in {0, 1, 2}, f \in BOOLEAN, x \in BOOLEAN}
=============================================================================
