----------------------------- MODULE Chronology -----------------------------
(* The order of time, as the analysis puts recorded rows into it:            *)
(* `sorted(runs, key=(started, run_id))` and `ORDER BY s.ts`.  Rows of one   *)
(* stamp stay as they stand.                                                 *)
EXTENDS Integers, Sequences, FiniteSets

\* Does what is stamped at place i come before what is stamped at place j?
Precedes(stamps, i, j) ==
  stamps[i] < stamps[j] \/ (stamps[i] = stamps[j] /\ i < j)

Position(stamps, i) == Cardinality({j \in DOMAIN stamps : Precedes(stamps, j, i)}) + 1

\* The place of what comes first, of what comes next, and so on.
Order(stamps) ==
  [k \in DOMAIN stamps |-> CHOOSE i \in DOMAIN stamps : Position(stamps, i) = k]

\* The rows that are in `chosen`, as they stand.
Only(rows, chosen) ==
  LET kept[n \in 0..Len(rows)] ==
        IF n = 0 THEN <<>>
        ELSE IF rows[n] \in chosen THEN Append(kept[n - 1], rows[n]) ELSE kept[n - 1]
  IN kept[Len(rows)]
=============================================================================
