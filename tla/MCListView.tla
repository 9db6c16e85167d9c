----------------------------- MODULE MCListView -----------------------------
(* Bounds of the list view for TLC: the settings that the client posts. *)
EXTENDS ListView

Post(start, max, sort, asc, paused) ==
  [start |-> start, max |-> max, sort |-> sort, asc |-> asc, paused |-> paused]

\* A range, another one in the opposite order that resumes a paused timer, and
\* settings without a range or a sort property that pause it.
PostsMC == {Post(0, 2, 0, 1, -1), Post(1, 1, 0, 0, 0), Post(-1, -1, -1, 1, 1)}

FiltersMC == {{1}}
=============================================================================
