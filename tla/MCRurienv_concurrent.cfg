SPECIFICATION Spec
CONSTANTS
  Starts = {s1, s2, s3}
  Umounts = {u1}
  Pids = {p1, p2, p3}
  NoPid = NoPid
  Serial = FALSE
  Reuse = FALSE
SYMMETRY Symmetry
\* Everything ends when every invocation has.
CHECK_DEADLOCK FALSE
INVARIANTS JoinedIsWhole
