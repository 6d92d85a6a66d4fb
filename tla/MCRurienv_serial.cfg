SPECIFICATION Spec
CONSTANTS
  Starts = {s1, s2, s3}
  Umounts = {u1, u2}
  Pids = {p1, p2, p3}
  NoPid = NoPid
  Serial = TRUE
  Reuse = TRUE
SYMMETRY Symmetry
\* Everything ends when every invocation has.
CHECK_DEADLOCK FALSE
INVARIANTS TypeOK SameNamespace
PROPERTIES UmountIsComplete
