------------------------------ MODULE MCCgroup ------------------------------
(* Two starts, a ruri -U, two directories and a day of two seconds. *)
EXTENDS Cgroup, TLC

CONSTANTS p1, p2, u1, d1, d2, nobody

Setting(d, unshare, systemd, limits, malformed) ==
  [dir |-> d, enable_unshare |-> unshare, systemd_mode |-> systemd,
   limits |-> limits, malformed |-> malformed]

SettingsOf ==
  {Setting(d1, TRUE, FALSE, {"memory"}, FALSE), Setting(d1, TRUE, TRUE, {}, FALSE),
   Setting(d1, FALSE, FALSE, {"memory"}, TRUE), Setting(d2, FALSE, FALSE, {"cpuset"}, FALSE)}

\* cgroup v2; v1 with the memory controller in a v2 hierarchy below; v1 without memory.
HostsOf ==
  {[c \in Controllers |-> "v2"],
   [c \in Controllers |-> IF c = "memory" THEN "unified" ELSE "v1"],
   [c \in Controllers |-> IF c = "memory" THEN "none" ELSE "v1"]}

Symmetry == Permutations(Starts)
=============================================================================
