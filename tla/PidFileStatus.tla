---------------------------- MODULE PidFileStatus ----------------------------
(***************************************************************************)
(* What a reader of ruri's --pid-file is promised.                         *)
(*                                                                         *)
(* The file holds one status line.  While ruri's daemon owns the write     *)
(* lock the line may move, and it only moves forward: from the start-up    *)
(* line to the container's pid, from the pid to the way the container      *)
(* ended, and from any of them to a panic.  The lock is given up once, at  *)
(* a line that tells the end of the container, and the line never changes  *)
(* again.  doc/USAGE.md tells readers to wait for the lock for this.       *)
(***************************************************************************)
EXTENDS Naturals

CONSTANT Lines    \* every line the file can hold, each a record with a "kind"

VARIABLES line,   \* the status line, as a reader that waits for the lock sees it
          held    \* the daemon owns the write lock

vars == <<line, held>>

NoLine == [kind |-> "absent", val |-> 0]

PanicKinds == {"panic_exe", "panic_internal", "panic_timeout"}
EndKinds   == {"exited", "signaled", "unknown"}

\* How far a line has come.
Rank(l) ==
  CASE l.kind = "init"        -> 1
    [] l.kind = "pid"         -> 2
    [] l.kind \in EndKinds    -> 3
    [] l.kind \in PanicKinds  -> 4
    [] OTHER                  -> 0

TypeOK == line \in Lines /\ held \in BOOLEAN

Init == line = NoLine /\ held = FALSE

\* The daemon takes the lock and writes the start-up line.
Claim ==
  /\ line = NoLine
  /\ held' = TRUE
  /\ line' \in {l \in Lines : l.kind = "init"}

\* The daemon writes a line it was sent.
Advance ==
  /\ held
  /\ line' \in {l \in Lines : Rank(l) > Rank(line)}
  /\ UNCHANGED held

\* The daemon gives the lock up: nothing is going to be written any more.
Release ==
  /\ held
  /\ Rank(line) >= 3
  /\ held' = FALSE
  /\ UNCHANGED line

Next == Claim \/ Advance \/ Release

Spec == Init /\ [][Next]_vars
=============================================================================
