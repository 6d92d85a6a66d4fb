------------------------------ MODULE ConfigFile ------------------------------
(***************************************************************************)
(* The settings of a container (struct RURI_CONTAINER) and the file that   *)
(* keeps them: what ruri -D writes, what ruri -c reads, and what ruri -C   *)
(* makes of a file that is incomplete.                                     *)
(*                                                                         *)
(* A container is a function from its fields, named by their key in the    *)
(* file, to values; a file is a function from the keys it has.  How the    *)
(* values are written as text is left to K2v3.                             *)
(***************************************************************************)
EXTENDS Integers, Sequences

CONSTANTS Text,         \* names, paths and words
          NULL,
          Garbled,      \* a value that is not of its key's type
          TooLarge,     \* a number that an int does not hold
          WrapsTo,      \* what atoi() makes of it
          NoFile,       \* a file that is missing, empty or above 64 kB
          Caps,         \* capabilities the kernel has
          UnknownCap,   \* a name that is none
          DefaultCaps,  \* the list ruri_build_caplist() makes without options
          MaxOf         \* RURI_MAX_*, for each array

\* RURI_INIT_VALUE
Unset == -114

------------------------------------------------------------------------------
(* The fields *)

Bools == {"no_new_privs", "enable_unshare", "rootless", "no_warnings",
          "use_rurienv", "enable_seccomp", "enable_seccomp_whitelist",
          "just_chroot", "unmask_dirs", "mount_host_runtime", "ro_root",
          "no_network", "use_kvm", "enable_tty_signals", "skip_setgroups",
          "systemd_mode"}

Strings == {"container_dir", "user", "cross_arch", "qemu_path", "cpuset",
            "memory", "work_dir", "rootfs_source", "hostname"}

Ints == {"hidepid", "cpupercent", "oom_score_adj",
         "timens_monotonic_offset", "timens_realtime_offset"}

\* Those that are read as a long.
Longs == {"timens_monotonic_offset", "timens_realtime_offset"}

\* The arrays of strings, and the length of one of their entries.
Entry == [command |-> 1, extra_mountpoint |-> 2, extra_ro_mountpoint |-> 2,
          env |-> 2, char_devs |-> 3, deny_syscall |-> 1, masked_path |-> 1]
Arrays == DOMAIN Entry

\* What only the command line can ask for.
UnstoredBools == {"auto_umount", "auto_umount_on_panic", "is_health_check",
                  "fork_as_init"}
Unstored == UnstoredBools \cup {"ns_pid", "timeout", "pid_file"}

ASSUME ConfigAssumption ==
  /\ NULL \notin Text /\ {Garbled, TooLarge} \cap (BOOLEAN \cup Int) = {}
  /\ Garbled # TooLarge /\ WrapsTo \in Int
  /\ UnknownCap \notin Caps /\ DefaultCaps \in Seq(Caps)
  /\ MaxOf \in [Arrays -> Nat]
  /\ \A a \in Arrays : MaxOf[a] % Entry[a] = 0

------------------------------------------------------------------------------
(* Arrays end with a NULL entry, in the room struct RURI_CONTAINER has. *)

\* The declared sizes.
Slots(a) == MaxOf[a] + CASE a = "command" -> 1
                         [] a \in {"char_devs", "deny_syscall"} -> 0
                         [] OTHER -> 2

\* The field that lies behind an array.
Behind == [char_devs |-> "hidepid", deny_syscall |-> "oom_score_adj"]

\* Whether a loop over the array finds its end: the end mark is in the array, or
\* what lies behind happens to be zero.
HasEndMark(c, a) ==
  \/ Len(c[a]) < Slots(a)
  \/ a \in DOMAIN Behind /\ c[Behind[a]] = 0

\* Writing the end mark behind the last entry.
EndMark(c, a) ==
  IF Len(c[a]) >= Slots(a) /\ a \in DOMAIN Behind
  THEN [c EXCEPT ![Behind[a]] = 0] ELSE c

\* info_to_k2v() and every other reader walks all arrays.
Readable(c) == \A a \in Arrays : HasEndMark(c, a)

------------------------------------------------------------------------------
(* ruri_init_config(): no_network is whatever malloc() left there. *)

Default(f, noise) ==
  CASE f = "no_network" -> noise
    [] f = "use_rurienv" -> TRUE
    [] f \in {"hidepid", "cpupercent", "ns_pid"} -> Unset
    [] f \in (Ints \ {"hidepid", "cpupercent"}) -> 0
    [] f = "timeout" -> -1
    [] f \in Strings \cup {"pid_file"} -> NULL
    [] f \in Arrays -> <<>>
    [] f = "drop_caplist" -> DefaultCaps
    [] OTHER -> FALSE

Stored == Bools \cup Strings \cup Ints \cup Arrays \cup {"drop_caplist"}
Fields == Stored \cup Unstored

\* Elements of arrays, and values of keys; a file that is missing is no file.
Word  == Text \cup Int
Value == BOOLEAN \cup Word \cup {NULL} \cup Seq(Word) \cup Seq(Caps)

ASSUME NoFileAssumption == NoFile \notin [Stored -> Value]

\* A file, whoever wrote it: its numbers and truth values need not be any.
IsFile(f) ==
  /\ DOMAIN f \subseteq Stored
  /\ \A k \in DOMAIN f : /\ k \in Strings => f[k] \in Word \cup {NULL}
                         /\ k \in Ints    => f[k] \in Int \cup {Garbled, TooLarge}
                         /\ k \in Longs   => f[k] # TooLarge
                         /\ k \in Arrays  => f[k] \in Seq(Word)
                         /\ k = "drop_caplist" => f[k] \in Seq(Caps \cup {UnknownCap})

ruri_init_config(noise) == [f \in Fields |-> Default(f, noise)]

------------------------------------------------------------------------------
(* ruri_container_info_to_k2v(): every stored field under its key. *)

Scalars(c) == [k \in Bools \cup Strings \cup Ints |-> c[k]]
Listed(c) == [k \in Arrays \cup {"drop_caplist"} |-> c[k]]

InfoToK2v(c) ==
  [k \in Stored |-> IF k \in DOMAIN Scalars(c) THEN Scalars(c)[k] ELSE Listed(c)[k]]

------------------------------------------------------------------------------
(* ruri_read_config() *)

\* The keys it asks for by name, with a hint at ruri -C when one is missing, and
\* those whose absence k2v3_get() makes an error.
KeyList == Stored \ {"enable_unshare", "oom_score_adj", "skip_setgroups",
                     "systemd_mode", "enable_tty_signals", "deny_syscall",
                     "enable_seccomp_whitelist", "masked_path"}
ReadKeys == Stored \ {"enable_unshare"}

\* Slip: arrays that are cut off in the middle of an entry are taken.
AcceptsOdd(f) ==
  /\ f # NoFile
  /\ KeyList \subseteq DOMAIN f /\ ReadKeys \subseteq DOMAIN f
  /\ \A k \in Bools \cap ReadKeys : f[k] \in BOOLEAN
  /\ \A k \in Longs : f[k] # Garbled
  /\ \A k \in Ints \ Longs : f[k] # TooLarge
  /\ \A a \in Arrays : Len(f[a]) <= MaxOf[a]
  /\ \A i \in DOMAIN f["drop_caplist"] : f["drop_caplist"][i] \in Caps

\* libk2v stops the program at a value of the wrong type, unless an int is due, at
\* an int that is too large and at an array that is too long; for an array cut off
\* in the middle of an entry ruri does.
Accepts(f) ==
  /\ f # NoFile
  /\ KeyList \subseteq DOMAIN f /\ ReadKeys \subseteq DOMAIN f
  /\ \A k \in Bools \cap ReadKeys : f[k] \in BOOLEAN
  /\ \A k \in Longs : f[k] # Garbled
  /\ \A k \in Ints \ Longs : f[k] # TooLarge
  /\ \A a \in Arrays : Len(f[a]) <= MaxOf[a] /\ Len(f[a]) % Entry[a] = 0
  /\ \A i \in DOMAIN f["drop_caplist"] : f["drop_caplist"][i] \in Caps

\* A number that is none is 0.
Read(f, k) == CASE k \in Ints /\ f[k] = Garbled  -> 0
                [] k \in Ints /\ f[k] = TooLarge -> WrapsTo
                [] OTHER -> f[k]

\* Slip: the user is only read when -E named one.
TakeConfigUser(c, f) ==
  [k \in Fields |->
     IF /\ k \in ReadKeys /\ (k = "user" => c["user"] # NULL)
        /\ k = "drop_caplist" => f[k] # <<>>
     THEN Read(f, k) ELSE c[k]]

\* Every field the file has a key for, but a user that -E named before, and a list
\* of capabilities that is empty: its end mark is only written behind an entry.
TakeConfig(c, f) ==
  [k \in Fields |->
     IF /\ k \in ReadKeys /\ (k = "user" => c["user"] = NULL)
        /\ k = "drop_caplist" => f[k] # <<>>
     THEN Read(f, k) ELSE c[k]]

\* The end marks of arrays are written when the numbers behind them are read.
ReadConfig(c, f) == EndMark(EndMark(TakeConfig(c, f), "char_devs"), "deny_syscall")

------------------------------------------------------------------------------
(* ruri_correct_config() *)

\* The default list stays where the file has an empty one.  It replaces one with an
\* unknown name, and the entries that follow the name are written over it, each with
\* its end mark.
CorrectCaps(l) ==
  LET unknown == {i \in DOMAIN l : l[i] \notin Caps}
      last == CHOOSE i \in unknown : \A j \in unknown : j <= i
  IN  IF l = <<>> THEN DefaultCaps
      ELSE IF unknown = {} THEN l
      ELSE IF last > Len(DefaultCaps) THEN DefaultCaps
      ELSE SubSeq(DefaultCaps, 1, last) \o SubSeq(l, last + 1, Len(l))

\* Slip: an array that is cut off in the middle of an entry is kept.
CorrectArrayOdd(f, a) ==
  IF Len(f[a]) <= MaxOf[a] THEN f[a] ELSE SubSeq(f[a], 1, MaxOf[a])

\* key_get_char_array() stops at the limit; ruri empties an array that is cut off
\* in the middle of an entry.
CorrectArray(f, a) ==
  LET read == IF Len(f[a]) <= MaxOf[a] THEN f[a] ELSE SubSeq(f[a], 1, MaxOf[a])
  IN  IF Len(read) % Entry[a] = 0 THEN read ELSE <<>>

\* What is read of a file, each key on its own; everything else is reset.
CorrectedKeys == Stored \ {"user", "deny_syscall", "masked_path",
                           "enable_tty_signals", "skip_setgroups"}

CorrectValue(f, k) ==
  CASE k \in Bools -> f[k] = TRUE
    [] k \in Ints -> Read(f, k)
    [] k \in Arrays -> CorrectArray(f, k)
    [] k = "drop_caplist" -> CorrectCaps(f[k])
    [] OTHER -> f[k]

\* Without a network the container is unshared.  A missing no_network is false.
Corrected(f) ==
  LET read == [k \in Fields |-> IF k \in CorrectedKeys \cap DOMAIN f
                                THEN CorrectValue(f, k) ELSE Default(k, FALSE)]
  IN  [read EXCEPT !["enable_unshare"] = @ \/ read["no_network"]]

Correctable(f) == f # NoFile /\ "container_dir" \in DOMAIN f

===============================================================================
