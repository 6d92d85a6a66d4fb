------------------------------ MODULE Arguments ------------------------------
(***************************************************************************)
(* How ruri gets from its arguments to the settings of a container, the    *)
(* commands that work on a config file (-c, -D, -C), and what a caller who *)
(* runs one command after the other does to that file.                     *)
(*                                                                         *)
(* A word is an option with its operands, alone ("-x", "--no-network") or  *)
(* among the letters behind one dash ("-nx"): parse_args() has two         *)
(* translations of most options.  last says that no argument follows.      *)
(***************************************************************************)
EXTENDS ConfigFile, FiniteSets

CONSTANTS Words,       \* the words callers use
          Usual,       \* those of them that most commands have
          OldFiles,    \* config files there may be at first
          Root,        \* the path /
          Dirs,        \* the directories there are
          ConfigPath,  \* the path of the config file
          HostNumber,  \* the device number the host has for a name
          LimitOf,     \* the limit and the value that operands of -l name
          EditedKeys,  \* the keys whose values are changed by hand
          ShortCap,    \* the capabilities by names without their "cap_"
          IsRoot,      \* whether root runs ruri
          MaxWords,    \* bound: words of all command lines together
          MaxUnusual,  \* bound: how many of them are not usual ones
          MaxEdits     \* bound: changes the caller makes to the file

\* The number of operands.
Arity(o) ==
  CASE o \in {"t", "E", "a", "q", "i", "O", "J", "l", "W", "Q", "X", "k", "d", "o",
              "L", "pid_file", "timeout", "U", "P", "C", "c"} -> 1
    [] o \in {"e", "m", "M", "T"} -> 2
    [] o = "I" -> 3
    [] OTHER -> 0

ASSUME ArgumentsAssumption ==
  /\ Root \in Dirs /\ Dirs \subseteq Text /\ ConfigPath \in Text \ Dirs
  /\ IsRoot \in BOOLEAN /\ MaxWords \in Nat /\ MaxUnusual \in Nat /\ MaxEdits \in Nat
  /\ \A f \in OldFiles : IsFile(f)
  /\ \A n \in DOMAIN HostNumber : HostNumber[n] \in Int \X Int
  /\ \A n \in DOMAIN LimitOf :
       LimitOf[n] \in [limit : {"cpuset", "memory"}, to : Word]
                        \cup [limit : {"cpupercent"}, to : Int]

VARIABLES
  phase,      \* where the command is: "args" while it parses
  container,  \* the struct RURI_CONTAINER it fills
  local,      \* the local variables of parse_args()
  file,       \* the config file
  words,      \* words read so far
  unusual,    \* how many of them were not usual ones
  edits       \* changes made so far

vars == <<phase, container, local, file, words, unusual, edits>>

Ended == {"done", "dumped", "corrected", "started", "refused", "crashed"}

\* at is where in its loop parse_args() meets the next word: at the top, behind
\* the test for -c, or not at all because it jumps over the argument.
Locals == [even_unstable |-> FALSE, privileged |-> FALSE, dump_config |-> FALSE,
           background |-> FALSE, fork_exec |-> FALSE, output_path |-> FALSE,
           use_config_file |-> FALSE, keep |-> <<>>, drop |-> <<>>, at |-> "top"]

Begun ==
  /\ phase' = "args" /\ local' = Locals
  /\ \E noise \in BOOLEAN : container' = ruri_init_config(noise)

Init ==
  /\ phase = "args" /\ local = Locals
  /\ \E noise \in BOOLEAN : container = ruri_init_config(noise)
  /\ file \in {NoFile} \cup OldFiles /\ words = 0 /\ unusual = 0 /\ edits = 0

------------------------------------------------------------------------------
(* What a word makes of the container, the locals and the phase *)

Outcome(c, l, p) == [container |-> c, local |-> [l EXCEPT !.at = "top"], phase |-> p]
Goes(w)          == IF w.last THEN "parsed" ELSE "args"
Ends(p)          == Outcome(container, local, p)
Sets(w, c)       == Outcome(c, local, Goes(w))
Notes(w, l)      == Outcome(container, l, Goes(w))

\* How the number of operands is checked: before the index moves on ("first"),
\* after ("late"), for NULL, or not at all.
AloneCheck(o) ==
  CASE o \in {"t", "E", "a", "c"} -> "first"
    [] o \in {"q", "o", "L", "pid_file", "timeout"} -> "late"
    [] o \in {"i", "O", "J"} -> "none"
    [] OTHER -> "null"

CombinedCheck(o) ==
  CASE o \in {"t", "E", "a", "c", "X"} -> "first"
    [] o \in {"q", "o", "L"} -> "late"
    [] o \in {"i", "O", "J"} -> "none"
    [] OTHER -> "null"

Check(w)   == IF w.spelled = "alone" THEN AloneCheck(w.opt) ELSE CombinedCheck(w.opt)
Missing(w) == Len(w.args) < Arity(w.opt)

\* The late check refuses an operand that is the last argument, and takes the NULL
\* behind the arguments for one.
Lacks(w)  == IF Missing(w) THEN Check(w) \in {"first", "null"}
             ELSE Check(w) = "late" /\ w.last
Faults(w) == Missing(w) /\ w.opt \in {"i", "O", "J", "q", "pid_file", "timeout"}

------------------------------------------------------------------------------
(* Options without an operand *)

AloneFlags ==
  [n |-> {"no_new_privs"}, A |-> {"unmask_dirs"}, s |-> {"enable_seccomp"},
   u |-> {"enable_unshare"}, r |-> {"rootless"}, g |-> {"skip_setgroups"},
   w |-> {"no_warnings"}, j |-> {"just_chroot"}, S |-> {"mount_host_runtime"},
   R |-> {"ro_root"}, x |-> {"enable_unshare", "no_network"}, K |-> {"use_kvm"}]

LateFlags ==
  [z |-> {"enable_tty_signals"}, y |-> {"systemd_mode", "enable_unshare"},
   auto_umount |-> {"auto_umount"}, umount_on_panic |-> {"auto_umount_on_panic"},
   strict_mode |-> {"auto_umount_on_panic"}, health_check |-> {"is_health_check"},
   enable_seccomp_whitelist |-> {"enable_seccomp_whitelist"},
   fork_as_init |-> {"fork_as_init"}]

CombinedFlags ==
  [n |-> {"no_new_privs"}, A |-> {"unmask_dirs"}, s |-> {"enable_seccomp"},
   u |-> {"enable_unshare"}, r |-> {"rootless"}, g |-> {"skip_setgroups"},
   w |-> {"no_warnings"}, j |-> {"just_chroot"}, S |-> {"mount_host_runtime"},
   R |-> {"ro_root"}, x |-> {"no_network"}, K |-> {"use_kvm"}]

\* Slip: the letter y does not ask for an unshared container.
CombinedLateFlagsAlone == [z |-> {"enable_tty_signals"}, y |-> {"systemd_mode"}]

CombinedLateFlags ==
  [z |-> {"enable_tty_signals"}, y |-> {"systemd_mode", "enable_unshare"}]

Flags == DOMAIN AloneFlags \cup DOMAIN LateFlags

FlagsOf(w) ==
  IF w.spelled = "alone"
  THEN IF w.opt \in DOMAIN AloneFlags THEN AloneFlags[w.opt] ELSE LateFlags[w.opt]
  ELSE IF w.opt \in DOMAIN CombinedFlags THEN CombinedFlags[w.opt]
       ELSE CombinedLateFlags[w.opt]

Marked(c, fields) == [f \in Fields |-> IF f \in fields THEN TRUE ELSE c[f]]

FlagEffect(w) == Sets(w, Marked(container, FlagsOf(w)))

\* -N, and what only parse_args() needs to know.  -L runs in the background too.
Notables == {"N", "D", "b", "f", "p", "even_unstable", "o", "L"}

NoteEffect(w) ==
  CASE w.opt = "N" -> Sets(w, [container EXCEPT !["use_rurienv"] = FALSE])
    [] w.opt = "D" -> Notes(w, [local EXCEPT !.dump_config = TRUE])
    [] w.opt = "b" -> Notes(w, [local EXCEPT !.background = TRUE])
    [] w.opt = "L" -> Notes(w, [local EXCEPT !.background = TRUE])
    [] w.opt = "f" -> Notes(w, [local EXCEPT !.fork_exec = TRUE])
    [] w.opt = "p" -> Notes(w, [local EXCEPT !.privileged = TRUE])
    [] w.opt = "o" -> Notes(w, [local EXCEPT !.output_path = ~Missing(w)
                                                            /\ w.args[1] = ConfigPath])
    [] w.opt = "even_unstable" -> Notes(w, [local EXCEPT !.even_unstable = TRUE])

------------------------------------------------------------------------------
(* Options with a value *)

AloneValues ==
  [t |-> "hostname", E |-> "user", a |-> "cross_arch", q |-> "qemu_path",
   W |-> "work_dir", i |-> "hidepid", O |-> "oom_score_adj", J |-> "ns_pid",
   pid_file |-> "pid_file", timeout |-> "timeout"]

CombinedValues ==
  [a |-> "cross_arch", q |-> "qemu_path", W |-> "work_dir", E |-> "user",
   t |-> "hostname", i |-> "hidepid", O |-> "oom_score_adj", J |-> "ns_pid"]

FieldOf(w) ==
  IF w.spelled = "alone" THEN AloneValues[w.opt] ELSE CombinedValues[w.opt]

InRange(o, v) ==
  CASE o = "i" -> v \in 0..2
    [] o = "O" -> v \in -1000..1000
    [] o = "J" -> v > 0
    [] o = "timeout" -> v >= 0
    [] OTHER -> TRUE

ValueEffect(w) ==
  IF InRange(w.opt, w.args[1])
  THEN Sets(w, [container EXCEPT ![FieldOf(w)] = w.args[1]])
  ELSE Ends("refused")

\* -l, by the limit before its equals sign.
parse_cgroup_settings(w) ==
  LET l == LimitOf[w.args[1]]
  IN  IF w.args[1] \in DOMAIN LimitOf /\ (l.limit = "cpupercent" => l.to \in 1..100)
      THEN Sets(w, [container EXCEPT ![l.limit] = l.to])
      ELSE Ends("refused")

\* -T unshares too.
OffsetEffect(w) ==
  Sets(w, [container EXCEPT !["timens_monotonic_offset"] = w.args[1],
                            !["timens_realtime_offset"] = w.args[2],
                            !["enable_unshare"] = TRUE])

\* ruri_add_to_caplist()
Elements(l)          == {l[i] : i \in DOMAIN l}
AddToCaplist(l, cap) == IF cap \in Elements(l) THEN l ELSE Append(l, cap)

\* -k and -d.  Only -d alone wants the full name of a capability.
TakesShortName(w) == w.opt = "k" \/ w.spelled = "combined"

CapEffect(w) ==
  LET name == w.args[1]
      cap == IF TakesShortName(w) /\ name \in DOMAIN ShortCap THEN ShortCap[name] ELSE name
  IN  IF cap \notin Caps THEN Ends("refused")
      ELSE Notes(w, IF w.opt = "k" THEN [local EXCEPT !.keep = AddToCaplist(@, cap)]
                                   ELSE [local EXCEPT !.drop = AddToCaplist(@, cap)])

------------------------------------------------------------------------------
(* Options that add an entry to an array *)

AloneArrays ==
  [Q |-> "masked_path", e |-> "env", m |-> "extra_mountpoint",
   M |-> "extra_ro_mountpoint", I |-> "char_devs", X |-> "deny_syscall"]

CombinedArrays ==
  [Q |-> "masked_path", e |-> "env", m |-> "extra_mountpoint",
   M |-> "extra_ro_mountpoint", I |-> "char_devs", X |-> "deny_syscall"]

ArrayOf(w) == IF w.spelled = "alone" THEN AloneArrays[w.opt] ELSE CombinedArrays[w.opt]

Added(c, a, entry) == EndMark([c EXCEPT ![a] = @ \o entry], a)

\* The search for the first free entry ends at the limit.
Add(w, a, entry) ==
  IF Len(container[a]) < MaxOf[a] THEN Sets(w, Added(container, a, entry))
  ELSE Ends("refused")

\* -m and -M onto / name the root file system, which there is one of.
Rootfs(w) ==
  IF container["rootfs_source"] # NULL \/ Len(container[ArrayOf(w)]) >= MaxOf[ArrayOf(w)]
  THEN Ends("refused")
  ELSE Sets(w, [container EXCEPT !["rootfs_source"] = w.args[1],
                                 !["ro_root"] = @ \/ w.opt = "M"])

\* A major number of 0 asks for the host's, but not among other letters.
NumbersTaken(w) ==
  /\ w.args[2] >= 0 /\ w.args[3] >= 0
  /\ w.spelled = "combined" => w.args[2] # 0

DeviceEffect(w) ==
  IF ~NumbersTaken(w) THEN Ends("refused")
  ELSE IF w.args[2] # 0 THEN Add(w, "char_devs", w.args)
  ELSE IF w.args[1] \in DOMAIN HostNumber
       THEN Add(w, "char_devs", <<w.args[1]>> \o HostNumber[w.args[1]])
       ELSE Ends("refused")

ArrayEffect(w) ==
  CASE w.opt = "I" -> DeviceEffect(w)
    [] w.opt \in {"m", "M"} /\ w.args[2] = Root /\ ~(w.opt = "m" /\ w.args[1] = Root) ->
         Rootfs(w)
    [] w.opt = "m" /\ w.args[1] = Root -> Ends("refused")
    [] OTHER -> Add(w, ArrayOf(w), w.args)

------------------------------------------------------------------------------
(* The config file, directories and commands *)

\* -c.  Alone, it goes on with the next argument in the same turn of the loop;
\* among other letters it goes to that argument and the loop to the one behind.
ConfigEffect(w) ==
  IF w.args[1] = ConfigPath /\ Accepts(file)
  THEN [container |-> ReadConfig(container, file),
        local |-> [local EXCEPT !.use_config_file = TRUE,
                                !.at = IF w.spelled = "alone" THEN "chain" ELSE "over"],
        phase |-> Goes(w)]
  ELSE Ends("refused")

\* Arguments up to the limit; the loop jumps over the next one and goes on.
TakesCommand(w, c, args) ==
  IF Len(args) <= MaxOf["command"]
  THEN Outcome([c EXCEPT !["command"] = args], local, "parsed")
  ELSE Sets(w, [c EXCEPT !["command"] = SubSeq(args, 1, MaxOf["command"])])

\* What is no option: with a config file the command, else an existing directory
\* and the command, else an error.
OtherEffect(w) ==
  CASE local.use_config_file -> TakesCommand(w, container, w.args)
    [] ~local.use_config_file /\ w.args[1] \in Dirs ->
         TakesCommand(w, [container EXCEPT !["container_dir"] = w.args[1]], Tail(w.args))
    [] OTHER -> Ends("refused")

\* With a config file letters behind one dash begin the command, and so do those
\* options right behind -c that are only looked for before it.
Unrecognised(w) ==
  \/ w.spelled = "combined" /\ local.use_config_file
  \/ w.opt \in {"c", "C", "P", "info"} /\ local.at = "chain"

------------------------------------------------------------------------------
(* Reading a word *)

Valued == DOMAIN AloneValues \cup {"l", "T", "k", "d"} \cup DOMAIN AloneArrays

\* What the dash with letters is for.
Letters ==
  DOMAIN CombinedFlags \cup DOMAIN CombinedLateFlags \cup DOMAIN CombinedValues
    \cup DOMAIN CombinedArrays \cup {"N", "D", "b", "f", "p", "o", "L", "l", "T", "k", "d", "c"}

\* Numbers are what atoi() makes of an operand.
ASSUME WordsAssumption ==
  /\ Usual \subseteq Words
  /\ Words \subseteq [opt : STRING, spelled : {"alone", "combined"},
                      args : Seq(Word), last : BOOLEAN]
  /\ \A w \in Words :
       /\ w.spelled = "combined" => w.opt \in Letters
       /\ Len(w.args) < Arity(w.opt) => w.last
       /\ w.opt # "other" => Len(w.args) <= Arity(w.opt)
       /\ w.opt = "other" => Len(w.args) > 0
       /\ \A i \in DOMAIN w.args :
            (w.opt \in {"i", "O", "J", "T", "timeout"} \/ (w.opt = "I" /\ i > 1))
              => w.args[i] \in Int

Effect(w) ==
  CASE Lacks(w) -> Ends("refused")
    [] ~Lacks(w) /\ Faults(w) -> Ends("crashed")
    [] OTHER ->
         CASE w.opt \in Flags -> FlagEffect(w)
           [] w.opt \in Notables -> NoteEffect(w)
           [] w.opt \in DOMAIN AloneValues -> ValueEffect(w)
           [] w.opt \in DOMAIN AloneArrays -> ArrayEffect(w)
           [] w.opt = "l" -> parse_cgroup_settings(w)
           [] w.opt = "T" -> OffsetEffect(w)
           [] w.opt \in {"k", "d"} -> CapEffect(w)

Become(e) == container' = e.container /\ local' = e.local /\ phase' = e.phase

Reads(w) ==
  /\ phase = "args" /\ words < MaxWords /\ words' = words + 1
  /\ IF w \in Usual THEN unusual' = unusual
     ELSE unusual < MaxUnusual /\ unusual' = unusual + 1

ReadOption(w) ==
  /\ Reads(w) /\ local.at # "over" /\ ~Unrecognised(w)
  /\ w.opt \in Flags \cup Notables \cup Valued
  /\ Become(Effect(w))
  /\ UNCHANGED <<file, edits>>

\* What is done at once, wherever it stands among the arguments: -v, -h and their
\* like, and -P and -U for a directory or for what a config file names.
ReadCommand(w) ==
  /\ Reads(w) /\ local.at = "top"
  /\ w.opt \in {"info", "P", "U"}
  /\ Become(IF w.opt = "info" \/ (~Missing(w) /\ w.args[1] \in Dirs) THEN Ends("done")
            ELSE IF Missing(w) \/ w.args[1] # ConfigPath \/ ~Accepts(file)
                 THEN Ends("refused")
                 ELSE Outcome(ReadConfig(container, file), local, "done"))
  /\ UNCHANGED <<file, edits>>

\* The other -U: behind -c it unmounts what the config file names.
ReadLateUmount(w) ==
  /\ Reads(w) /\ local.at = "chain" /\ w.opt = "U"
  /\ Become(Ends("done"))
  /\ UNCHANGED <<file, edits>>

ReadConfigOption(w) ==
  /\ Reads(w) /\ w.opt = "c"
  /\ local.at # "over" /\ ~Unrecognised(w)
  /\ Become(IF Missing(w) THEN Ends("refused") ELSE ConfigEffect(w))
  /\ UNCHANGED <<file, edits>>

\* -C removes the file before it formats what it writes.
CorrectConfig(w) ==
  /\ Reads(w) /\ local.at = "top" /\ w.opt = "C"
  /\ IF ~Missing(w) /\ w.args = <<ConfigPath>> /\ Correctable(file)
     THEN LET c == Corrected(file)
          IN  IF Readable(c)
              THEN file' = InfoToK2v(c) /\ Become(Ends("corrected"))
              ELSE file' = NoFile /\ Become(Ends("crashed"))
     ELSE file' = file /\ Become(Ends("refused"))
  /\ UNCHANGED edits

\* A directory, a word, or an option that is not recognised where it stands.
ReadOther(w) ==
  /\ Reads(w) /\ local.at # "over"
  /\ w.opt = "other" \/ Unrecognised(w)
  /\ Become(OtherEffect(IF w.opt = "other" THEN w ELSE [w EXCEPT !.args = <<ConfigPath>>]))
  /\ UNCHANGED <<file, edits>>

\* The argument behind a combined -c is lost.
SkipWord(w) ==
  /\ Reads(w) /\ local.at = "over" /\ (w.opt = "other" \/ Arity(w.opt) = 0)
  /\ Become(IF Len(w.args) > 1 THEN OtherEffect([w EXCEPT !.args = Tail(w.args)])
            ELSE Notes(w, local))
  /\ UNCHANGED <<file, edits>>

------------------------------------------------------------------------------
(* The end of the arguments *)

\* ruri_del_from_caplist(), for several.
Without(l, gone) ==
  LET kept   == {i \in DOMAIN l : l[i] \notin gone}
      Nth(n) == CHOOSE i \in kept : Cardinality({j \in kept : j <= i}) = n
  IN  [n \in 1 .. Cardinality(kept) |-> l[Nth(n)]]

\* ruri_build_caplist()
BuildCaplist(privileged, drop, keep) ==
  LET base == IF privileged THEN <<>> ELSE DefaultCaps
  IN  Without(base \o Without(drop, Elements(base)), Elements(keep))

WithCaplist ==
  [container EXCEPT !["drop_caplist"] =
     BuildCaplist(local.privileged, local.drop, local.keep)]

Finishes == phase = "parsed"

Refuses ==
  /\ Finishes
  /\ \/ container["systemd_mode"] /\ ~local.even_unstable
     \/ local.dump_config /\ container["container_dir"] \in {NULL, Root}
  /\ phase' = "refused"
  /\ UNCHANGED <<container, local, file, words, unusual, edits>>

\* -D prints the settings or writes them to a file.
DumpConfig ==
  /\ Finishes
  /\ container["systemd_mode"] => local.even_unstable
  /\ local.dump_config /\ container["container_dir"] \notin {NULL, Root}
  /\ container' = WithCaplist
  /\ \/ ~Readable(container) /\ phase' = "crashed" /\ UNCHANGED file
     \/ /\ Readable(container) /\ phase' = "dumped"
        /\ file' = IF local.output_path THEN InfoToK2v(container') ELSE file
  /\ UNCHANGED <<local, words, unusual, edits>>

check_container(c) ==
  /\ c["container_dir"] \notin {NULL, Root}
  /\ ~(c["rootless"] /\ IsRoot)
  /\ (c["cross_arch"] = NULL) <=> (c["qemu_path"] = NULL)
  /\ ~(c["systemd_mode"] /\ c["mount_host_runtime"])

\* The container runs.  A namespace container that runs already is joined, and
\* whoever is not root runs a rootless one.
Start ==
  /\ Finishes
  /\ container["systemd_mode"] => local.even_unstable
  /\ ~local.dump_config
  /\ \E joins \in BOOLEAN :
       container' = [WithCaplist EXCEPT !["enable_unshare"] = @ \/ joins,
                                        !["rootless"] = @ \/ ~IsRoot]
  /\ phase' = IF ~Readable(container) THEN "crashed"
              ELSE IF check_container(container') THEN "started" ELSE "refused"
  /\ UNCHANGED <<local, file, words, unusual, edits>>

------------------------------------------------------------------------------
(* The caller *)

NextCommand ==
  /\ phase \in Ended /\ words < MaxWords
  /\ Begun
  /\ UNCHANGED <<file, words, unusual, edits>>

\* Files of another version, and files edited by hand.
MayEdit == phase \in Ended /\ file # NoFile /\ edits < MaxEdits

Change(f) ==
  /\ file' = f /\ edits' = edits + 1 /\ phase' = "done"
  /\ UNCHANGED <<container, local, words, unusual>>

RemoveKey ==
  /\ MayEdit
  /\ \E k \in EditedKeys \cap DOMAIN file : Change([j \in DOMAIN file \ {k} |-> file[j]])

GarbleValue ==
  /\ MayEdit
  /\ \E k \in EditedKeys \cap (Bools \cup Ints) \cap DOMAIN file,
        v \in {Garbled, TooLarge} : /\ v = TooLarge => k \in Ints \ Longs
                                   /\ Change([file EXCEPT ![k] = v])

ShortenArray ==
  /\ MayEdit
  /\ \E a \in EditedKeys \cap Arrays \cap DOMAIN file :
       file[a] # <<>> /\ Change([file EXCEPT ![a] = Tail(@)])

MisspellCap ==
  /\ MayEdit /\ "drop_caplist" \in DOMAIN file
  /\ \E i \in DOMAIN file["drop_caplist"] :
       Change([file EXCEPT !["drop_caplist"] = [@ EXCEPT ![i] = UnknownCap]])

Next ==
  \/ \E w \in Words : \/ ReadOption(w) \/ ReadCommand(w) \/ ReadLateUmount(w)
                      \/ ReadConfigOption(w) \/ CorrectConfig(w) \/ ReadOther(w)
                      \/ SkipWord(w)
  \/ Refuses \/ DumpConfig \/ Start
  \/ NextCommand \/ RemoveKey \/ GarbleValue \/ ShortenArray \/ MisspellCap

Spec == Init /\ [][Next]_vars

------------------------------------------------------------------------------
(* Properties *)

\* Every setting has a value of its type; no array is longer than its limit or ends
\* in the middle of an entry, and whoever walks it finds its end mark, whatever
\* options and files set it.  The two arrays without room for the mark at their
\* limit are the README's.
WellTyped(c) ==
  /\ DOMAIN c = Fields
  /\ \A f \in Bools \cup UnstoredBools : c[f] \in BOOLEAN
  /\ \A f \in Ints : c[f] \in Int
  /\ \A a \in Arrays : Len(c[a]) <= MaxOf[a] /\ Len(c[a]) % Entry[a] = 0
  /\ \A a \in Arrays \ DOMAIN Behind : HasEndMark(c, a)
  /\ c["drop_caplist"] \in Seq(Caps)

TypeOK ==
  /\ phase \in Ended \cup {"args", "parsed"}
  /\ WellTyped(container)
  /\ local.at \in {"top", "chain", "over"}
  /\ words \in 0..MaxWords /\ edits \in 0..MaxEdits

\* Documented options mean the same alone and among other letters behind one
\* dash, in every state parse_args() can be in.  -x and -I with a major number 0
\* do not, and -d takes shorter names among other letters; see the README.
Differs(w) ==
  \/ w.opt = "x"
  \/ w.opt = "I" /\ Len(w.args) = 3 /\ w.args[2] = 0
  \/ w.opt = "d" /\ Len(w.args) = 1 /\ w.args[1] \in DOMAIN ShortCap
HasLetter(w) == w.opt \in Letters \ {"c"}

SpellingsAgree ==
  phase = "args" =>
    \A w \in Words : HasLetter(w) /\ ~Differs(w) /\ w.spelled = "alone" =>
      Effect(w) = Effect([w EXCEPT !.spelled = "combined"])

\* What -D writes is a file -c accepts, and ruri_read_config() takes from it every
\* setting of the command that wrote it, with two exceptions: enable_unshare is
\* written and never read, and a list of capabilities that is empty, which is what -p
\* leaves, is read as the default one.  (It speaks of ruri_read_config() alone: no
\* list lasts until the start, ruri_build_caplist() makes it anew.)
SettingsSurvive ==
  phase = "dumped" =>
    /\ Accepts(InfoToK2v(container))
    /\ \A noise \in BOOLEAN :
      LET c == ReadConfig(ruri_init_config(noise), InfoToK2v(container))
      IN  \A k \in Stored \ {"enable_unshare"} :
            c[k] = IF k = "drop_caplist" /\ container[k] = <<>> THEN DefaultCaps
                   ELSE container[k]

\* ruri -C leaves a file that -c accepts, whatever was missing or garbled.
CorrectedFileIsAccepted == phase = "corrected" => Accepts(file)
===============================================================================
