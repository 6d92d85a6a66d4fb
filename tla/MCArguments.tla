----------------------------- MODULE MCArguments -----------------------------
(***************************************************************************)
(* Instances of Arguments for TLC.                                         *)
(***************************************************************************)
EXTENDS Arguments, TLC

CONSTANTS dir, this, other, cap1, cap2, cap3, short3, memory1, percent200

MCMaxOf == [command |-> 2, extra_mountpoint |-> 2, extra_ro_mountpoint |-> 2,
            env |-> 2, char_devs |-> 3, deny_syscall |-> 2, masked_path |-> 1]
MCText        == {Root, ConfigPath, this, other, cap1, cap3, short3, memory1, percent200} \cup Dirs
MCDefaultCaps == <<cap1, cap2>>
MCHostNumber  == (this :> <<10, 232>>)
MCShortCap    == (short3 :> cap3)
MCLimitOf     == (memory1 :> [limit |-> "memory", to |-> this])
                 @@ (percent200 :> [limit |-> "cpupercent", to |-> 200])

Words1(os, ss, args, ls) ==
  {[opt |-> o, spelled |-> s, args |-> args, last |-> l] : o \in os, s \in ss, l \in ls}
Both(os, args)  == Words1(os, {"alone", "combined"}, args, {FALSE})
Last(os, args)  == Words1(os, {"alone", "combined"}, args, {TRUE})
Alone(os, args) == Words1(os, {"alone"}, args, {FALSE})
AloneLast(os, args) == Words1(os, {"alone"}, args, {TRUE})

\* Every option, with operands that are taken and operands that are refused.
MCWords ==
  UNION {
    Both(DOMAIN CombinedFlags \cup DOMAIN CombinedLateFlags
         \cup {"N", "D", "b", "f", "p"}, <<>>), Last({"D", "u"}, <<>>),
    Alone((DOMAIN LateFlags \ DOMAIN CombinedLateFlags) \cup {"even_unstable", "info"}, <<>>),
    Both({"t", "E", "a", "q", "W", "Q", "X", "L"}, <<this>>), Last({"q", "L", "t"}, <<this>>),
    Both({"o", "c"}, <<ConfigPath>>), Last({"o", "c"}, <<ConfigPath>>),
    Both({"o"}, <<this>>), Both({"c"}, <<this>>),
    Alone({"C", "U", "P"}, <<ConfigPath>>), Alone({"U", "C"}, <<dir>>),
    Alone({"pid_file"}, <<this>>), Alone({"timeout"}, <<-1>>), Alone({"timeout"}, <<1>>),
    AloneLast({"timeout"}, <<1>>),
    Both({"i"}, <<0>>), Both({"i"}, <<3>>), Both({"O"}, <<5>>), Both({"J"}, <<7>>),
    Both({"l"}, <<memory1>>), Both({"l"}, <<percent200>>),
    Both({"k"}, <<cap1>>), Both({"d"}, <<cap3>>), Both({"d"}, <<short3>>),
    Both({"e"}, <<this, other>>), Both({"T"}, <<1, 2>>),
    Both({"m"}, <<this, other>>), Both({"m", "M"}, <<this, Root>>),
    Both({"I"}, <<this, 0, 0>>), Both({"I"}, <<this, 1, 2>>),
    Alone({"other"}, <<this>>), AloneLast({"other"}, <<dir>>), Alone({"other"}, <<Root>>),
    Alone({"other"}, <<dir, this>>), Alone({"other"}, <<dir, this, this, other>>),
    Last({"t", "i", "q", "o", "X", "e", "I", "c"}, <<>>),
    AloneLast({"U", "P", "C", "pid_file", "timeout"}, <<>>)}

\* What most commands have: a directory or a config file that is read or written.
MCUsual ==
  {w \in MCWords : /\ w.spelled = "alone" /\ w.opt \in {"D", "o", "c", "other"}
                   /\ w.args \in {<<>>, <<ConfigPath>>, <<dir>>}
                   /\ w.opt = "other" => w.last}

\* A file that ruri -D wrote, and one whose arrays are full.
Plain == InfoToK2v([ruri_init_config(FALSE) EXCEPT !["container_dir"] = dir,
                                                  !["env"] = <<this, other>>])
Full  == [Plain EXCEPT !["char_devs"] = <<this, 1, 2>>,
                       !["deny_syscall"] = <<this, this>>, !["hidepid"] = 1]
MCOldFiles == {Plain, Full}

===============================================================================
