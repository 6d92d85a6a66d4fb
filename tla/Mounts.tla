------------------------------- MODULE Mounts -------------------------------
(***************************************************************************)
(* The mounts ruri makes on a container directory in the mount namespace   *)
(* of the host, and how "ruri -U" takes them away.                         *)
(*                                                                         *)
(* A start that finds no procfs on <dir>/proc mounts the rootfs or binds   *)
(* <dir> on itself, mounts what -m and -M ask for, lists that in .rurienv, *)
(* calls chroot(2) and mounts /proc, /sys and /dev from inside; one that   *)
(* finds procfs takes all of it as done.  No lock is held, hardly any      *)
(* result is looked at, and any invocation can be killed anywhere.         *)
(*                                                                         *)
(* Mounts stack, so the model keeps stacks: of layers on <dir>, and in each *)
(* of them a stack of mounts on every place below.  Mounts do not           *)
(* propagate to peers.                                                     *)
(***************************************************************************)
EXTENDS Naturals, Sequences, FiniteSets, SequencesExt

CONSTANTS
  Procs,         \* invocations of ruri
  Targets,       \* target paths of -m and -M
  Settings,      \* what the starts ask for
  Contents,      \* what the container has at the targets before the first start
  Rounds,        \* 10: how often -U unmounts each target
  SystemRounds,  \* 9: how often it unmounts /sys, /dev, /proc and the directory
  MaxLoops,      \* loop devices the host has
  MaxCommands,   \* bound: commands in a run ...
  MaxTogether,   \* bound: ... and how many of them can run beside another
  Troubles,      \* bound: what can go wrong in a run ...
  MaxTrouble     \* bound: ... and how many kinds of it

\* "typed" has its file system named, as TMPFS: or EXT4: and a device, "typed_image"
\* the file of one.
Sources == {"dir", "block", "image", "file", "special", "typed", "typed_image", "other"}
Trees   == {"dir", "image"}
Entries == {"none", "file", "dir", "full"}
System  == {"proc", "sys", "dev"}
Places  == Targets \cup System \cup {".rurienv"}
Masks   == {"builtin", "user"}

Setting == [mounts : Seq([source : Sources, at : Targets, ro : BOOLEAN]),
            rootfs_source : BOOLEAN, just_chroot : BOOLEAN, mount_host_runtime : BOOLEAN,
            ro_root : BOOLEAN, masks : SUBSET Masks, use_rurienv : BOOLEAN,
            is_health_check : BOOLEAN, qemu_path : {"none", "copied", "missing"}]

ASSUME ProcsAssumption    == IsFiniteSet(Procs)
ASSUME SettingsAssumption == Settings # {} /\ Settings \subseteq Setting
ASSUME TargetsAssumption  == Targets \cap (System \cup {".rurienv"}) = {}
ASSUME ContentsAssumption == Contents \subseteq [Trees -> [Targets -> Entries]]
ASSUME TroublesAssumption == Troubles \subseteq {"killed", "failed", "unbound", "rebooted", "overlapped"}
ASSUME RoundsAssumption   == Rounds \in Nat \ {0} /\ SystemRounds \in Nat \ {0} /\ MaxLoops \in Nat

VARIABLES
  layers,    \* the mounts on the container directory; the first is the bare directory
  own,       \* what each tree has at each target: "dir" is an empty one
  stored,    \* the targets .rurienv lists
  loops,     \* loop devices in use
  loc,       \* each invocation: where it is, what it was asked for, its loop counter,
             \* the layer it has called chroot(2) on, the targets it unmounts, the
             \* mounts it has warned of; of its second attempt, how much of /proc/mounts
             \* it has read and the lines it has not dealt with
             \* (found, a history variable: the mounts its umount found on the directory)
  commands,  \* number of commands begun
  trouble    \* what has gone wrong so far

host == <<layers, own, stored, loops>>
vars == <<host, loc, commands, trouble>>

Bare       == [id |-> 0, tree |-> "dir", ro |-> FALSE, on |-> [x \in Places |-> <<>>]]
Top        == Last(layers)
WithTop(l) == Append(Front(layers), l)
Fresh      == CHOOSE i \in 1 .. Len(layers) + Cardinality(Procs) :
                  /\ \A k \in 1 .. Len(layers) : layers[k].id # i
                  /\ \A p \in Procs : loc[p].root # i

\* mount(2) on a place, and umount2(2) of what was mounted there last.
Mounted(l, x) == l.on[x] # <<>>
Push(l, x, m) == [l EXCEPT !.on[x] = Append(@, m)]
Pop(l, x)     == [l EXCEPT !.on[x] = IF @ = <<>> THEN @ ELSE Front(@)]
Shown(l, x)   == Last(l.on[x])
Retop(l, x, m) == [l EXCEPT !.on[x] = Append(Front(@), m)]

\* Several of the system directories at a time; n mounts less.
PushAll(l, ms) ==
  [l EXCEPT !.on = [x \in Places |-> IF x \in DOMAIN ms THEN Append(@[x], ms[x]) ELSE @[x]]]
Less(s, n) == SubSeq(s, 1, Len(s) - n)

\* statfs(): both ruri's own /proc and the one of the host are procfs.
HasProc(l) == Mounted(l, "proc") /\ Shown(l, "proc").what \in {"proc", "host"}

Mount(what, ro) ==
  [what |-> what, ro |-> ro, file |-> what \in {"file", "special"}, wants |-> {}, masked |-> {}]

Bounded(s)  == s \subseteq Troubles /\ Cardinality(s) <= MaxTrouble
May(what)   == Bounded(trouble \cup {what})
Trouble(ok) == trouble' = IF ok THEN trouble ELSE trouble \cup {"failed"}

Idle  == [pc |-> "idle", setting |-> CHOOSE c \in Settings : TRUE, at |-> 1, root |-> 0,
          list |-> <<>>, lines |-> <<>>, seen |-> 0, found |-> 0, warned |-> {}]
Quiet == {"idle", "running"}
Goto(p, l) == loc' = [loc EXCEPT ![p].pc = l]
End(p)     == loc' = [loc EXCEPT ![p] = Idle]

\* A command begins, alone or beside others that are at work; umounts do not count.
Umounting == {"u_read", "u_extra", "u_system", "u_subdir", "u_lines"}
BeginAs(p, l, c) ==
  LET busy  == {q \in Procs \ {p} : loc[q].pc \notin Quiet}
      clash == busy # {} /\ (l \notin Umounting \/ \E q \in busy : loc[q].pc \notin Umounting)
  IN
  /\ loc[p].pc = "idle" /\ commands < MaxCommands
  /\ commands < MaxTogether \/ \A q \in Procs : loc[q].pc = "idle"
  /\ commands' = commands + 1
  /\ trouble' = IF clash THEN trouble \cup {"overlapped"} ELSE trouble
  /\ Bounded(trouble')
  /\ loc' = [loc EXCEPT ![p] = [Idle EXCEPT !.pc = l, !.setting = c]]

Init ==
  /\ layers = <<Bare>>
  /\ own \in Contents
  /\ stored = [t \in Trees |-> <<>>]
  /\ loops = 0
  /\ loc = [p \in Procs |-> Idle]
  /\ commands = 0
  /\ trouble = {}

-----------------------------------------------------------------------------
(* What ruri_trymount() is made of *)

\* umount2(target), so that mounts do not pile up.
\* Slip: mounted over what is there.
UnstackedNever(l, x) == l
Unstacked(l, x)      == Pop(l, x)

\* remove() takes neither a directory with something in it nor a mount point, and
\* nothing from a read-only mount.
Removed(l, x, e) == IF Mounted(l, x) \/ l.ro \/ e = "full" THEN e ELSE "none"

\* mk_mountpoint_dir(): what is at the target then, "none" when it fails.
MkMountpointDir(l, x, e) ==
  LET left == Removed(l, x, e) IN
  IF left = "none" /\ ~l.ro /\ ~Mounted(l, x) THEN "dir" ELSE left

\* touch_mountpoint_file(): ruri_mkdirs(), rmdir(), open().
TouchMountpointFile(l, x, e) ==
  IF e \in {"none", "dir"} /\ ~l.ro /\ ~Mounted(l, x) THEN "file" ELSE e

\* A directory is mounted on a directory, a file on a file.
Fits(l, x, e, file) == IF Mounted(l, x) THEN Shown(l, x).file = file ELSE (e = "file") = file

\* mount(MS_BIND), which leaves the mount writable and whose result is not looked
\* at, and the remount, which counts.  fine: whether the kernel agrees to each.
FirstMount(l, x, m, e, fine) ==
  IF fine[1] /\ Fits(l, x, e, m.source # "dir")
    THEN Push(l, x, [Mount(m.source, FALSE) EXCEPT !.file = m.source # "dir"]) ELSE l
Remount(l, x, m, fine) ==
  IF Mounted(l, x) /\ fine[2] THEN Retop(l, x, [Shown(l, x) EXCEPT !.ro = m.ro]) ELSE l

\* Slip: the first result is returned.
BindMountFirst(l, x, m, e, fine) ==
  LET l1 == FirstMount(l, x, m, e, fine) IN
  [ok |-> l1 # l, layer |-> Remount(l1, x, m, fine)]
BindMount(l, x, m, e, fine) ==
  LET l1 == FirstMount(l, x, m, e, fine) IN
  [ok |-> Mounted(l1, x) /\ fine[2], layer |-> Remount(l1, x, m, fine)]

\* losetup() takes a free loop device; nothing gives it back.
\* Slip: whether there is one is not looked at.
LosetupAlways == loops + 1
Losetup       == IF loops < MaxLoops THEN loops + 1 ELSE loops

\* mount_device() and mount_other_type(): a file system is read-only from the first
\* mount(2) on; only the former returns the result of the remount.
\* (Without any file system for devices in /proc/filesystems mount_device() would
\* return 0 and have tried nothing; a host that has none is left out.)
WithFs(l, x, m) == Push(l, x, Mount(m.source, m.ro))
MountDevice(l, x, m, e, fine) ==
  LET mounted == fine[1] /\ Fits(l, x, e, FALSE) IN
  [ok |-> mounted /\ fine[2], layer |-> IF mounted THEN WithFs(l, x, m) ELSE l]
MountOtherType(l, x, m, e, fine) ==
  LET mounted == fine[1] /\ Fits(l, x, e, FALSE) IN
  [ok |-> mounted, layer |-> IF mounted THEN WithFs(l, x, m) ELSE l]

\* A regular file is tried as an image of a file system first; when that fails, even
\* in the remount, it is bound as a file.
MountImage(l, x, m, e, fine) ==
  LET a == MountDevice(l, x, m, e, <<fine[1] /\ m.source = "image", fine[2]>>) IN
  IF a.ok THEN a
  ELSE BindMount(a.layer, x, m, TouchMountpointFile(a.layer, x, e), <<fine[3], fine[4]>>)

\* ruri_trymount() from the mount point on.
Attached(l, x, m, e, fine) ==
  CASE m.source \in {"dir", "special"}       -> BindMount(l, x, m, e, fine)
    [] m.source = "block"                    -> MountDevice(l, x, m, e, fine)
    [] m.source \in {"typed", "typed_image"} -> MountOtherType(l, x, m, e, fine)
    [] m.source \in {"image", "file"}        -> MountImage(l, x, m, e, fine)

-----------------------------------------------------------------------------
(* A start, before chroot(2) *)

\* With procfs on <dir>/proc there is nothing to mount; a health check wants it so.
Begin(p, c) ==
  /\ HasProc(Top) \/ ~c.is_health_check
  /\ BeginAs(p, IF HasProc(Top) THEN "binary" ELSE IF c.rootfs_source THEN "rootfs" ELSE "self", c)
  /\ UNCHANGED host

\* mount_rootfs(): ruri_trymount() of an image or a device on the directory itself,
\* which unmounts a layer first; without it there is no container.
MountRootfs(p) ==
  LET below == IF Len(layers) > 1 THEN Front(layers) ELSE layers IN
  /\ loc[p].pc = "rootfs"
  /\ \E ok \in BOOLEAN :
       /\ ok \/ May("failed")
       /\ \E image \in BOOLEAN :
            /\ loops' = IF image THEN Losetup ELSE loops
            /\ IF ok /\ (image => loops < MaxLoops)
                 THEN /\ layers' = Append(below, [Bare EXCEPT !.id = Fresh, !.tree = "image"])
                      /\ Goto(p, "extra")
                 ELSE layers' = below /\ End(p)
       /\ Trouble(ok)
  /\ UNCHANGED <<own, stored, commands>>

\* mount_mountpoints(): the directory is bound on itself, with all that is mounted
\* below, before the targets or, with an image, after them.  The result is not looked
\* at: "unbound" when it fails.
MountSelf(p) ==
  /\ loc[p].pc \in {"self", "self_after"}
  /\ \/ layers' = Append(layers, [Top EXCEPT !.id = Fresh]) /\ UNCHANGED trouble
     \/ May("unbound") /\ trouble' = trouble \cup {"unbound"} /\ UNCHANGED layers
  /\ Goto(p, IF loc[p].pc = "self" THEN "extra" ELSE "qemu")
  /\ UNCHANGED <<own, stored, loops, commands>>

Extra(p)   == loc[p].setting.mounts[loc[p].at]
AtExtra(p) == loc[p].pc = "extra" /\ loc[p].at <= Len(loc[p].setting.mounts)

\* The target is dealt with; ruri_warn_on_error() unless it is mounted.
NextExtra(p, ok) ==
  loc' = [loc EXCEPT ![p].pc = "extra", ![p].at = @ + 1,
                     ![p].warned = IF ok THEN @ ELSE @ \cup {loc[p].at}]

\* ruri_trymount() up to the mount point, and losetup() of a file.
MakeMountpoint(p) ==
  LET m    == Extra(p)
      e    == own[Top.tree][m.at]
      l    == Unstacked(Top, m.at)
      made == CASE m.source = "other"   -> e
                [] m.source = "special" -> TouchMountpointFile(l, m.at, e)
                [] OTHER                -> MkMountpointDir(l, m.at, e)
      ok   == m.source # "other" /\ (made # "none" \/ Mounted(l, m.at))
      loop == ok /\ m.source \in {"image", "file", "typed_image"}
  IN
  /\ AtExtra(p)
  /\ layers' = WithTop(l)
  /\ own' = [own EXCEPT ![Top.tree][m.at] = made]
  /\ loops' = IF loop THEN Losetup ELSE loops
  /\ IF ok /\ (loop => loops < MaxLoops) THEN Goto(p, "attach") ELSE NextExtra(p, FALSE)
  /\ UNCHANGED <<stored, commands, trouble>>

\* The rest of it.
AllFine == <<TRUE, TRUE, TRUE, TRUE>>
Attach(p) ==
  LET m == Extra(p)
      e == own[Top.tree][m.at]
  IN
  /\ loc[p].pc = "attach"
  /\ \E fine \in BOOLEAN \X BOOLEAN \X BOOLEAN \X BOOLEAN :
       LET a == Attached(Top, m.at, m, e, fine) IN
       /\ fine = AllFine \/ May("failed")
       /\ layers' = WithTop(a.layer)
       /\ own' = [own EXCEPT ![Top.tree][m.at] =
                    IF m.source = "file" \/ (m.source = "image" /\ ~fine[1])
                      THEN TouchMountpointFile(Top, m.at, e) ELSE e]
       /\ NextExtra(p, a.ok)
       /\ Trouble(fine = AllFine)
  /\ UNCHANGED <<stored, loops, commands>>

ExtrasDone(p) ==
  /\ loc[p].pc = "extra" /\ ~AtExtra(p)
  /\ Goto(p, IF loc[p].setting.rootfs_source THEN "self_after" ELSE "qemu")
  /\ UNCHANGED <<host, commands, trouble>>

\* copy_qemu_binary(): ruri_error() leaves everything mounted and nothing listed.
CopyQemu(p) ==
  /\ loc[p].pc = "qemu"
  /\ \/ Goto(p, "store")
     \/ loc[p].setting.qemu_path = "copied" /\ End(p)
  /\ UNCHANGED <<host, commands, trouble>>

\* ruri_store_info(), with the file mounted read-only on itself.  A file that is
\* still mounted, or on a read-only mount, stays as it is.
StoreInfo(p) ==
  LET c == loc[p].setting
      l == Pop(Top, ".rurienv")
  IN
  /\ loc[p].pc = "store"
  /\ IF c.just_chroot \/ ~c.use_rurienv
       THEN UNCHANGED <<layers, stored>>
       ELSE /\ stored' = IF l.ro \/ Mounted(l, ".rurienv") THEN stored
                         ELSE [stored EXCEPT ![l.tree] = [i \in DOMAIN c.mounts |-> c.mounts[i].at]]
            /\ layers' = WithTop(Push(l, ".rurienv", Mount("file", TRUE)))
  /\ Goto(p, "host")
  /\ UNCHANGED <<own, loops, commands, trouble>>

\* mount_host_runtime(): -S; no result is looked at.
MountHostRuntime(p) ==
  LET c == loc[p].setting IN
  /\ loc[p].pc = "host"
  /\ IF c.mount_host_runtime /\ ~c.just_chroot
       THEN \E xs \in SUBSET System :
              /\ xs = System \/ May("failed")
              /\ layers' = WithTop(PushAll(Top, [x \in xs |-> Mount("host", FALSE)]))
              /\ Trouble(xs = System)
       ELSE UNCHANGED <<layers, trouble>>
  /\ Goto(p, "ro_root")
  /\ UNCHANGED <<own, stored, loops, commands>>

\* -R: the remount of the directory, which has to be a mount point.
MountRoRoot(p) ==
  /\ loc[p].pc = "ro_root"
  /\ layers' = IF loc[p].setting.ro_root /\ Len(layers) > 1
                 THEN WithTop([Top EXCEPT !.ro = TRUE]) ELSE layers
  /\ Goto(p, "binary")
  /\ UNCHANGED <<own, stored, loops, commands, trouble>>

\* check_binary(): a container whose QEMU is missing is unmounted.
CheckBinary(p) ==
  /\ loc[p].pc = "binary"
  /\ Goto(p, IF loc[p].setting.qemu_path = "missing" THEN "u_read" ELSE "chroot")
  /\ UNCHANGED <<host, commands, trouble>>

-----------------------------------------------------------------------------
(* A start, after chroot(2) *)

Chroot(p) ==
  /\ loc[p].pc = "chroot"
  /\ loc' = [loc EXCEPT ![p].root = Top.id,
                        ![p].pc = IF loc[p].setting.just_chroot THEN "running" ELSE "proc"]
  /\ UNCHANGED <<host, commands, trouble>>

\* The layer an invocation has for "/"; none when it has been unmounted since.
Roots(p) == {k \in 1 .. Len(layers) : layers[k].id = loc[p].root}

\* Mounts of init_container(), whose results are only warned of.
MountInside(p, ms) ==
  \E ok \in BOOLEAN :
    /\ ok \/ May("failed")
    /\ layers' = [k \in DOMAIN layers |->
                    IF ok /\ k \in Roots(p) THEN PushAll(layers[k], ms) ELSE layers[k]]
    /\ Trouble(ok)

\* init_container(): with procfs on /proc everything is taken as done.
InitProc(p) ==
  LET c  == loc[p].setting
      ms == [x \in {"proc"} |-> [Mount(x, c.ro_root) EXCEPT !.wants = c.masks]]
  IN
  /\ loc[p].pc = "proc"
  /\ IF \E k \in Roots(p) : HasProc(layers[k])
       THEN Goto(p, "running") /\ UNCHANGED <<layers, trouble>>
       ELSE MountInside(p, ms) /\ Goto(p, "sys")
  /\ UNCHANGED <<own, stored, loops, commands>>

\* /sys; /dev with its devices and links, /dev/pts, /dev/shm; /run and /tmp for systemd.
InitSysDev(p) ==
  /\ loc[p].pc = "sys"
  /\ MountInside(p, [x \in {"sys", "dev"} |-> Mount(x, x = "sys" /\ loc[p].setting.ro_root)])
  /\ Goto(p, "masks")
  /\ UNCHANGED <<own, stored, loops, commands>>

\* The mounts over parts of /proc and /sys, unless -A, and over each masked_path.
\* Slip: what -A leaves out is masked, and the user's paths are not.
MaskedBuiltin(l, c) ==
  IF Mounted(l, "proc") THEN Retop(l, "proc", [Shown(l, "proc") EXCEPT !.masked = {"builtin"}]) ELSE l
Masked(l, c) ==
  IF Mounted(l, "proc") THEN Retop(l, "proc", [Shown(l, "proc") EXCEPT !.masked = c.masks]) ELSE l

InitMasks(p) ==
  /\ loc[p].pc = "masks"
  /\ layers' = [k \in DOMAIN layers |->
                  IF k \in Roots(p) THEN Masked(layers[k], loc[p].setting) ELSE layers[k]]
  /\ Goto(p, "running")
  /\ UNCHANGED <<own, stored, loops, commands, trouble>>

\* The command ends, or ruri_kill_container() of an umount ends it.
Leave(p) ==
  /\ loc[p].pc = "running"
  /\ End(p)
  /\ UNCHANGED <<host, commands, trouble>>

-----------------------------------------------------------------------------
(* ruri -U *)

BeginUmount(p) == BeginAs(p, "u_read", Idle.setting) /\ UNCHANGED host

\* ruri_read_info(); then .rurienv is unmounted and removed.
UmountReadInfo(p) ==
  LET l == Pop(Top, ".rurienv") IN
  /\ loc[p].pc = "u_read"
  /\ loc' = [loc EXCEPT ![p] = [Idle EXCEPT !.pc = "u_extra", !.list = stored[Top.tree],
                                            !.found = Len(layers) - 1]]
  /\ stored' = IF l.ro \/ Mounted(l, ".rurienv") THEN stored ELSE [stored EXCEPT ![l.tree] = <<>>]
  /\ layers' = WithTop(l)
  /\ UNCHANGED <<own, loops, commands, trouble>>

\* A listed target: umount2() and umount(), which fails on a busy mount, so many
\* times; then what is left at the place is removed.
UmountExtra(p) ==
  LET x == loc[p].list[loc[p].at] IN
  /\ loc[p].pc = "u_extra" /\ loc[p].at <= Len(loc[p].list)
  /\ \E gone \in Rounds .. 2 * Rounds :
       \E l \in {[Top EXCEPT !.on[x] = Less(@, gone)]} :
         /\ layers' = WithTop(l)
         /\ own' = [own EXCEPT ![Top.tree][x] = Removed(l, x, @)]
  /\ loc' = [loc EXCEPT ![p].at = @ + 1]
  /\ UNCHANGED <<stored, loops, commands, trouble>>

UmountExtrasDone(p) ==
  /\ loc[p].pc = "u_extra" /\ loc[p].at > Len(loc[p].list)
  /\ loc' = [loc EXCEPT ![p].at = 1, ![p].pc = "u_system"]
  /\ UNCHANGED <<host, commands, trouble>>

\* /sys, /dev, /proc and the directory itself; a layer goes with all that is mounted
\* in it, and the bare directory stays.
UmountSystem(p) ==
  LET l == [Top EXCEPT !.on = [x \in Places |-> IF x \in System THEN Less(@[x], 1) ELSE @[x]]] IN
  /\ loc[p].pc = "u_system"
  /\ layers' = IF Len(layers) > 1 THEN Front(layers) ELSE WithTop(l)
  /\ loc' = [loc EXCEPT ![p].at = @ + 1, ![p].pc = IF loc[p].at = SystemRounds THEN "u_subdir" ELSE @]
  /\ UNCHANGED <<own, stored, loops, commands, trouble>>

\* umount_subdir(): getmntent() reads /proc/mounts in pieces.  It has a line for each
\* layer and each mount in it, in the order of mounting; a piece is of what it has by
\* now, behind what was read before ...
UmountReadMounts(p) ==
  /\ loc[p].pc \in {"u_subdir", "u_lines"} /\ loc[p].lines = <<>>
  /\ \E k \in loc[p].seen + 1 .. Len(layers) :
       loc' = [loc EXCEPT ![p].lines = SubSeq(layers, loc[p].seen + 1, k),
                          ![p].seen = k, ![p].pc = "u_lines"]
  /\ UNCHANGED <<host, commands, trouble>>

\* ... and for each line what its path shows last by now is unmounted.  A piece can
\* end between two lines of a layer: then some of them are missed.
\* Slip: only what is below the directory.
WithoutLayerNever(ls, line) == ls
WithoutLayer(ls, line)      == IF line.id # 0 /\ Len(ls) > 1 THEN Front(ls) ELSE ls

UmountLines(p) ==
  LET line == Head(loc[p].lines)
      ls   == WithoutLayer(layers, line)
  IN
  /\ loc[p].pc = "u_lines" /\ loc[p].lines # <<>>
  /\ \E missed \in SUBSET Places :
       layers' = Append(Front(ls), [Last(ls) EXCEPT !.on =
                   [x \in Places |-> Less(@[x], IF x \in missed THEN 0 ELSE Len(line.on[x]))]])
  /\ loc' = [loc EXCEPT ![p].lines = Tail(@)]
  /\ UNCHANGED <<own, stored, loops, commands, trouble>>

SubdirRead(p) == loc[p].pc = "u_lines" /\ loc[p].lines = <<>> /\ loc[p].seen >= Len(layers)
Umounted(p) ==
  /\ SubdirRead(p)
  /\ End(p)
  /\ UNCHANGED <<host, commands, trouble>>

-----------------------------------------------------------------------------
(* SIGKILL, and the host restarting: files stay, mounts do not *)

Die(p) ==
  /\ loc[p].pc \notin Quiet /\ May("killed")
  /\ trouble' = trouble \cup {"killed"}
  /\ End(p)
  /\ UNCHANGED <<host, commands>>

Reboot ==
  /\ layers # <<Bare>> /\ May("rebooted")
  /\ trouble' = trouble \cup {"rebooted"}
  /\ layers' = <<Bare>> /\ loops' = 0
  /\ loc' = [p \in Procs |-> Idle]
  /\ UNCHANGED <<own, stored, commands>>

\* Nobody is at work.
Rest == (\A p \in Procs : loc[p].pc = "idle") /\ UNCHANGED vars

Start(p) ==
  \/ \E c \in Settings : Begin(p, c)
  \/ MountRootfs(p) \/ MountSelf(p) \/ MakeMountpoint(p) \/ Attach(p) \/ ExtrasDone(p)
  \/ CopyQemu(p) \/ StoreInfo(p) \/ MountHostRuntime(p) \/ MountRoRoot(p) \/ CheckBinary(p)
  \/ Chroot(p) \/ InitProc(p) \/ InitSysDev(p) \/ InitMasks(p) \/ Leave(p)

Umount(p) ==
  \/ BeginUmount(p) \/ UmountReadInfo(p) \/ UmountExtra(p) \/ UmountExtrasDone(p)
  \/ UmountSystem(p) \/ UmountReadMounts(p) \/ UmountLines(p) \/ Umounted(p)

Next == (\E p \in Procs : Start(p) \/ Umount(p) \/ Die(p)) \/ Reboot \/ Rest

Spec == Init /\ [][Next]_vars

-----------------------------------------------------------------------------
(* Properties *)

Alone == "overlapped" \notin trouble
Layer == [id : Nat, tree : Trees, ro : BOOLEAN,
          on : [Places -> Seq([what : Sources \cup System \cup {"host"}, ro : BOOLEAN, file : BOOLEAN,
                               wants : SUBSET Masks, masked : SUBSET Masks])]]

\* The state is of its types, the bare directory is below all layers, and no two
\* layers have one identity.
TypeOK ==
  /\ layers \in Seq(Layer) /\ Len(layers) > 0 /\ layers[1].id = 0
  /\ \A i, j \in DOMAIN layers : layers[i].id = layers[j].id => i = j
  /\ own \in [Trees -> [Targets -> Entries]]
  /\ stored \in [Trees -> Seq(Targets)]
  /\ loops \in 0 .. MaxLoops
  /\ \A p \in Procs : loc[p].setting \in Settings /\ loc[p].list \in Seq(Targets)
  /\ trouble \in SUBSET Troubles

\* ruri_trymount() unmounts a target before it mounts it: however often a
\* directory is started, bound on itself, left half way, killed or rebooted, no
\* target has two mounts in a layer, unless two invocations were at work at a time.
NeverStacked ==
  Alone => \A k \in DOMAIN layers : \A x \in Targets : Len(layers[k].on[x]) <= 1

\* The loop of mount_mountpoints() and the remount in ruri_trymount(): when they are
\* through, each -m and -M is mounted, the -M ones read-only, or the user has been
\* warned; also when the bind mount works and the remount does not.
MountedOrWarned ==
  \A p \in Procs : Alone /\ loc[p].pc = "extra" =>
    \A i \in 1 .. loc[p].at - 1 :
      LET m == loc[p].setting.mounts[i] IN
      \/ i \in loc[p].warned
      \/ \E j \in i + 1 .. loc[p].at - 1 : loc[p].setting.mounts[j].at = m.at
      \/ /\ Mounted(Top, m.at)
         /\ Shown(Top, m.at).what = m.source
         /\ Shown(Top, m.at).ro = m.ro

\* Whoever runs a command in the container, the start that mounted /proc or one
\* that found it mounted, has it masked as the first of them asked; for starts that
\* are not killed on the way, do not overlap and whose mounts work.
RunningIsMasked ==
  trouble \cap {"killed", "overlapped", "failed", "unbound"} = {} =>
    \A p \in Procs : loc[p].pc = "running" =>
      \A k \in Roots(p) : Mounted(layers[k], "proc") =>
        Shown(layers[k], "proc").masked = Shown(layers[k], "proc").wants

\* ruri -U takes SystemRounds of the mounts it found on the directory and at least
\* half of what is left then: umount_subdir() reads /proc/mounts while it makes it
\* shorter, and may not get to all of it.  So it leaves nothing, also on the bare
\* directory, of up to SystemRounds + 1, whatever starts that failed, were killed or
\* used -j have piled up there; unless two invocations were at work at a time or the
\* directory could not be bound on itself.
UmountTakesMost ==
  \A p \in Procs : Alone /\ "unbound" \notin trouble /\ SubdirRead(p) =>
    /\ layers[1] = Bare
    /\ Len(layers) = 1 \/ SystemRounds + 2 * (Len(layers) - 1) <= loc[p].found
=============================================================================
