------------------------------ MODULE Privileges ------------------------------
(***************************************************************************)
(* What the process that becomes the command may do: from the options of   *)
(* one invocation, through the tail of ruri_run_chroot_container() (or of  *)
(* ruri_run_rootless_container(), which has the same calls in the same     *)
(* order), to exec(3).                                                     *)
(*                                                                         *)
(* Each call gives something up, and some need what an earlier one may     *)
(* have given up: loading a filter needs CAP_SYS_ADMIN, the bounding set   *)
(* and the secure bits CAP_SETPCAP, groups CAP_SETGID, and setuid(2) takes *)
(* them all away.  Syscalls that -X denies are denied to ruri itself from  *)
(* then on.  The kernel's part is in "The kernel" below.                   *)
(***************************************************************************)
EXTENDS Naturals, Sequences

CONSTANTS Cap,         \* the capabilities that have a number
          Supported,   \* those up to get_last_cap()
          KeepCommon,  \* keep_caplist_common
          LowWord,     \* those in the first 32-bit word of capget(2)
          SETUID, SETGID, SETPCAP, SYS_ADMIN,
          Id,          \* user and group ids
          Root,        \* 0
          GidOf,       \* the group /etc/passwd gives each user
          GroupsOf,    \* what ruri_get_groups() gives for each user
          Garbled,     \* the number that ruri takes a word in /etc/passwd for
          NoConfig,
          Launches,    \* the options to look at,
          Hosts,       \* what the kernel and the container's files allow
          Creds        \* and the credentials ruri may begin with

ASSUME CapsAssumption ==
  /\ Supported \subseteq Cap
  /\ KeepCommon \subseteq Supported
  /\ {SETUID, SETGID, SETPCAP, SYS_ADMIN} \subseteq Cap

ASSUME IdsAssumption ==
  /\ Root \in Id
  /\ GidOf \in [Id -> Id]
  /\ GroupsOf \in [Id -> SUBSET Id]
  /\ Garbled \in Id

Syscall == {"prctl", "capset", "setgroups", "setgid", "setuid", "execve", "other"}

\* The action of a rule of -X: SCMP_ACT_KILL, ERRNO(n), and ERRNO(0), where the
\* call does nothing and returns success.
RuleAction == {"kill", "fail", "fake"}
Denials    == UNION {[S -> RuleAction] : S \in SUBSET Syscall}
NoDenials  == [s \in {} |-> "kill"]

\* -E: not given, "0", another number, or else a name.
User == [how : {"none", "zero"}, id : {Root}]
          \cup [how : {"uid"}, id : Id \ {Root}]
          \cup [how : {"name"}, id : Id]

\* The options, config being the drop_caplist of the file that -c names.
Launch == [config : (SUBSET Supported) \cup {NoConfig},
           privileged : BOOLEAN, drop : SUBSET Cap, keep : SUBSET Cap,
           user : User, skip_setgroups : BOOLEAN,
           enable_default_seccomp : BOOLEAN, enable_seccomp_whitelist : BOOLEAN,
           systemd_mode : BOOLEAN, denied : Denials,
           no_new_privs : BOOLEAN, force_panic : BOOLEAN]

\* The user's line in /etc/passwd: it has no gid, or no uid either, or no newline
\* at its end ("cut"), has a word for its uid, or is gone when it is read again.
Line == {"whole", "no_gid", "cut", "word", "gone"}

\* Whether the kernel loads filters, the user namespace has setgroups(2) and ids
\* other than root's, and /etc/passwd has the user.
Host == [seccomp : BOOLEAN, setgroups : BOOLEAN, mapped : BOOLEAN,
         known : BOOLEAN, line : Line]

Cred == [uid : Id, gid : Id, groups : SUBSET Id,
         prm : SUBSET Cap, eff : SUBSET Cap, inh : SUBSET Cap,
         amb : SUBSET Cap, bnd : SUBSET Cap,
         nnp : BOOLEAN, noraise : BOOLEAN]

\* A loaded filter: the built-in rules it has, and the user's.
Filter == [builtin : {"none", "blacklist", "whitelist"}, denied : Denials]

ASSUME InputsAssumption ==
  /\ Launches \subseteq Launch
  /\ Hosts \subseteq Host
  /\ Creds \subseteq {c \in Cred : /\ c.uid = Root
                                   /\ c.eff \subseteq c.prm
                                   /\ c.prm \subseteq Supported
                                   /\ c.amb \subseteq c.prm \cap c.inh
                                   /\ c.inh \cup c.bnd \subseteq Supported}

VARIABLES
  pc,       \* the call that is next
  asked,    \* struct RURI_CONTAINER, and parse_args()'s privileged, drop and keep
  host,
  began,    \* the credentials ruri began with
  cred,     \* those it has
  caplist,  \* container->drop_caplist
  filters,  \* the filters that are loaded
  calls     \* what change_user() has still to call

vars == <<pc, asked, host, began, cred, caplist, filters, calls>>
given == <<asked, host, began>>

-----------------------------------------------------------------------------
(* The kernel *)

\* What the loaded filters make of a syscall.
Rules(s)  == {f.denied[s] : f \in {g \in filters : s \in DOMAIN g.denied}}
Kills(s)  == "kill" \in Rules(s)
Passes(s) == Rules(s) = {}
Fakes(s)  == Rules(s) = {"fake"}

Mapped(i) == host.mapped \/ i = Root

MayLoad == host.seccomp /\ (SYS_ADMIN \in cred.eff \/ cred.nnp)

\* setuid(2) to a user other than root leaves no capability behind.
SetUid(c, u) ==
  IF u = Root THEN [c EXCEPT !.uid = u]
              ELSE [c EXCEPT !.uid = u, !.prm = {}, !.eff = {}, !.amb = {}]

\* execve(2) of a file that has no capabilities and is not set-user-id.
Exec(c) ==
  IF c.uid = Root THEN [c EXCEPT !.prm = c.inh \cup c.bnd, !.eff = c.inh \cup c.bnd]
                  ELSE [c EXCEPT !.prm = c.amb, !.eff = c.amb]

-----------------------------------------------------------------------------
\* Slip: the filter comes last, so that it cannot get in ruri's own way.
AfterFilterLast == [args |-> "caps", caps |-> "nnp", nnp |-> "securebits",
                    securebits |-> "user", user |-> "seccomp", seccomp |-> "exec"]

\* Slip: the secure bits come after the user.
AfterLockLast == [args |-> "seccomp", seccomp |-> "caps", caps |-> "nnp",
                  nnp |-> "user", user |-> "securebits", securebits |-> "exec"]

\* The calls of ruri_run_chroot_container(), in their order.
After == [args |-> "seccomp", seccomp |-> "caps", caps |-> "nnp",
          nnp |-> "securebits", securebits |-> "user", user |-> "exec"]

\* Slip: it only warns.
AfterWarningOnly(next) == next

\* ruri_warn_on_error().
AfterWarning(next) == IF asked.force_panic THEN "stopped" ELSE next

\* Slip: ruri_add_to_caplist() adds what the kernel does not have.
BuildListUnchecked(privileged, drop, keep) ==
  ((IF privileged THEN {} ELSE Supported \ KeepCommon) \cup drop) \ keep

\* ruri_build_caplist().
BuildList(privileged, drop, keep) ==
  ((IF privileged THEN {} ELSE Supported \ KeepCommon) \cup (drop \cap Supported)) \ keep

Init ==
  /\ pc = "config"
  /\ asked \in Launches /\ host \in Hosts
  /\ began \in Creds /\ cred = began
  /\ caplist = BuildList(FALSE, {}, {})
  /\ filters = {} /\ calls = <<>>

\* ruri_read_config(), when there is a -c.
ReadConfig ==
  /\ pc = "config"
  /\ caplist' = IF asked.config = NoConfig THEN caplist ELSE asked.config
  /\ pc' = "args"
  /\ UNCHANGED <<given, cred, filters, calls>>

\* The list is built anew, from the arguments alone.
BuildCaplist ==
  /\ pc = "args"
  /\ caplist' = BuildList(asked.privileged, asked.drop, asked.keep)
  /\ pc' = After["args"]
  /\ UNCHANGED <<given, cred, filters, calls>>

\* ruri_setup_seccomp_whitelist().  Which of a denied and an allowed rule for one
\* syscall libseccomp keeps is its own affair.
Whitelists == {[builtin |-> "whitelist", denied |-> [s \in S |-> asked.denied[s]]] :
                 S \in SUBSET DOMAIN asked.denied}

\* ruri_setup_seccomp_blacklist().  Without -s the user's rules are loaded, and
\* then the built-in ones are added and everything is loaded again.
UserOnly  == [builtin |-> "none", denied |-> asked.denied]
Blacklist == [builtin |-> "blacklist", denied |-> asked.denied]
Blacklists ==
  IF asked.enable_default_seccomp \/ asked.systemd_mode THEN {Blacklist}
  ELSE IF asked.denied # NoDenials THEN {UserOnly, Blacklist}
  ELSE {}

\* ruri_setup_seccomp().
SetupSeccomp ==
  /\ pc = "seccomp"
  /\ \E S \in IF asked.enable_seccomp_whitelist THEN {{f} : f \in Whitelists}
                                                 ELSE {Blacklists} :
       /\ filters' = IF MayLoad THEN S ELSE {}
       /\ pc' = IF S = {} \/ MayLoad THEN After["seccomp"] ELSE AfterWarning(After["seccomp"])
  /\ UNCHANGED <<given, cred, caplist, calls>>

\* Slip: CapInh is left alone.
ClearInhNot(c) == c

\* drop_caps(): cap_drop_bound() and PR_CAP_AMBIENT_LOWER for what is listed, then
\* capset(2) of what capget(2) gave, with datap[0].inheritable = 0.
MayDrop == Passes("prctl") /\ SETPCAP \in cred.eff
LeaveBound(c)   == IF MayDrop THEN [c EXCEPT !.bnd = @ \ caplist] ELSE c
LowerAmbient(c) == IF Passes("prctl") THEN [c EXCEPT !.amb = @ \ caplist] ELSE c
ClearInh(c) ==
  IF Passes("capset") THEN [c EXCEPT !.inh = @ \ LowWord, !.amb = @ \ LowWord] ELSE c

DropCaps ==
  /\ pc = "caps"
  /\ cred' = ClearInh(LowerAmbient(LeaveBound(cred)))
  /\ pc' = IF (caplist # {} /\ Kills("prctl")) \/ Kills("capset") THEN "killed"
           ELSE IF caplist # {} /\ Passes("prctl") /\ ~MayDrop THEN AfterWarning(After["caps"])
           ELSE After["caps"]
  /\ UNCHANGED <<given, caplist, filters, calls>>

\* PR_SET_NO_NEW_PRIVS, when it is asked for.
SetNoNewPrivs ==
  /\ pc = "nnp"
  /\ IF asked.no_new_privs
     THEN /\ cred' = [cred EXCEPT !.nnp = @ \/ Passes("prctl")]
          /\ pc' = IF Kills("prctl") THEN "killed" ELSE After["nnp"]
     ELSE cred' = cred /\ pc' = After["nnp"]
  /\ UNCHANGED <<given, caplist, filters, calls>>

\* PR_SET_SECUREBITS with SECBIT_NO_CAP_AMBIENT_RAISE, except for systemd.
SetSecurebits ==
  /\ pc = "securebits"
  /\ IF asked.systemd_mode
     THEN cred' = cred /\ pc' = After["securebits"]
     ELSE /\ cred' = [cred EXCEPT !.noraise = @ \/ MayDrop]
          /\ pc' = IF Kills("prctl") THEN "killed" ELSE After["securebits"]
  /\ UNCHANGED <<given, caplist, filters, calls>>

-----------------------------------------------------------------------------
(* change_user() *)

\* A failed call ends ruri for a number and for -g; for a name it is a warning.
Strict == asked.skip_setgroups \/ asked.user.how = "uid"

\* line_get_uid() and line_get_gid() give 0 for a field they do not find, and do not
\* look whether it is a number; RURI_PWD_ERRNO is 0 all the same.
TargetUid ==
  IF Strict THEN asked.user.id
  ELSE CASE host.line = "cut"  -> Root
         [] host.line = "word" -> Garbled
         [] OTHER              -> asked.user.id
TargetGid ==
  IF Strict THEN asked.user.id
  ELSE IF host.line \in {"cut", "no_gid"} THEN Root ELSE GidOf[asked.user.id]

\* ruri_get_groups(): nothing for a uid that no line has.
GroupsRead(u) ==
  IF u = Root \/ u # asked.user.id THEN GroupsOf[u]
  ELSE IF ~host.known \/ host.line \notin {"whole", "no_gid"} \/ GroupsOf[u] = {} THEN {}
  ELSE IF host.line = "whole" THEN GroupsOf[u]
  ELSE (GroupsOf[u] \ {GidOf[u]}) \cup {Root}
TargetGroups == IF asked.skip_setgroups THEN {asked.user.id}
                ELSE IF GroupsRead(TargetUid) = {} THEN {TargetUid} ELSE GroupsRead(TargetUid)

\* Slip: the user first.
UserCallsUidFirst == <<"setuid", "setgroups", "setgid">>

\* The calls of each branch.
SkipCalls == <<"setgid", "setuid", "setgroups">>
UserCalls == <<"setgroups", "setgid", "setuid">>

ClearGroups(c) ==
  IF Passes("setgroups") /\ host.setgroups /\ SETGID \in c.eff
  THEN [c EXCEPT !.groups = {}] ELSE c

\* Where change_user() goes after its first setgroups(2): "user" when it has calls
\* to make.  atoi(3) makes a name of "0".
Branch ==
  IF asked.skip_setgroups THEN CASE asked.user.how = "none" -> "return"
                                 [] asked.user.how = "uid"  -> "skip"
                                 [] OTHER -> "error"
  ELSE IF asked.user.how = "uid" THEN "calls"
  ELSE IF asked.user.how = "zero" THEN "error"
  ELSE IF ~host.known THEN (IF asked.user.id = Root THEN "return" ELSE "error")
  ELSE IF host.line = "gone" THEN "warning"
  ELSE "calls"

\* Where no groups are found, that may be on account of a line in /etc/group, and
\* a warning.
AfterBranch ==
  CASE Branch = "error"   -> {"stopped"}
    [] Branch = "warning" -> {AfterWarning(After["user"])}
    [] Branch = "return"  -> {After["user"]}
    [] Branch = "calls" /\ GroupsRead(TargetUid) = {} -> {"ids", AfterWarning("ids")}
    [] OTHER -> {"ids"}

ChangeUser ==
  /\ pc = "user"
  /\ cred' = ClearGroups(cred)
  /\ IF Kills("setgroups") THEN pc' = "killed" /\ calls' = <<>>
     ELSE /\ calls' = CASE Branch = "skip"  -> SkipCalls
                       [] Branch = "calls" -> UserCalls
                       [] OTHER -> <<>>
          /\ pc' \in AfterBranch
  /\ UNCHANGED <<given, caplist, filters>>

\* Whether the kernel grants a call, and what it then does.
Granted(call) ==
  CASE call = "setgroups" -> /\ host.setgroups /\ SETGID \in cred.eff
                             /\ \A g \in TargetGroups : Mapped(g)
    [] call = "setgid"    -> Mapped(TargetGid) /\ (SETGID \in cred.eff \/ TargetGid = cred.gid)
    [] call = "setuid"    -> Mapped(TargetUid) /\ (SETUID \in cred.eff \/ TargetUid = cred.uid)

Applied(call) ==
  CASE call = "setgroups" -> [cred EXCEPT !.groups = TargetGroups]
    [] call = "setgid"    -> [cred EXCEPT !.gid = TargetGid]
    [] call = "setuid"    -> SetUid(cred, TargetUid)

NextCall == /\ calls' = Tail(calls)
            /\ pc' = IF Len(calls) = 1 THEN After["user"] ELSE "ids"

SetIds ==
  /\ pc = "ids"
  /\ LET call == Head(calls)
         ok   == Passes(call) /\ Granted(call)
     IN /\ cred' = IF ok THEN Applied(call) ELSE cred
        /\ IF Kills(call) THEN pc' = "killed" /\ calls' = <<>>
           ELSE IF ok \/ Fakes(call) THEN NextCall
           ELSE IF Strict \/ asked.force_panic THEN pc' = "stopped" /\ calls' = <<>>
           ELSE NextCall
  /\ UNCHANGED <<given, caplist, filters>>

-----------------------------------------------------------------------------
\* execvp(3).  There may be nothing to execute.
ExecCommand ==
  /\ pc = "exec"
  /\ \/ Passes("execve") /\ pc' = "command" /\ cred' = Exec(cred)
     \/ cred' = cred /\ pc' = IF Kills("execve") THEN "killed" ELSE "noexec"
  /\ UNCHANGED <<given, caplist, filters, calls>>

Next == \/ ReadConfig \/ BuildCaplist \/ SetupSeccomp \/ DropCaps
        \/ SetNoNewPrivs \/ SetSecurebits \/ ChangeUser \/ SetIds \/ ExecCommand

Spec == Init /\ [][Next]_vars

-----------------------------------------------------------------------------
(* Properties *)

PC == {"config", "args", "command", "stopped", "noexec", "killed", "ids"}
        \cup {"seccomp", "caps", "nnp", "securebits", "user", "exec"}

\* Type correctness: the state stays within its types, and nothing unsupported is
\* ever listed (ruri_add_to_caplist(), ruri_read_config()).
TypeOK ==
  /\ pc \in PC
  /\ asked \in Launches /\ host \in Hosts
  /\ began \in Creds /\ cred \in Cred
  /\ caplist \subseteq Supported
  /\ filters \subseteq Filter
  /\ calls \in Seq({"setgroups", "setgid", "setuid"})
  /\ pc = "ids" => calls # <<>>

Untouched(S) == S \cap DOMAIN asked.denied = {}
Unfaked(S)   == \A s \in S \cap DOMAIN asked.denied : asked.denied[s] # "fake"
IdCalls      == {"setgroups", "setgid", "setuid"}

ListIsDropped == /\ cred.bnd = began.bnd \ caplist
                 /\ cred.prm = IF cred.uid = Root THEN cred.bnd ELSE {}
UserIsWhole   == /\ cred.uid = asked.user.id
                 /\ cred.gid = IF Strict THEN asked.user.id ELSE GidOf[asked.user.id]
                 /\ cred.groups = TargetGroups
UserAsked     == asked.user.how \in {"uid", "name"}

\* The user's line is misread, and nobody is told: the uid or gid it gives is wrong,
\* or for a number the first of the groups.
IsMisread == /\ ~asked.skip_setgroups
             /\ host.line \in IF Strict THEN {"no_gid"} ELSE {"no_gid", "cut", "word"}

WhitelistIsIn == \E f \in filters : f.builtin = "whitelist"
BlacklistIsIn == \E f \in filters : f.builtin = "blacklist"
DenialsAreIn  == \E f \in filters : f.denied = asked.denied
FiltersAreIn  ==
  IF asked.enable_seccomp_whitelist THEN WhitelistIsIn
  ELSE /\ asked.enable_default_seccomp \/ asked.systemd_mode => BlacklistIsIn
       /\ asked.denied # NoDenials => DenialsAreIn

\* The command has lost what is on drop_caplist and nothing else: as root it runs
\* with the rest, as another user with nothing (drop_caps(), then change_user()),
\* when ruri had CAP_SETPCAP, no inheritable capability beyond the first word and
\* leave to call prctl(2) and capset(2).
CommandKeepsToCaplist ==
  /\ pc = "command"
  /\ SETPCAP \in began.eff /\ began.inh \subseteq LowWord
  /\ Untouched({"prctl", "capset"})
  => ListIsDropped

\* No command runs as half a user: after -E with a number, whatever the kernel
\* refuses, and after -E with a name when ruri was able to change, the command has
\* the user, the group and the groups (change_user()).  Not so for a line that is
\* misread: the command of "-E bob" is then root's, when bob's line is the last and
\* has no newline.
AskedUserIsWhole ==
  /\ pc = "command" /\ UserAsked /\ Unfaked(IdCalls) /\ ~IsMisread
  /\ Strict \/ /\ {SETUID, SETGID} \subseteq began.eff /\ Untouched(IdCalls)
               /\ host.setgroups /\ host.mapped /\ host.known /\ host.line # "gone"
  => UserIsWhole

\* The filters that were asked for hold for the command, whichever user it runs as
\* and whatever ruri gave up on the way (ruri_setup_seccomp() and what follows it),
\* when the kernel has filters and ruri was able to load them.
FilterIsInForce ==
  /\ pc = "command" /\ host.seccomp /\ (SYS_ADMIN \in began.eff \/ began.nnp)
  => FiltersAreIn

\* The flags that outlive exec(3) are set in time: after change_user() the secure
\* bits could not be (ruri_run_chroot_container()).
CommandIsLocked ==
  /\ pc = "command" /\ Untouched({"prctl"})
  => /\ asked.no_new_privs => cred.nnp
     /\ SETPCAP \in began.eff /\ ~asked.systemd_mode => cred.noraise

\* With ruri_force_panic() set no privilege is kept by a call that failed: a command
\* that runs has all three of the above, whatever ruri began with
\* (ruri_warn_on_error()).  A line of /etc/passwd that is misread is no failure to
\* ruri: not even then does it stop.
ForcePanicKeepsNothing ==
  /\ pc = "command" /\ asked.force_panic
  => /\ began.inh \subseteq LowWord /\ Untouched({"prctl", "capset"})
           => ListIsDropped
     /\ UserAsked /\ host.known /\ Unfaked(IdCalls) /\ ~IsMisread => UserIsWhole
     /\ FiltersAreIn

-----------------------------------------------------------------------------
(* What the documents and comments say *)

\* With everything allowed, ruri stops at no call of change_user().
NothingFails == /\ {SETUID, SETGID, SETPCAP, SYS_ADMIN} \subseteq began.eff
                /\ host.setgroups /\ host.mapped
                /\ asked.denied = NoDenials

\* With -g a user is given by its number (doc/USAGE.md, --skip-setgroups), and ruri
\* does not fail on it.
SkipSetgroupsTakesUids ==
  NothingFails /\ asked.skip_setgroups /\ asked.user.how = "uid" => pc # "stopped"
=============================================================================
