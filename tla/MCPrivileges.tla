---------------------------- MODULE MCPrivileges ----------------------------
(***************************************************************************)
(* Instances of Privileges for TLC: five capabilities that stand for the   *)
(* ones that something depends on, one of them (bpf) in the second word,   *)
(* and one (new) that the kernel does not have; two users, one of them     *)
(* with a group of its own in /etc/group and one in none.                  *)
(***************************************************************************)
EXTENDS Privileges

MCKeep      == {"setuid", "setgid", "setpcap"}
MCLow       == MCKeep \cup {"sys_admin"}
MCSupported == MCLow \cup {"bpf"}
MCCap       == MCSupported \cup {"new"}

MCId       == {"root", "ann", "bob"}
MCGidOf    == [i \in MCId |-> IF i = "ann" THEN "bob" ELSE i]
MCGroupsOf == [i \in MCId |-> IF i = "bob" THEN {} ELSE {MCGidOf[i], i}]

Deny(syscalls, actions) == {[s \in {c} |-> a] : c \in syscalls, a \in actions}

Plain == [config |-> NoConfig, privileged |-> FALSE, drop |-> {}, keep |-> {},
          user |-> [how |-> "none", id |-> "root"], skip_setgroups |-> FALSE,
          enable_default_seccomp |-> FALSE, enable_seccomp_whitelist |-> FALSE,
          systemd_mode |-> FALSE, denied |-> NoDenials,
          no_new_privs |-> FALSE, force_panic |-> FALSE]

\* Who the command runs as.
IdLaunches ==
  {[Plain EXCEPT !.user = u, !.skip_setgroups = g, !.denied = d, !.force_panic = f] :
     u \in User, g \in BOOLEAN, f \in BOOLEAN,
     d \in {NoDenials} \cup Deny({"setgroups", "setgid", "setuid"}, RuleAction)}

\* What is dropped, and which filters and flags the command has.
ListLaunches ==
  {[Plain EXCEPT !.config = {"bpf"}, !.privileged = p, !.drop = d, !.keep = k, !.user = u, !.denied = x,
                 !.force_panic = f] :
     p \in BOOLEAN, d \in {{}, {"setpcap"}, {"sys_admin", "new"}}, k \in {{}, {"sys_admin"}},
     u \in {Plain.user, [how |-> "uid", id |-> "ann"]}, f \in BOOLEAN,
     x \in {NoDenials} \cup Deny({"prctl"}, {"kill", "fail"}) \cup Deny({"capset"}, {"fail"})}
FlagLaunches ==
  {[Plain EXCEPT !.user = u, !.enable_default_seccomp = b, !.enable_seccomp_whitelist = w,
                 !.systemd_mode = y, !.denied = x, !.no_new_privs = n, !.force_panic = f] :
     u \in {Plain.user, [how |-> "name", id |-> "bob"]},
     b \in BOOLEAN, w \in BOOLEAN, y \in BOOLEAN, n \in BOOLEAN, f \in BOOLEAN,
     x \in {NoDenials} \cup Deny({"prctl"}, {"kill", "fake"}) \cup Deny({"other"}, {"kill"})
             \cup Deny({"execve"}, {"fail"})}
CapLaunches == ListLaunches \cup FlagLaunches
AllLaunches == IdLaunches \cup CapLaunches

UserLaunches   == {[Plain EXCEPT !.user = u, !.skip_setgroups = g] : u \in User, g \in BOOLEAN}

Open     == [seccomp |-> TRUE, setgroups |-> TRUE, mapped |-> TRUE, known |-> TRUE, line |-> "whole"]
OpenHost == {Open}
\* At most one thing is refused or missing.
AllHosts == {[Open EXCEPT ![f] = FALSE] : f \in DOMAIN Open \ {"line"}}
              \cup {[Open EXCEPT !.line = l] : l \in Line}

WithCaps(prm, inh, amb) ==
  [uid |-> "root", gid |-> "root", groups |-> {"root", "bob"}, prm |-> prm, eff |-> prm,
   inh |-> inh, amb |-> amb, bnd |-> prm, nnp |-> FALSE, noraise |-> FALSE]

FullCreds == {WithCaps(MCSupported, {}, {})}
\* Inheritable capabilities, or one capability less than all.
AllCreds  == {WithCaps(MCSupported, inh, inh) : inh \in {{}, {"sys_admin"}, {"bpf"}}}
               \cup {WithCaps(MCSupported \ {c}, {}, {}) : c \in MCLow}
=============================================================================
