-------------------------- MODULE Privileges_proofs --------------------------
(***************************************************************************)
(* Theorems about Privileges, for every set of capabilities, ids, options, *)
(* hosts and credentials: its types, and that the command has the user,    *)
(* the capabilities and the filters it should have.                        *)
(***************************************************************************)
EXTENDS Privileges, TLAPS

\* The order of the calls.
LEMMA AfterIs ==
  /\ After["args"] = "seccomp" /\ After["seccomp"] = "caps" /\ After["caps"] = "nnp"
  /\ After["nnp"] = "securebits" /\ After["securebits"] = "user" /\ After["user"] = "exec"
BY DEF After

-----------------------------------------------------------------------------
(* Types *)

\* A list has supported capabilities only (ruri_build_caplist()).
LEMMA BuildListType ==
  ASSUME NEW p, NEW d, NEW k PROVE BuildList(p, d, k) \subseteq Supported
BY CapsAssumption DEF BuildList

\* The options that are looked at are options.
LEMMA AskedType ==
  ASSUME asked \in Launches
  PROVE  /\ asked \in Launch
         /\ asked.user \in User /\ asked.user.id \in Id
         /\ TargetUid \in Id /\ TargetGid \in Id /\ TargetGroups \in SUBSET Id
<1>1. asked \in Launch
  BY InputsAssumption
<1>2. asked.user \in User
  BY <1>1 DEF Launch
<1>3. asked.user.id \in Id
  BY <1>2, IdsAssumption DEF User
<1>4. TargetUid \in Id /\ TargetGid \in Id /\ TargetGroups \in SUBSET Id
  BY <1>3, IdsAssumption DEF TargetUid, TargetGid, TargetGroups, GroupsRead
<1> QED
  BY <1>1, <1>2, <1>3, <1>4

\* What a call leaves are credentials.
LEMMA CredSteps ==
  ASSUME NEW c \in Cred
  PROVE  /\ Exec(c) \in Cred
         /\ LeaveBound(c) \in Cred /\ LowerAmbient(c) \in Cred /\ ClearInh(c) \in Cred
         /\ ClearGroups(c) \in Cred
         /\ \A u \in Id : SetUid(c, u) \in Cred
<1>1. Exec(c) \in Cred
  BY DEF Exec, Cred
<1>2. LeaveBound(c) \in Cred /\ LowerAmbient(c) \in Cred /\ ClearInh(c) \in Cred
  BY DEF LeaveBound, LowerAmbient, ClearInh, Cred
<1>3. ClearGroups(c) \in Cred
  BY DEF ClearGroups, Cred
<1>4. \A u \in Id : SetUid(c, u) \in Cred
  BY DEF SetUid, Cred
<1> QED
  BY <1>1, <1>2, <1>3, <1>4

\* The filters that are loaded are filters.
LEMMA FilterType ==
  ASSUME asked \in Launches
  PROVE  Whitelists \subseteq Filter /\ Blacklists \subseteq Filter
<1>0. asked.denied \in Denials
  BY AskedType DEF Launch
<1>1. PICK S \in SUBSET Syscall : asked.denied \in [S -> RuleAction]
  BY <1>0 DEF Denials
<1>2. ASSUME NEW T \in SUBSET DOMAIN asked.denied
      PROVE  [s \in T |-> asked.denied[s]] \in Denials
  <2>1. T \in SUBSET Syscall
    BY <1>1
  <2>2. [s \in T |-> asked.denied[s]] \in [T -> RuleAction]
    BY <1>1
  <2> QED
    BY <2>1, <2>2 DEF Denials
<1>3. Whitelists \subseteq Filter
  BY <1>2 DEF Whitelists, Filter
<1>4. Blacklists \subseteq Filter
  BY <1>0 DEF Blacklists, UserOnly, Blacklist, Filter
<1> QED
  BY <1>3, <1>4

\* What change_user() has to call: one of its two sequences, or what is left of it.
SkipRest == {SkipCalls, <<"setuid", "setgroups">>, <<"setgroups">>}
UserRest == {UserCalls, <<"setgid", "setuid">>, <<"setuid">>}

CallsInv == /\ calls \in SkipRest \cup UserRest \cup {<<>>}
            /\ pc = "ids" => calls \in IF asked.skip_setgroups THEN SkipRest ELSE UserRest

\* The sequences, one call after the other.
LEMMA CallSequences ==
  /\ Head(SkipCalls) = "setgid" /\ Tail(SkipCalls) = <<"setuid", "setgroups">>
  /\ Head(<<"setuid", "setgroups">>) = "setuid"
  /\ Tail(<<"setuid", "setgroups">>) = <<"setgroups">>
  /\ Head(UserCalls) = "setgroups" /\ Tail(UserCalls) = <<"setgid", "setuid">>
  /\ Head(<<"setgid", "setuid">>) = "setgid"
  /\ Tail(<<"setgid", "setuid">>) = <<"setuid">>
  /\ Head(<<"setgroups">>) = "setgroups" /\ Tail(<<"setgroups">>) = <<>>
  /\ Head(<<"setuid">>) = "setuid" /\ Tail(<<"setuid">>) = <<>>
  /\ Len(SkipCalls) = 3 /\ Len(UserCalls) = 3
  /\ Len(<<"setuid", "setgroups">>) = 2 /\ Len(<<"setgid", "setuid">>) = 2
  /\ Len(<<"setgroups">>) = 1 /\ Len(<<"setuid">>) = 1
BY DEF SkipCalls, UserCalls

LEMMA RestsAreSequences ==
  \A s \in SkipRest \cup UserRest :
    s # <<>> /\ s \in Seq({"setgroups", "setgid", "setuid"})
<1> DEFINE C == {"setgroups", "setgid", "setuid"}
<1>1. SkipCalls # <<>> /\ SkipCalls \in Seq(C)
  BY DEF SkipCalls
<1>2. UserCalls # <<>> /\ UserCalls \in Seq(C)
  BY DEF UserCalls
<1>3. <<"setuid", "setgroups">> # <<>> /\ <<"setuid", "setgroups">> \in Seq(C)
  OBVIOUS
<1>4. <<"setgid", "setuid">> # <<>> /\ <<"setgid", "setuid">> \in Seq(C)
  OBVIOUS
<1>5. <<"setgroups">> # <<>> /\ <<"setuid">> # <<>>
  OBVIOUS
<1>6. <<"setgroups">> \in Seq(C) /\ <<"setuid">> \in Seq(C)
  OBVIOUS
<1> QED
  BY <1>1, <1>2, <1>3, <1>4, <1>5, <1>6 DEF SkipRest, UserRest

\* Nothing is left of both.
LEMMA SkipIsNotUser ==
  /\ \A s \in SkipRest : s \notin UserRest
  /\ \A s \in UserRest : s \notin SkipRest
<1>1. ASSUME NEW s \in SkipRest, NEW t \in UserRest PROVE s # t
  <2>1. CASE s = SkipCalls
    BY <2>1 DEF UserRest, SkipCalls, UserCalls
  <2>2. CASE s = <<"setuid", "setgroups">>
    BY <2>2 DEF UserRest, UserCalls
  <2>3. CASE s = <<"setgroups">>
    BY <2>3 DEF UserRest, UserCalls
  <2> QED
    BY <2>1, <2>2, <2>3 DEF SkipRest
<1> QED
  BY <1>1

\* The head of what is left is a call, and the rest is what is left after it.
LEMMA NextOfRest ==
  ASSUME NEW s \in SkipRest \cup UserRest
  PROVE  /\ Head(s) \in {"setgroups", "setgid", "setuid"}
         /\ Len(s) = 1 => Tail(s) = <<>>
         /\ Len(s) # 1 => /\ s \in SkipRest => Tail(s) \in SkipRest
                          /\ s \in UserRest => Tail(s) \in UserRest
<1>1. CASE s = SkipCalls
  BY <1>1, CallSequences, SkipIsNotUser DEF SkipRest
<1>2. CASE s = <<"setuid", "setgroups">>
  BY <1>2, CallSequences, SkipIsNotUser DEF SkipRest
<1>3. CASE s = <<"setgroups">>
  BY <1>3, CallSequences
<1>4. CASE s = UserCalls
  BY <1>4, CallSequences, SkipIsNotUser DEF UserRest
<1>5. CASE s = <<"setgid", "setuid">>
  BY <1>5, CallSequences, SkipIsNotUser DEF UserRest
<1>6. CASE s = <<"setuid">>
  BY <1>6, CallSequences
<1> QED
  BY <1>1, <1>2, <1>3, <1>4, <1>5, <1>6 DEF SkipRest, UserRest

\* What the kernel makes of a granted call are credentials.
LEMMA AppliedType ==
  ASSUME asked \in Launches, cred \in Cred, NEW s \in {"setgroups", "setgid", "setuid"}
  PROVE  Applied(s) \in Cred
<1>1. TargetUid \in Id /\ TargetGid \in Id /\ TargetGroups \in SUBSET Id
  BY AskedType
<1>2. SetUid(cred, TargetUid) \in Cred
  BY <1>1, CredSteps
<1>3. [cred EXCEPT !.groups = TargetGroups] \in Cred /\ [cred EXCEPT !.gid = TargetGid] \in Cred
  BY <1>1 DEF Cred
<1> QED
  BY <1>2, <1>3 DEF Applied

Typed == TypeOK /\ CallsInv

LEMMA TypedInit == Init => Typed
<1> SUFFICES ASSUME Init PROVE Typed
  OBVIOUS
<1>1. cred \in Cred /\ asked \in Launches /\ host \in Hosts /\ began \in Creds
  BY InputsAssumption DEF Init
<1>2. caplist \subseteq Supported
  BY BuildListType DEF Init
<1>3. <<>> \in Seq({"setgroups", "setgid", "setuid"})
  OBVIOUS
<1> QED
  BY <1>1, <1>2, <1>3 DEF Init, Typed, TypeOK, PC, CallsInv

\* Each action keeps the types.
LEMMA TypedStep == Typed /\ [Next]_vars => Typed'
<1> SUFFICES ASSUME Typed, [Next]_vars PROVE Typed'
  OBVIOUS
<1> USE AfterIs DEF given
<1>t. /\ asked \in Launches /\ cred \in Cred /\ host \in Hosts /\ began \in Creds
      /\ caplist \subseteq Supported /\ filters \subseteq Filter
      /\ calls \in SkipRest \cup UserRest \cup {<<>>}
      /\ <<>> \in Seq({"setgroups", "setgid", "setuid"})
  BY DEF Typed, TypeOK, CallsInv
<1>s. calls \in Seq({"setgroups", "setgid", "setuid"})
  BY DEF Typed, TypeOK
<1>1. CASE ReadConfig
  <2>0. asked.config \in (SUBSET Supported) \cup {NoConfig}
    BY <1>t, AskedType DEF Launch
  <2>1. caplist' \subseteq Supported
    BY <1>1, <1>t, <2>0 DEF ReadConfig
  <2> QED
    BY <1>1, <1>t, <1>s, <2>1 DEF ReadConfig, Typed, TypeOK, CallsInv, PC
<1>2. CASE BuildCaplist
  <2>1. caplist' \subseteq Supported
    BY <1>2, BuildListType DEF BuildCaplist
  <2> QED
    BY <1>2, <1>t, <1>s, <2>1 DEF BuildCaplist, Typed, TypeOK, CallsInv, PC
<1>3. CASE SetupSeccomp
  <2>1. filters' \subseteq Filter
    BY <1>3, <1>t, FilterType DEF SetupSeccomp
  <2>2. pc' \in {"caps", "stopped"}
    BY <1>3 DEF SetupSeccomp, AfterWarning
  <2> QED
    BY <1>3, <1>t, <1>s, <2>1, <2>2 DEF SetupSeccomp, Typed, TypeOK, CallsInv, PC
<1>4. CASE DropCaps
  <2>1. cred' \in Cred
    BY <1>4, <1>t, CredSteps DEF DropCaps
  <2>2. pc' \in {"nnp", "stopped", "killed"}
    BY <1>4 DEF DropCaps, AfterWarning
  <2> QED
    BY <1>4, <1>t, <1>s, <2>1, <2>2 DEF DropCaps, Typed, TypeOK, CallsInv, PC
<1>5. CASE SetNoNewPrivs
  <2>1. cred' \in Cred
    BY <1>5, <1>t DEF SetNoNewPrivs, Cred, Passes
  <2>2. pc' \in {"securebits", "killed"}
    BY <1>5 DEF SetNoNewPrivs
  <2> QED
    BY <1>5, <1>t, <1>s, <2>1, <2>2 DEF SetNoNewPrivs, Typed, TypeOK, CallsInv, PC
<1>6. CASE SetSecurebits
  <2>1. cred' \in Cred
    BY <1>6, <1>t DEF SetSecurebits, Cred, MayDrop, Passes
  <2>2. pc' \in {"user", "killed"}
    BY <1>6 DEF SetSecurebits
  <2> QED
    BY <1>6, <1>t, <1>s, <2>1, <2>2 DEF SetSecurebits, Typed, TypeOK, CallsInv, PC
<1>7. CASE ChangeUser
  <2>1. cred' \in Cred
    BY <1>7, <1>t, CredSteps DEF ChangeUser
  <2>2. /\ pc' \in {"killed", "stopped", "exec", "ids"}
        /\ calls' \in SkipRest \cup UserRest \cup {<<>>}
        /\ pc' = "ids" => calls' \in IF asked.skip_setgroups THEN SkipRest ELSE UserRest
    BY <1>7 DEF ChangeUser, AfterBranch, Branch, AfterWarning, SkipRest, UserRest
  <2>3. calls' \in Seq({"setgroups", "setgid", "setuid"}) /\ (pc' = "ids" => calls' # <<>>)
    BY <2>2, <1>t, RestsAreSequences
  <2> QED
    BY <1>7, <1>t, <2>1, <2>2, <2>3 DEF ChangeUser, Typed, TypeOK, CallsInv, PC
<1>8. CASE SetIds
  <2>0. calls \in SkipRest \cup UserRest
        /\ calls \in IF asked.skip_setgroups THEN SkipRest ELSE UserRest
    BY <1>8 DEF SetIds, Typed, CallsInv
  <2>1. cred' \in Cred
    BY <1>8, <1>t, <2>0, NextOfRest, AppliedType DEF SetIds
  <2>2. /\ pc' \in {"killed", "stopped", "exec", "ids"}
        /\ calls' \in SkipRest \cup UserRest \cup {<<>>}
        /\ pc' = "ids" => calls' \in IF asked.skip_setgroups THEN SkipRest ELSE UserRest
    BY <1>8, <2>0, NextOfRest DEF SetIds, NextCall
  <2>3. calls' \in Seq({"setgroups", "setgid", "setuid"}) /\ (pc' = "ids" => calls' # <<>>)
    BY <2>2, <1>t, RestsAreSequences
  <2> QED
    BY <1>8, <1>t, <2>1, <2>2, <2>3 DEF SetIds, Typed, TypeOK, CallsInv, PC
<1>9. CASE ExecCommand
  <2>1. cred' \in Cred
    BY <1>9, <1>t, CredSteps DEF ExecCommand
  <2>2. pc' \in {"command", "killed", "noexec"}
    BY <1>9 DEF ExecCommand
  <2> QED
    BY <1>9, <1>t, <1>s, <2>1, <2>2 DEF ExecCommand, Typed, TypeOK, CallsInv, PC
<1>10. CASE UNCHANGED vars
  BY <1>10 DEF vars, Typed, TypeOK, CallsInv
<1> QED
  BY <1>1, <1>2, <1>3, <1>4, <1>5, <1>6, <1>7, <1>8, <1>9, <1>10 DEF Next

\* The state stays within its types, and the list within what the kernel supports.
THEOREM TypeCorrect == Spec => []TypeOK
<1>1. Typed => TypeOK
  BY DEF Typed
<1> QED
  BY <1>1, TypedInit, TypedStep, PTL DEF Spec

-----------------------------------------------------------------------------
(* The inductive invariant *)

\* The rules of the loaded filters are the user's.
DenialsFromAsked ==
  \A f \in filters : \A s \in DOMAIN f.denied :
    s \in DOMAIN asked.denied /\ f.denied[s] = asked.denied[s]

\* A syscall the user did not mention is let through, and none is faked that the
\* user did not want faked.
LEMMA RulesFromAsked ==
  ASSUME DenialsFromAsked, NEW S, NEW s \in S
  PROVE  /\ Untouched(S) => Passes(s)
         /\ Unfaked(S) => ~Fakes(s)
<1>1. \A r \in Rules(s) : s \in DOMAIN asked.denied /\ r = asked.denied[s]
  BY DEF DenialsFromAsked, Rules
<1>2. Untouched(S) => Rules(s) = {}
  BY <1>1 DEF Untouched
<1>3. Unfaked(S) => Rules(s) # {"fake"}
  BY <1>1 DEF Unfaked
<1> QED
  BY <1>2, <1>3 DEF Passes, Fakes

\* Nothing is given up before drop_caps(), and what it gave up stays given up.
MustDrop == /\ began.inh \subseteq LowWord /\ Untouched({"prctl", "capset"})
            /\ SETPCAP \in began.eff \/ asked.force_panic
Dropped  == cred.bnd = began.bnd \ caplist /\ cred.inh = {} /\ cred.amb = {}
CapsInv ==
  /\ pc \in {"config", "args", "seccomp", "caps"} => cred = began
  /\ MustDrop /\ pc \in {"nnp", "securebits", "user", "ids", "exec"} => Dropped
  /\ MustDrop /\ pc = "command" => ListIsDropped

\* The filters are loaded from the second call on.
MustLoad == \/ host.seccomp /\ (SYS_ADMIN \in began.eff \/ began.nnp)
            \/ asked.force_panic
FilterInv ==
  MustLoad /\ pc \notin {"config", "args", "seccomp", "stopped"} => FiltersAreIn

\* change_user() has its capabilities up to its last call, and what it has called
\* it has got.
MustChange ==
  /\ UserAsked /\ Unfaked(IdCalls) /\ ~IsMisread
  /\ \/ Strict
     \/ /\ {SETUID, SETGID} \subseteq began.eff /\ Untouched(IdCalls)
        /\ host.setgroups /\ host.mapped /\ host.known /\ host.line # "gone"
     \/ asked.force_panic /\ host.known
TargetIsSet == cred.uid = TargetUid /\ cred.gid = TargetGid /\ cred.groups = TargetGroups
EffInv == pc \in {"nnp", "securebits", "user"} \/ (pc = "ids" /\ ~asked.skip_setgroups)
          => cred.eff = began.eff
UserInv ==
  /\ MustChange /\ pc = "ids" =>
       /\ calls \in {<<"setgid", "setuid">>, <<"setuid">>} => cred.groups = TargetGroups
       /\ calls \in {<<"setuid">>, <<"setuid", "setgroups">>, <<"setgroups">>}
          => cred.gid = TargetGid
       /\ calls = <<"setgroups">> => cred.uid = TargetUid
  /\ MustChange /\ pc \in {"exec", "command"} => TargetIsSet

\* Each flag is set from its own call on.
LockInv ==
  Untouched({"prctl"}) =>
    /\ asked.no_new_privs /\ pc \in {"securebits", "user", "ids", "exec", "command"}
       => cred.nnp
    /\ /\ SETPCAP \in began.eff /\ ~asked.systemd_mode
       /\ pc \in {"user", "ids", "exec", "command"}
       => cred.noraise

\* Past a line that is gone there is a warning.
LineInv ==
  MustChange /\ pc \in {"ids", "exec", "command"} => Strict \/ host.line # "gone"

IInv == Typed /\ DenialsFromAsked /\ CapsInv /\ FilterInv /\ EffInv /\ UserInv /\ LineInv
        /\ LockInv

\* The invariant holds at first.
LEMMA IInvInit == Init => IInv
<1> SUFFICES ASSUME Init PROVE IInv
  OBVIOUS
<1>1. DenialsFromAsked
  BY DEF Init, DenialsFromAsked
<1>2. CapsInv /\ FilterInv /\ EffInv /\ UserInv /\ LineInv /\ LockInv
  BY DEF Init, CapsInv, FilterInv, EffInv, UserInv, LineInv, LockInv
<1> QED
  BY <1>1, <1>2, TypedInit DEF IInv

\* Where each step can lead.
LEMMA Steps ==
  /\ ReadConfig => pc = "config" /\ pc' = "args" /\ cred' = cred /\ filters' = filters
  /\ BuildCaplist => pc = "args" /\ pc' = "seccomp" /\ cred' = cred /\ filters' = filters
  /\ SetupSeccomp => pc = "seccomp" /\ pc' \in {"caps", "stopped"} /\ cred' = cred
  /\ DropCaps => /\ pc = "caps" /\ pc' \in {"nnp", "stopped", "killed"}
                 /\ caplist' = caplist /\ filters' = filters
  /\ SetNoNewPrivs => /\ pc = "nnp" /\ pc' \in {"securebits", "killed"}
                      /\ caplist' = caplist /\ filters' = filters
  /\ SetSecurebits => /\ pc = "securebits" /\ pc' \in {"user", "killed"}
                      /\ caplist' = caplist /\ filters' = filters
  /\ ChangeUser => /\ pc = "user" /\ pc' \in {"killed", "stopped", "exec", "ids"}
                   /\ caplist' = caplist /\ filters' = filters
  /\ SetIds => /\ pc = "ids" /\ pc' \in {"killed", "stopped", "exec", "ids"}
               /\ caplist' = caplist /\ filters' = filters
  /\ ExecCommand => /\ pc = "exec" /\ pc' \in {"command", "killed", "noexec"}
                    /\ caplist' = caplist /\ filters' = filters
<1> USE AfterIs DEF given
<1>1. ReadConfig => pc = "config" /\ pc' = "args" /\ cred' = cred /\ filters' = filters
  BY DEF ReadConfig
<1>2. BuildCaplist => pc = "args" /\ pc' = "seccomp" /\ cred' = cred /\ filters' = filters
  BY DEF BuildCaplist
<1>3. SetupSeccomp => pc = "seccomp" /\ pc' \in {"caps", "stopped"} /\ cred' = cred
  BY DEF SetupSeccomp, AfterWarning
<1>4. DropCaps => /\ pc = "caps" /\ pc' \in {"nnp", "stopped", "killed"}
                  /\ caplist' = caplist /\ filters' = filters
  BY DEF DropCaps, AfterWarning
<1>5. SetNoNewPrivs => /\ pc = "nnp" /\ pc' \in {"securebits", "killed"}
                       /\ caplist' = caplist /\ filters' = filters
  BY DEF SetNoNewPrivs
<1>6. SetSecurebits => /\ pc = "securebits" /\ pc' \in {"user", "killed"}
                       /\ caplist' = caplist /\ filters' = filters
  BY DEF SetSecurebits
<1>7. ChangeUser => /\ pc = "user" /\ pc' \in {"killed", "stopped", "exec", "ids"}
                    /\ caplist' = caplist /\ filters' = filters
  BY DEF ChangeUser, AfterBranch, AfterWarning
<1>8. SetIds => /\ pc = "ids" /\ pc' \in {"killed", "stopped", "exec", "ids"}
                /\ caplist' = caplist /\ filters' = filters
  BY DEF SetIds, NextCall
<1>9. ExecCommand => /\ pc = "exec" /\ pc' \in {"command", "killed", "noexec"}
                     /\ caplist' = caplist /\ filters' = filters
  BY DEF ExecCommand
<1> QED
  BY <1>1, <1>2, <1>3, <1>4, <1>5, <1>6, <1>7, <1>8, <1>9

\* What ruri was given, nobody changes; and what follows from that alone.
LEMMA GivenStays ==
  ASSUME [Next]_vars
  PROVE  /\ asked' = asked /\ host' = host /\ began' = began
         /\ MustDrop' = MustDrop /\ MustLoad' = MustLoad /\ MustChange' = MustChange
         /\ TargetUid' = TargetUid /\ TargetGid' = TargetGid /\ TargetGroups' = TargetGroups
<1>1. asked' = asked /\ host' = host /\ began' = began
  BY DEF Next, vars, given, ReadConfig, BuildCaplist, SetupSeccomp, DropCaps,
         SetNoNewPrivs, SetSecurebits, ChangeUser, SetIds, ExecCommand
<1>2. MustDrop' = MustDrop /\ MustLoad' = MustLoad /\ MustChange' = MustChange
  BY <1>1 DEF MustDrop, MustLoad, MustChange, Untouched, Unfaked, UserAsked, Strict, IsMisread
<1>3. TargetUid' = TargetUid /\ TargetGid' = TargetGid /\ TargetGroups' = TargetGroups
  BY <1>1 DEF TargetUid, TargetGid, TargetGroups, GroupsRead, Strict
<1> QED
  BY <1>1, <1>2, <1>3

\* Only ruri_setup_seccomp() loads rules, and only the user's.
LEMMA DenialsStep == IInv /\ [Next]_vars => DenialsFromAsked'
<1> SUFFICES ASSUME IInv, [Next]_vars PROVE DenialsFromAsked'
  OBVIOUS
<1>1. asked' = asked /\ DenialsFromAsked
  BY GivenStays DEF IInv
<1>2. CASE filters' = filters
  BY <1>1, <1>2 DEF DenialsFromAsked
<1>3. CASE SetupSeccomp
  <2>1. ASSUME NEW f \in filters'
        PROVE  f \in Whitelists \/ f \in {UserOnly, Blacklist}
    BY <1>3 DEF SetupSeccomp, Blacklists
  <2>2. ASSUME NEW f \in filters', NEW s \in DOMAIN f.denied
        PROVE  s \in DOMAIN asked.denied /\ f.denied[s] = asked.denied[s]
    <3>1. CASE f \in Whitelists
      BY <2>2, <3>1 DEF Whitelists
    <3>2. CASE f \in {UserOnly, Blacklist}
      BY <2>2, <3>2 DEF UserOnly, Blacklist
    <3> QED
      BY <2>1, <3>1, <3>2
  <2> QED
    BY <1>1, <2>2 DEF DenialsFromAsked
<1> QED
  BY <1>2, <1>3, Steps DEF Next, vars

\* Loading is the only step that has to make the filters true, and it is done with
\* the credentials ruri began with.
LEMMA FilterStep == IInv /\ [Next]_vars => FilterInv'
<1> SUFFICES ASSUME IInv, [Next]_vars, MustLoad,
                    pc' \notin {"config", "args", "seccomp", "stopped"}
             PROVE  FiltersAreIn'
  BY GivenStays DEF FilterInv
<1>1. asked' = asked
  BY GivenStays
<1>2. CASE filters' = filters /\ pc \notin {"config", "args", "seccomp", "stopped"}
  <2>1. FiltersAreIn
    BY <1>2 DEF IInv, FilterInv
  <2> QED
    BY <1>1, <1>2, <2>1 DEF FiltersAreIn, WhitelistIsIn, BlacklistIsIn, DenialsAreIn
<1>3. CASE SetupSeccomp
  <2>1. cred = began
    BY <1>3 DEF SetupSeccomp, IInv, CapsInv
  <2>2. PICK S \in IF asked.enable_seccomp_whitelist THEN {{f} : f \in Whitelists}
                                                     ELSE {Blacklists} :
          /\ filters' = IF MayLoad THEN S ELSE {}
          /\ pc' = IF S = {} \/ MayLoad THEN After["seccomp"]
                   ELSE AfterWarning(After["seccomp"])
    BY <1>3 DEF SetupSeccomp
  <2>3. filters' = S
    BY <2>1, <2>2 DEF MustLoad, MayLoad, AfterWarning
  <2>4. CASE asked.enable_seccomp_whitelist
    <3>1. PICK f \in Whitelists : filters' = {f}
      BY <2>2, <2>3, <2>4
    <3> QED
      BY <1>1, <2>4, <3>1 DEF Whitelists, FiltersAreIn, WhitelistIsIn
  <2>5. CASE ~asked.enable_seccomp_whitelist
    <3>1. filters' = Blacklists
      BY <2>2, <2>3, <2>5
    <3>2. asked.enable_default_seccomp \/ asked.systemd_mode => Blacklist \in filters'
      BY <3>1 DEF Blacklists
    <3>3. asked.denied # NoDenials => Blacklist \in filters'
      BY <3>1 DEF Blacklists
    <3>4. Blacklist.builtin = "blacklist" /\ Blacklist.denied = asked.denied
      BY DEF Blacklist
    <3>5. (asked.enable_default_seccomp \/ asked.systemd_mode => BlacklistIsIn)'
      BY <1>1, <3>2, <3>4 DEF BlacklistIsIn
    <3>6. (asked.denied # NoDenials => DenialsAreIn)'
      BY <1>1, <3>3, <3>4 DEF DenialsAreIn, NoDenials
    <3> QED
      BY <1>1, <2>5, <3>5, <3>6 DEF FiltersAreIn
  <2> QED
    BY <2>4, <2>5
<1>4. CASE UNCHANGED vars
  BY <1>2, <1>4 DEF vars
<1> QED
  BY <1>2, <1>3, <1>4, Steps DEF Next

\* drop_caps() does what it must or stops, and nothing after it gives the bounding,
\* the inheritable or the ambient set back.
LEMMA CapsStep == IInv /\ [Next]_vars => CapsInv'
<1> SUFFICES ASSUME IInv, [Next]_vars PROVE CapsInv'
  OBVIOUS
<1>g. began' = began /\ MustDrop' = MustDrop
  BY GivenStays
<1>t. cred \in Cred /\ began \in Creds /\ asked \in Launches /\ CapsInv /\ DenialsFromAsked
  BY DEF IInv, Typed, TypeOK
<1>1. CASE ReadConfig \/ BuildCaplist \/ SetupSeccomp
  BY <1>1, <1>g, <1>t, Steps DEF CapsInv
<1>2. CASE DropCaps
  <2>1. SUFFICES ASSUME MustDrop, pc' = "nnp" PROVE Dropped'
    BY <1>2, <1>g, Steps DEF CapsInv
  <2>2. cred = began /\ cred.amb \subseteq cred.inh /\ cred.inh \subseteq LowWord
    BY <1>2, <1>t, <2>1, InputsAssumption DEF DropCaps, CapsInv, MustDrop
  <2>3. Passes("prctl") /\ Passes("capset")
    BY <1>t, <2>1, RulesFromAsked DEF MustDrop
  <2>4. MayDrop \/ caplist = {}
    BY <1>2, <2>1, <2>2, <2>3 DEF DropCaps, MayDrop, AfterWarning, MustDrop
  <2>5. /\ LeaveBound(cred) \in Cred
        /\ LeaveBound(cred).bnd = cred.bnd \ caplist
        /\ LeaveBound(cred).inh = cred.inh /\ LeaveBound(cred).amb = cred.amb
    BY <1>t, <2>4 DEF LeaveBound, Cred
  <2>6. ASSUME NEW c \in Cred
        PROVE  /\ LowerAmbient(c) \in Cred
               /\ LowerAmbient(c).bnd = c.bnd /\ LowerAmbient(c).inh = c.inh
               /\ LowerAmbient(c).amb \subseteq c.amb
    BY <2>3 DEF LowerAmbient, Cred
  <2>7. ASSUME NEW c \in Cred
        PROVE  /\ ClearInh(c).bnd = c.bnd
               /\ ClearInh(c).inh = c.inh \ LowWord /\ ClearInh(c).amb = c.amb \ LowWord
    BY <2>3 DEF ClearInh, Cred
  <2>8. cred' = ClearInh(LowerAmbient(LeaveBound(cred))) /\ caplist' = caplist
    BY <1>2 DEF DropCaps
  <2> QED
    BY <1>g, <2>2, <2>5, <2>6, <2>7, <2>8 DEF Dropped
<1>3. CASE SetNoNewPrivs
  <2>1. cred'.bnd = cred.bnd /\ cred'.inh = cred.inh /\ cred'.amb = cred.amb
    BY <1>3, <1>t DEF SetNoNewPrivs, Cred
  <2> QED
    BY <1>3, <1>g, <1>t, <2>1, Steps DEF CapsInv, Dropped
<1>4. CASE SetSecurebits
  <2>1. cred'.bnd = cred.bnd /\ cred'.inh = cred.inh /\ cred'.amb = cred.amb
    BY <1>4, <1>t DEF SetSecurebits, Cred
  <2> QED
    BY <1>4, <1>g, <1>t, <2>1, Steps DEF CapsInv, Dropped
<1>5. CASE ChangeUser
  <2>1. cred'.bnd = cred.bnd /\ cred'.inh = cred.inh /\ cred'.amb = cred.amb
    BY <1>5, <1>t DEF ChangeUser, ClearGroups, Cred
  <2> QED
    BY <1>5, <1>g, <1>t, <2>1, Steps DEF CapsInv, Dropped
<1>6. CASE SetIds
  <2>1. Head(calls) \in {"setgroups", "setgid", "setuid"}
    BY <1>6, NextOfRest DEF SetIds, IInv, Typed, CallsInv
  <2>2. cred' \in {cred, Applied(Head(calls))}
    BY <1>6 DEF SetIds
  <2>3. cred'.bnd = cred.bnd /\ cred'.inh = cred.inh /\ cred'.amb \in {cred.amb, {}}
    BY <1>t, <2>1, <2>2 DEF Applied, SetUid, Cred
  <2> QED
    BY <1>6, <1>g, <1>t, <2>3, Steps DEF CapsInv, Dropped
<1>7. CASE ExecCommand
  <2>1. SUFFICES ASSUME MustDrop, pc' = "command" PROVE ListIsDropped'
    BY <1>7, <1>g, Steps DEF CapsInv
  <2>2. cred' = Exec(cred) /\ Dropped /\ caplist' = caplist
    BY <1>7, <1>t, <2>1 DEF ExecCommand, CapsInv
  <2>3. /\ cred'.bnd = cred.bnd /\ cred'.uid = cred.uid
        /\ cred'.prm = IF cred.uid = Root THEN cred.inh \cup cred.bnd ELSE cred.amb
    BY <1>t, <2>2 DEF Exec, Cred
  <2> QED
    BY <1>g, <2>2, <2>3 DEF Dropped, ListIsDropped
<1>8. CASE UNCHANGED vars
  BY <1>8, <1>g, <1>t DEF vars, CapsInv, Dropped, ListIsDropped
<1> QED
  BY <1>1, <1>2, <1>3, <1>4, <1>5, <1>6, <1>7, <1>8 DEF Next

\* No call before setuid(2) touches the effective set.
LEMMA EffStep == IInv /\ [Next]_vars => EffInv'
<1> SUFFICES ASSUME IInv, [Next]_vars PROVE EffInv'
  OBVIOUS
<1>g. asked' = asked /\ began' = began
  BY GivenStays
<1>t. /\ cred \in Cred /\ asked \in Launches /\ CapsInv /\ EffInv
      /\ (pc = "ids" => calls \in IF asked.skip_setgroups THEN SkipRest ELSE UserRest)
  BY DEF IInv, Typed, TypeOK, CallsInv
<1>1. CASE ReadConfig \/ BuildCaplist \/ SetupSeccomp \/ ExecCommand
  BY <1>1, Steps DEF EffInv
<1>2. CASE DropCaps
  <2>1. cred = began
    BY <1>2, <1>t DEF DropCaps, CapsInv
  <2>2. cred'.eff = cred.eff
    BY <1>2, <1>t DEF DropCaps, ClearInh, LowerAmbient, LeaveBound, Cred
  <2> QED
    BY <1>g, <2>1, <2>2 DEF EffInv
<1>3. CASE SetNoNewPrivs \/ SetSecurebits \/ ChangeUser
  <2>1. cred'.eff = cred.eff
    BY <1>3, <1>t DEF SetNoNewPrivs, SetSecurebits, ChangeUser, ClearGroups, Cred
  <2> QED
    BY <1>3, <1>g, <1>t, <2>1, Steps DEF EffInv
<1>4. CASE SetIds
  <2>1. SUFFICES ASSUME pc' = "ids", ~asked.skip_setgroups PROVE cred'.eff = began.eff
    BY <1>4, <1>g, Steps DEF EffInv
  <2>2. calls \in UserRest /\ cred.eff = began.eff
    BY <1>4, <1>t, <2>1 DEF SetIds, EffInv
  <2>3. Len(calls) # 1
    BY <1>4, <2>1, AfterIs DEF SetIds, NextCall
  <2>4. Head(calls) \in {"setgroups", "setgid"}
    BY <2>2, <2>3, CallSequences DEF UserRest
  <2>5. cred' \in {cred, Applied(Head(calls))}
    BY <1>4 DEF SetIds
  <2> QED
    BY <1>t, <2>2, <2>4, <2>5 DEF Applied, Cred
<1>5. CASE UNCHANGED vars
  BY <1>5, <1>t DEF vars, EffInv
<1> QED
  BY <1>1, <1>2, <1>3, <1>4, <1>5 DEF Next

\* When the user must be changed, a call that leads on has been granted.
LEMMA CallIsGranted ==
  ASSUME IInv, SetIds, MustChange, pc' \in {"ids", "exec"}
  PROVE  cred' = Applied(Head(calls)) /\ NextCall
<1> DEFINE call == Head(calls)
<1>0. /\ calls \in IF asked.skip_setgroups THEN SkipRest ELSE UserRest
      /\ call \in IdCalls
  BY NextOfRest DEF SetIds, IInv, Typed, CallsInv, IdCalls
<1>1. ~Kills(call)
  BY DEF SetIds
<1>2. ~Fakes(call)
  BY <1>0, RulesFromAsked DEF IInv, MustChange
<1>3. ASSUME ~Strict, ~asked.force_panic PROVE Passes(call) /\ Granted(call)
  <2>1. /\ {SETUID, SETGID} \subseteq began.eff /\ Untouched(IdCalls)
        /\ host.setgroups /\ host.mapped
    BY <1>3 DEF MustChange
  <2>2. Passes(call)
    BY <1>0, <2>1, RulesFromAsked DEF IInv
  <2>3. cred.eff = began.eff
    BY <1>3 DEF Strict, IInv, EffInv, SetIds
  <2> QED
    BY <1>0, <2>1, <2>2, <2>3 DEF Granted, Mapped, IdCalls
<1>4. Passes(call) /\ Granted(call)
  BY <1>1, <1>2, <1>3 DEF SetIds
<1> QED
  BY <1>1, <1>4 DEF SetIds

\* What a call leaves of the ids.
LEMMA AppliedIds ==
  ASSUME cred \in Cred
  PROVE  /\ Applied("setgroups").groups = TargetGroups
         /\ Applied("setgroups").gid = cred.gid /\ Applied("setgroups").uid = cred.uid
         /\ Applied("setgid").gid = TargetGid
         /\ Applied("setgid").groups = cred.groups /\ Applied("setgid").uid = cred.uid
         /\ Applied("setuid").uid = TargetUid
         /\ Applied("setuid").groups = cred.groups /\ Applied("setuid").gid = cred.gid
BY DEF Applied, SetUid, Cred

\* Whichever branch of change_user(), the calls are made one after the other and
\* each stays done.
LEMMA UserStep == IInv /\ [Next]_vars => UserInv'
<1> SUFFICES ASSUME IInv, [Next]_vars PROVE UserInv'
  OBVIOUS
<1>g. /\ asked' = asked /\ MustChange' = MustChange
      /\ TargetUid' = TargetUid /\ TargetGid' = TargetGid /\ TargetGroups' = TargetGroups
  BY GivenStays
<1>t. cred \in Cred /\ CallsInv /\ UserInv
  BY DEF IInv, Typed, TypeOK
<1>1. CASE ReadConfig \/ BuildCaplist \/ SetupSeccomp \/ DropCaps \/ SetNoNewPrivs \/ SetSecurebits
  BY <1>1, Steps DEF UserInv
<1>2. CASE ChangeUser
  <2>1. SUFFICES ASSUME MustChange, pc' \in {"ids", "exec"}
                 PROVE  pc' = "ids" /\ calls' \in {SkipCalls, UserCalls}
    <3>1. SkipCalls # <<"setgid", "setuid">> /\ SkipCalls # <<"setuid">>
          /\ SkipCalls # <<"setuid", "setgroups">> /\ SkipCalls # <<"setgroups">>
      BY DEF SkipCalls
    <3>2. UserCalls # <<"setgid", "setuid">> /\ UserCalls # <<"setuid">>
          /\ UserCalls # <<"setuid", "setgroups">> /\ UserCalls # <<"setgroups">>
      BY DEF UserCalls
    <3> QED
      BY <1>2, <1>g, <2>1, <3>1, <3>2, Steps DEF UserInv
  <2>2. ~Kills("setgroups")
    BY <1>2, <2>1 DEF ChangeUser
  <2>3. Branch \in {"skip", "calls"}
    <3>1. asked.user.how \in {"uid", "name"}
      BY <2>1 DEF MustChange, UserAsked
    <3>2. CASE asked.skip_setgroups
      BY <1>2, <2>1, <2>2, <3>1, <3>2 DEF ChangeUser, AfterBranch, Branch
    <3>3. CASE ~asked.skip_setgroups /\ asked.user.how = "uid"
      BY <3>3 DEF Branch
    <3>4. CASE ~asked.skip_setgroups /\ asked.user.how = "name"
      <4>1. host.known /\ (host.line # "gone" \/ asked.force_panic)
        BY <2>1, <3>4 DEF MustChange, Strict
      <4>2. CASE host.line # "gone"
        BY <3>4, <4>1, <4>2 DEF Branch
      <4>3. CASE host.line = "gone"
        <5>1. Branch = "warning" /\ asked.force_panic
          BY <3>4, <4>1, <4>3 DEF Branch
        <5>2. pc' = "stopped"
          BY <1>2, <2>2, <5>1 DEF ChangeUser, AfterBranch, AfterWarning
        <5> QED
          BY <2>1, <5>2
      <4> QED
        BY <4>2, <4>3
    <3> QED
      BY <3>1, <3>2, <3>3, <3>4
  <2> QED
    BY <1>2, <2>1, <2>2, <2>3 DEF ChangeUser, AfterBranch, AfterWarning
<1>3. CASE SetIds
  <2>1. SUFFICES ASSUME MustChange, pc' \in {"ids", "exec"} PROVE UserInv'
    BY <1>3, <1>g, Steps DEF UserInv
  <2>2. /\ cred' = Applied(Head(calls)) /\ calls' = Tail(calls) /\ pc = "ids"
        /\ pc' = IF Len(calls) = 1 THEN "exec" ELSE "ids"
    BY <1>3, <2>1, CallIsGranted, AfterIs DEF NextCall, SetIds
  <2>3. calls \in SkipRest \cup UserRest
    BY <1>3, <2>2, <1>t DEF CallsInv
  <2>l. /\ <<"setgid", "setuid">> # <<"setuid">>
        /\ <<"setuid", "setgroups">> \notin {<<"setgid", "setuid">>, <<"setuid">>, <<"setgroups">>}
        /\ <<"setgid", "setuid">> \notin {<<"setuid", "setgroups">>, <<"setgroups">>}
        /\ <<"setuid">> \notin {<<"setuid", "setgroups">>, <<"setgroups">>}
        /\ <<"setgroups">> \notin {<<"setgid", "setuid">>, <<"setuid">>}
    OBVIOUS
  <2> USE <1>g, <1>t, <2>1, <2>2, <2>l, AppliedIds, CallSequences DEF UserInv, TargetIsSet
  <2>4. CASE calls = SkipCalls
    <3>1. pc' = "ids" /\ calls' = <<"setuid", "setgroups">> /\ cred' = Applied("setgid")
      BY <2>4
    <3> QED
      BY <3>1
  <2>5. CASE calls = <<"setuid", "setgroups">>
    BY <2>5
  <2>6. CASE calls = <<"setgroups">>
    BY <2>6
  <2>7. CASE calls = UserCalls
    BY <2>7
  <2>8. CASE calls = <<"setgid", "setuid">>
    BY <2>8
  <2>9. CASE calls = <<"setuid">>
    BY <2>9
  <2> QED
    BY <2>3, <2>4, <2>5, <2>6, <2>7, <2>8, <2>9 DEF SkipRest, UserRest
<1>4. CASE ExecCommand
  <2>1. cred'.uid = cred.uid /\ cred'.gid = cred.gid /\ cred'.groups = cred.groups
    BY <1>4, <1>t DEF ExecCommand, Exec, Cred
  <2> QED
    BY <1>4, <1>g, <1>t, <2>1, Steps DEF UserInv, TargetIsSet
<1>5. CASE UNCHANGED vars
  BY <1>5, <1>g, <1>t DEF vars, UserInv, TargetIsSet
<1> QED
  BY <1>1, <1>2, <1>3, <1>4, <1>5 DEF Next

\* A line that is gone ends ruri, when that is an error.
LEMMA LineStep == IInv /\ [Next]_vars => LineInv'
<1> SUFFICES ASSUME IInv, [Next]_vars, MustChange, pc' \in {"ids", "exec", "command"},
                    ~Strict, host.line = "gone"
             PROVE  FALSE
  BY GivenStays DEF LineInv, Strict
<1>1. pc \notin {"ids", "exec", "command"}
  BY DEF IInv, LineInv
<1>2. ChangeUser
  BY <1>1, Steps DEF Next, vars
<1>3. asked.force_panic /\ host.known /\ asked.user.how = "name" /\ ~asked.skip_setgroups
  BY DEF MustChange, UserAsked, Strict
<1>4. Branch = "warning"
  BY <1>3 DEF Branch
<1>5. pc' \in {"stopped", "killed"}
  BY <1>2, <1>3, <1>4 DEF ChangeUser, AfterBranch, AfterWarning
<1> QED
  BY <1>5

\* No call takes a flag back, and the two that set one have what they need.
LEMMA LockStep == IInv /\ [Next]_vars => LockInv'
<1> SUFFICES ASSUME IInv, [Next]_vars PROVE LockInv'
  OBVIOUS
<1>g. asked' = asked /\ began' = began /\ Untouched({"prctl"})' = Untouched({"prctl"})
  BY GivenStays DEF Untouched
<1>t. /\ cred \in Cred /\ asked \in Launches /\ LockInv /\ EffInv
      /\ Untouched({"prctl"}) => Passes("prctl")
  BY RulesFromAsked DEF IInv, Typed, TypeOK
<1>1. CASE ReadConfig \/ BuildCaplist \/ SetupSeccomp \/ DropCaps
  BY <1>1, Steps DEF LockInv
<1>2. CASE SetNoNewPrivs
  <2>1. Passes("prctl") /\ asked.no_new_privs => cred'.nnp
    BY <1>2, <1>t DEF SetNoNewPrivs, Cred
  <2> QED
    BY <1>2, <1>g, <1>t, <2>1, Steps DEF LockInv
<1>3. CASE SetSecurebits
  <2>1. cred'.nnp = cred.nnp
    BY <1>3, <1>t DEF SetSecurebits, Cred
  <2>2. Passes("prctl") /\ SETPCAP \in began.eff /\ ~asked.systemd_mode => cred'.noraise
    BY <1>3, <1>t DEF SetSecurebits, MayDrop, EffInv, Cred
  <2> QED
    BY <1>3, <1>g, <1>t, <2>1, <2>2, Steps DEF LockInv
<1>4. CASE ChangeUser \/ SetIds \/ ExecCommand
  <2>1. cred'.nnp = cred.nnp /\ cred'.noraise = cred.noraise
    <3>1. CASE ChangeUser
      BY <1>t, <3>1 DEF ChangeUser, ClearGroups, Cred
    <3>2. CASE SetIds
      <4>1. Head(calls) \in {"setgroups", "setgid", "setuid"}
        BY <3>2, NextOfRest DEF SetIds, IInv, Typed, CallsInv
      <4>2. cred' \in {cred, Applied(Head(calls))}
        BY <3>2 DEF SetIds
      <4> QED
        BY <1>t, <4>1, <4>2 DEF Applied, SetUid, Cred
    <3>3. CASE ExecCommand
      BY <1>t, <3>3 DEF ExecCommand, Exec, Cred
    <3> QED
      BY <1>4, <3>1, <3>2, <3>3
  <2> QED
    BY <1>4, <1>g, <1>t, <2>1, Steps DEF LockInv
<1>5. CASE UNCHANGED vars
  BY <1>5, <1>g, <1>t DEF vars, LockInv
<1> QED
  BY <1>1, <1>2, <1>3, <1>4, <1>5 DEF Next

LEMMA Invariant == Spec => []IInv
<1>1. IInv /\ [Next]_vars => IInv'
  BY TypedStep, DenialsStep, FilterStep, CapsStep, EffStep, UserStep, LineStep,
     LockStep DEF IInv
<1> QED
  BY <1>1, IInvInit, PTL DEF Spec

-----------------------------------------------------------------------------
\* The command has lost what is on drop_caplist and nothing else, for every list and
\* whatever the process began with (drop_caps(), change_user()).
THEOREM CapabilitiesAreDropped == Spec => []CommandKeepsToCaplist
<1>1. IInv => CommandKeepsToCaplist
  BY DEF IInv, CapsInv, MustDrop, CommandKeepsToCaplist
<1> QED
  BY <1>1, Invariant, PTL

\* A line that is not misread gives the user that was asked for.
LEMMA TargetIsUser ==
  ASSUME asked \in Launches, UserAsked, ~IsMisread, TargetIsSet,
         Strict \/ host.line # "gone"
  PROVE  UserIsWhole
<1>1. CASE Strict
  BY <1>1 DEF TargetIsSet, UserIsWhole, TargetUid, TargetGid
<1>2. CASE ~Strict
  <2>1. ~asked.skip_setgroups /\ host.line \notin {"no_gid", "cut", "word"}
    BY <1>2 DEF Strict, IsMisread
  <2>2. TargetUid = asked.user.id /\ TargetGid = GidOf[asked.user.id]
    BY <1>2, <2>1 DEF TargetUid, TargetGid
  <2> QED
    BY <1>2, <2>2 DEF TargetIsSet, UserIsWhole
<1> QED
  BY <1>1, <1>2

\* The command never runs as half of the user that was asked for (change_user()).
THEOREM UserIsAllOrNothing == Spec => []AskedUserIsWhole
<1>1. IInv => AskedUserIsWhole
  BY TargetIsUser DEF IInv, Typed, TypeOK, UserInv, MustChange, AskedUserIsWhole
<1> QED
  BY <1>1, Invariant, PTL

\* The filters that were asked for are in force (ruri_setup_seccomp()).
THEOREM FiltersStay == Spec => []FilterIsInForce
<1>1. IInv => FilterIsInForce
  BY DEF IInv, FilterInv, MustLoad, FilterIsInForce
<1> QED
  BY <1>1, Invariant, PTL

\* The flags that outlive exec(3) are set while they still can be
\* (ruri_run_chroot_container()).
THEOREM FlagsAreLocked == Spec => []CommandIsLocked
<1>1. IInv => CommandIsLocked
  BY DEF IInv, LockInv, CommandIsLocked
<1> QED
  BY <1>1, Invariant, PTL

\* With ruri_force_panic() set no failed call leaves a privilege behind.
THEOREM ForcePanicIsStrict == Spec => []ForcePanicKeepsNothing
<1>1. ASSUME IInv, pc = "command", asked.force_panic
      PROVE  ForcePanicKeepsNothing
  <2>1. UserAsked /\ host.known /\ Unfaked(IdCalls) /\ ~IsMisread => UserIsWhole
    BY <1>1, TargetIsUser DEF IInv, Typed, TypeOK, UserInv, LineInv, MustChange
  <2> QED
    BY <1>1, <2>1 DEF IInv, CapsInv, MustDrop, FilterInv, MustLoad, ForcePanicKeepsNothing
<1>2. IInv => ForcePanicKeepsNothing
  BY <1>1 DEF ForcePanicKeepsNothing
<1> QED
  BY <1>2, Invariant, PTL
=============================================================================
