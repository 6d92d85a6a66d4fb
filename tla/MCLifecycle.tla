----------------------------- MODULE MCLifecycle -----------------------------
(***************************************************************************)
(* Instances of Lifecycle for TLC.                                         *)
(***************************************************************************)
EXTENDS Lifecycle

Base == [mode |-> "chroot", pidFile |-> TRUE, timeout |-> FALSE,
         autoUmount |-> FALSE, umountOnPanic |-> FALSE, forkAsInit |-> FALSE,
         rurienv |-> TRUE, forkMayFail |-> FALSE, daemonMayFail |-> FALSE,
         noSocket |-> FALSE, noSync |-> FALSE, selfBind |-> TRUE,
         noQemu |-> FALSE, killable |-> FALSE]

Modes == {"chroot", "unshare", "join", "rootless"}

\* Every mode with every combination of the options that interact, and somebody
\* who may kill ruri.
OptionConfigs ==
  {[Base EXCEPT !.mode = m, !.timeout = t, !.autoUmount = a, !.umountOnPanic = p,
                !.forkAsInit = f, !.killable = TRUE] :
     m \in Modes, t \in BOOLEAN, a \in BOOLEAN, p \in BOOLEAN, f \in BOOLEAN}
  \cup {[Base EXCEPT !.mode = m, !.timeout = t, !.autoUmount = TRUE, !.pidFile = FALSE] :
     m \in Modes, t \in BOOLEAN}

\* The helpers may fail to start.
HelperConfigs ==
  {[Base EXCEPT !.mode = m, !.timeout = t, !.umountOnPanic = p, !.forkAsInit = m = "chroot",
                !.forkMayFail = f, !.daemonMayFail = d] :
     m \in {"chroot", "rootless"}, t \in BOOLEAN, p \in BOOLEAN, f \in BOOLEAN, d \in BOOLEAN}

\* A socket, a pipe or a mount that cannot be had, or no QEMU.
MissingConfigs ==
  {[Base EXCEPT !.mode = m, !.timeout = t, !.autoUmount = a, !.umountOnPanic = ~a,
                !.noSocket = k = "socket", !.noSync = k = "pipe", !.noQemu = k = "qemu",
                !.selfBind = k # "mount"] :
     m \in Modes, t \in BOOLEAN, a \in BOOLEAN, k \in {"socket", "pipe", "qemu", "mount"}}
  \cup {[Base EXCEPT !.mode = m, !.noQemu = TRUE] : m \in Modes}

AllConfigs == OptionConfigs \cup HelperConfigs \cup MissingConfigs

\* For what the documentation says.
TimeoutConfig    == {[Base EXCEPT !.timeout = TRUE]}
=============================================================================
