------------------------------ MODULE MCMounts ------------------------------
(* Instances of Mounts. *)
EXTENDS Mounts

CONSTANTS p1, p2, t1

M(s, x, ro) == [source |-> s, at |-> x, ro |-> ro]
Plain == [mounts |-> <<>>, rootfs_source |-> FALSE, just_chroot |-> FALSE,
          mount_host_runtime |-> FALSE, ro_root |-> FALSE, masks |-> {"builtin"},
          use_rurienv |-> TRUE, is_health_check |-> FALSE, qemu_path |-> "none"]

\* Between them they take every branch; several differ from Plain in two respects.
MCSettings ==
  { [Plain EXCEPT !.mounts = <<M("dir", t1, TRUE)>>],
    [Plain EXCEPT !.mounts = <<M("file", t1, FALSE)>>, !.masks = Masks,
                  !.use_rurienv = FALSE],
    [Plain EXCEPT !.mounts = <<M("special", t1, TRUE), M("image", t1, TRUE)>>,
                  !.just_chroot = TRUE],
    [Plain EXCEPT !.mounts = <<M("typed_image", t1, FALSE), M("typed", t1, TRUE)>>,
                  !.rootfs_source = TRUE, !.mount_host_runtime = TRUE],
    [Plain EXCEPT !.mounts = <<M("block", t1, FALSE)>>, !.qemu_path = "copied", !.ro_root = TRUE],
    [Plain EXCEPT !.mounts = <<M("other", t1, FALSE)>>, !.qemu_path = "missing",
                  !.is_health_check = TRUE] }

Symmetry == Permutations(Procs)

MCContents == {[t \in Trees |-> [x \in Targets |-> e]] : e \in Entries \ {"dir"}}
=============================================================================
