------------------------------ MODULE StackFs ------------------------------
(***************************************************************************)
(* Mounting the stackable filesystem (super.c) as built for a kernel from  *)
(* 2.6.39 on, the branch this repository's kernel 3.6 compiles:            *)
(* dazukofs_get_sb is mount_nodev with dazukofs_fill_super, and dev_name   *)
(* is not used.  dazukofs_read_super, which would stack the root on the    *)
(* lower directory, is only called in the branch before 2.6.39.            *)
(*                                                                         *)
(* dazukofs_fill_super allocates its root with d_alloc(NULL, &name).  On   *)
(* 3.6 d_alloc begins with __d_alloc(parent->d_sb, name), so a NULL parent *)
(* is dereferenced: once the sb_info allocation succeeded, the mount oopses *)
(* in the mounting task.  That task dies holding s_umount of the new super *)
(* block and the module reference get_fs_type took, so the module can no   *)
(* longer be unloaded.  Everything after line 135 (the root's dentry info, *)
(* the error unwinding, put_super, d_release and umount) is unreachable.  *)
(***************************************************************************)

VARIABLE
  sb     \* "none": no dazukofs super block; "faulted": a mount oopsed in it

svars == <<sb>>

SInit == sb = "none"

-----------------------------------------------------------------------------
\* kmem_cache_zalloc of the sb_info fails: -ENOMEM, nothing was allocated,
\* and mount_nodev tears the fresh super block down.
FillSuperNoSbi == UNCHANGED sb

\* The sb_info is allocated and s_op set; d_alloc(NULL, &name) then reads
\* NULL->d_sb.  The mount never returns.
FillSuperFault == sb' = "faulted"

\* dazukofs_get_sb: mount_nodev(fs_type, flags, data, dazukofs_fill_super).
\* Each mount gets a super block of its own, so a later mount runs the same
\* way whatever an earlier one did.
DazukofsGetSb == FillSuperNoSbi \/ FillSuperFault

SNext == DazukofsGetSb

SSpec == SInit /\ [][SNext]_svars

-----------------------------------------------------------------------------
STypeOK == sb \in {"none", "faulted"}

(***************************************************************************)
(* A mount of dazukofs either succeeds or fails with an error: spec.md has *)
(* "a stackable file-system is mounted over an existing directory tree",   *)
(* and dazukofs_fill_super returns -ENOMEM on each allocation failure.     *)
(* The root allocation of dazukofs_fill_super must not take the kernel     *)
(* down.                                                                   *)
(***************************************************************************)
MountNeverFaults == sb # "faulted"

=============================================================================
