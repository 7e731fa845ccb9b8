# TLA+ models of dazukofs

dazukofs is a stackable Linux filesystem that lets userspace policy processes
allow or deny every file open on the mount.  This directory holds TLA+
models of its access-arbitration core, of the precheck that decides whether
an access is mediated at all (ignore registry and recursion mask), of the
control device (its command parser and its group listing), of module
load and unload, and of the mount that faults on 3.6, with the TLC configurations that check them and the
findings they produce.  PROJECT.json lists the components, the
runs, the seeded faults (mutants), the map from every definition to the
source lines it models, the findings and the hazards.

## 1. The system

| Part | Source | State | Operations |
|---|---|---|---|
| Arbitration engine | `src/event.c` (`dazukofs_check_access`, `assign_event_to_groups`, `release_event`, `claim_event`, `unclaim_event`, `open_file`, `dazukofs_get_event`, `dazukofs_return_event`, `dazukofs_poll`) | events (`assigned`, `deny`, `deprecated`), containers on each group's `todo_list` / `working_list`, `last_event_id` | fan an event out to every group, wait, claim, open the file for the policy process, answer, repost, release |
| Group registry | `src/event.c` (`dazukofs_add_group`, `__check_for_group`, `__create_group`, `dazukofs_remove_group`, `__remove_group`, `dazukofs_group_open_tracking`, `dazukofs_group_release_tracking`) | `group_list`, `group_count`, per group `use_count`, `tracking`, `track_count`, `deprecated` | add (reaping unused deprecated groups, searching a free id), remove, count tracked opens, auto-remove a tracking group on its last close |
| Group devices | `src/group_dev.c` | a file's `private_data` (counted as tracked or not) | open, release, read (`id=..\nfd=..\npid=..`), write (`id=..\nr=..`), poll |
| Control device | `src/ctrl_dev.c` | the 32-byte stack buffer of one write | `del=`, `add=`, `addtrack=` parsed by `process_command`; read lists the groups |
| Module load and device registration | `src/dev.c`, `ctrl_dev.c`, `ign_dev.c`, `group_dev.c` (init/destroy), `event.c` (`dazukofs_init_events`, `dazukofs_destroy_events`), `super.c` (`init_dazukofs_fs`, `exit_dazukofs_fs`) | chrdev region, class, cdevs and device nodes, slab caches, the registered filesystem | load in order, unwind on failure, unload |
| Ignore registry | `src/ign_dev.c` | `ign_list` of slab objects holding a pid; each open file's `private_data` | open/release of the ignore device, `dazukofs_check_ignore_process` |
| Recursion mask | `src/event.c` (`mask_proc`, `check_recursion`) | `proc_list` | mask the policy thread while `open_file` opens the subject |
| Stackable filesystem | `src/super.c` (`dazukofs_get_sb`, `dazukofs_fill_super` up to its `d_alloc`); the rest of `super.c`, `dentry.c`, `file.c`, `inode.c`, `mmap.c` not modelled | whether a mount oopsed | mount: the sb_info allocation fails, or `d_alloc(NULL, ...)` dereferences NULL (super.c:135); nothing after it runs on 3.6 |

How they interact: an opener (a *requester*) calls `dazukofs_check_access`,
which under `group_count_sem` (read) allocates `group_count` containers,
then under `work_mutex` gives the event a fresh id and puts one container on
the `todo_list` of every non-deprecated group, and sleeps uninterruptibly
until the event's `assigned` count is 0.  A policy thread (a *worker*)
reading group device `<name>.<k>` finds the group with id `k`, takes a
`use_count` reference, claims the head of `todo_list` onto `working_list`,
drops `work_mutex`, opens the file for itself (`open_file`) and reports the
event.  Its write finds the container again on `working_list`, unlinks it
and calls `release_event`, which or-s in `deny` and decrements `assigned`.
The controller's `del=` and the last close of a tracking group's device
call `__remove_group`, which marks the group deprecated, decrements
`group_count` and drains both lists, releasing each event.

Locks: `group_count_sem` (rwsem: check_access reads, add/del write),
`work_mutex` (lists, `last_event_id`), `evt->assigned_mutex`, `proc_mutex`,
`ign_list_mutex`.  `check_access_precheck` tests, in order, `group_count
== 0`, the recursion mask (`check_recursion`, which also unlinks the frame)
and the ignore registry; a policy thread's `open_file` links a frame for its
pid on `proc_list` so that the `dazukofs_open` that `dentry_open` reaches is
not mediated, and removes it itself if that precheck did not.
`use_count` is an atomic that keeps a group structure
from being reaped while a thread uses it without `work_mutex`.

### What is hard to test here

* Steps of several threads between two `work_mutex` sections: a container
  claimed by a worker and freed by a concurrent removal (event.c:1158,
  event.c:928).
* `group_count` is written under two different locks (event.c:252 under
  `work_mutex` only on the close path, event.c:458 under `group_count_sem`
  only), and `check_access` trusts it for both "any groups?" and the
  container count.
* Tracking is keyed by the device's group id at close time, not by the
  structure counted at open (event.c:838).
* All threads of a group wake for one event and race to claim it; only
  the second test under `work_mutex` in `claim_event` keeps one container
  from going to two of them (event.c:954).  `unclaim_event` puts a
  container back at the head of `todo_list`, so reposts overtake waiting
  events (event.c:865).
* A thread asleep in `poll` stays on a group's `poll_queue` after
  `dazukofs_poll` dropped its reference (event.c:1103).
* The ignore registry removes by pid, not by entry, and reads the pid
  through a `private_data` that another close may have freed
  (ign_dev.c:94).
* `dazukofs_fill_super` passes a NULL parent to `d_alloc`, which on 3.6
  reads `parent->d_sb` first; the mounting task dies holding `s_umount`
  and the module reference (super.c:135).
* `process_command`'s name scan treats NUL as a name byte
  (ctrl_dev.c:84, 102).
* Progress: the requester's wait is uninterruptible, so any lost container
  or release, and any policy process that exits holding an event, hangs the
  opener.

### Correctness properties of the core

* Each live event's `assigned` equals its linked containers plus the group
  releases in flight; no container refers to a freed event.
* The verdict is DENY exactly when some group it was fanned out to denied,
  and the requester returns only after every such group answered or was
  removed.
* `use_count` counts exactly the threads using the group plus its tracked
  opens; `track_count` counts the tracked opens.
* `group_count` equals the number of active groups whenever nobody is in
  the middle of updating it.
* Names and ids are unique among active groups and ids are below
  `GROUP_COUNT`.
* Each group's `todo_list` holds the reposted containers first, then the
  never-claimed ones in ascending event id.
* Every container on a `working_list` is held by exactly one thread of
  that group's device, from the claim until its answer or its requeue;
  with closes, by at most one.
* Every `check_access` eventually returns.
* The whole of it: every step implements `ArbitrationAbstract` (below).
* The precheck: a thread's access is mediated exactly when groups exist and
  the thread does not hold the ignore device open; `open_file`'s own open
  never is; the mask lives exactly as long as `open_file`.
* The control device: a write of one command calls that command's group
  function once with exactly its name; the parser touches only the bytes
  written; reads to the end return exactly `<id>:<name>\n` for each
  active group.
* Module load: whichever call fails, the goto chains destroy exactly what
  was created; unload destroys everything; each device minor reaches its
  own cdev.

## 2. Modules

### `Arbitration.tla`

Models the arbitration engine, the group registry, the group devices and
the control device together, because their interactions are the hard part.
Three kinds of processes:

* **Requesters** (`CheckAccessPrecheck`, `AssignEventToGroups`,
  `CheckAccessReturn`): `dazukofs_check_access` split at the points where
  it takes or drops a lock.  The precheck step also covers the early return
  when `group_count` is 0 and the `-ENOMEM` return of the allocation.
* **Controller**, running the constant script `CtrlScript` of
  `add` / `addtrack` / `del` commands: `AddGroup` is the `__check_for_group`
  passes (`AddSearch` and the recursive `CheckForGroup`), the `GROUP_COUNT`
  check and `__create_group` (success, `-ENOMEM`, `-EPERM`, or an existing
  group).  `AddGroupLink` is the `list_add_tail` under `work_mutex`.
  `AddGroupLoad` and `AddGroupInc` are the load and the store of
  `group_count++`, which the code runs outside `work_mutex`.
  `RemoveGroup` is `dazukofs_remove_group` with `__remove_group`.
* **Workers**, each a policy thread bound to device `WorkerDev[w]`:
  * `GroupOpen` and `GroupRelease` are the device open and close.  The
    close is split at the non-atomic `group_count--` of `__remove_group`
    (`ReleaseTrackingRemove`).
  * `GetEventStart`, `GetEventInterrupted`, `GetEventInvalid`,
    `ClaimEvent`, `OpenFileOk` / `OpenFileFails` and
    `GetEventDeliver` / `GetEventFault` (copy_to_user failing, which
    REPOSTs) are `dazukofs_get_event` with `dazukofs_group_read`.
  * `ReturnEventFind` and `ReturnEventRelease` are `dazukofs_return_event`
    (ALLOW, DENY, or REPOST after a failed read), and `UnclaimEvent` is
    `unclaim_event`.
  * `DazukofsPoll` is `dazukofs_poll` (reference taken and dropped, poll
    table left on `poll_queue`); `PollFreeWait` is the end of the poll
    system call unlinking it, and `PollUseAfterFree` the same step when
    the group was reaped meanwhile (`GroupFreed`).  `MayPoll` switches
    poll on.

State:
* Group structures are the numbered objects `GObjs`, one per add command,
  so a re-added group is a new object with possibly the same id.
  `glist` is `group_list` and `grp[g]` the structure.
* Events are `ev[e]` for ids `1..MaxRequests*|Requesters|`.
* A container is the pair `<<e, g>>` and exists exactly while it is linked
  (`Linked`).
* Lock holders across steps are `rdSem` (readers of `group_count_sem`),
  `wrSem` (the writer) and `workOwner` (a closer holding `work_mutex`
  between the load and the store of `group_count--`).
* The history variables `fanned`, `answered`, `drained` and `outcome`
  record each event's fan-out, answers, removals and verdict.
* `topen` is a ghost variable: the structure a tracked open counted on.
* `requeued` is a ghost variable: the linked containers that
  `unclaim_event` put back.  A container leaves it when it is answered or
  drained.  No guard reads it, so the liveness run leaves it out of the
  state with `VIEW MC_LiveView`; states that differ only in it have the
  same successors, so the quotient is exact.
* `pollq[w]` is the group whose `poll_queue` thread `w`'s poll table is on.

Undefined behaviour is made visible.  A worker whose next step would
dereference a container that a removal freed (pc `ge_open`, `ge_report` or
`unclaim` with the container no longer linked) takes `UseAfterFree` to pc
`ub` and stops there; a poll whose group was freed goes to `ub_poll`.

The end of the module instantiates `ArbitrationAbstract` as `Abs` with a
refinement mapping: an event is `waiting` from its fan-out
(`e <= last_event_id`) until `outcome[e]` is set; its pending groups
(`AbsPending`) are those whose lists link it plus the group of every thread
in `InFlight(e)` (between unlinking the container and `release_event`);
`deny` is `ev[e].deny` and the verdict is `outcome`.
`AbstractArbitration == Abs!ASpec` is checked as a property.

### `ArbitrationAbstract.tla`

What `dazukofs_check_access` promises per event, without lists, threads or
locks: `Post(e, G)` to a set of groups, `Answer(e, g, d)` by a pending
group (deny only grows), `Drop(g, E)` when group `g` is removed with events
`E` pending, and `Return(e)` once nothing is pending, with the verdict the
or of the answers.  Removal draining several events in one step is why
`Drop` takes a set.

### `AccessPrecheck.tla`

The ignore registry (`ign_dev.c`), the recursion mask (`event.c`
`mask_proc`, `check_recursion`, `open_file`) and `check_access_precheck`,
for a set of threads (a `struct pid` per thread, as `task_pid` is).
* Ignore entries are the objects `Objs` of the slab cache; `ign` is
  `ign_list` (head first), `opid[o]` is what object `o`'s `proc_id` field
  holds (it survives `kmem_cache_free` and is overwritten when the slab
  hands `o` out again), `slabFree` the unallocated objects, and
  `priv[f]` each ignore file's `private_data`.
* `IgnOpen` is `dazukofs_add_ign` (an open with the cache exhausted fails
  with `-ENOMEM` and changes nothing); `IgnRelease` is
  `dazukofs_remove_ign`, reading the pid through `private_data` even when
  that object was freed, and freeing the first object with that pid.
* `Access(t)` is a thread's own open on dazukofs (`dazukofs_open` ->
  `dazukofs_check_access` -> the precheck); the ghost `dec[t]` records its
  verdict with what the ignore device promises (`want`).
* `OpenFileMask`, `DentryOpenHook` / `DentryOpenFails` and
  `OpenFileUnmask` are `open_file`: `mask_proc`, `dentry_open` with or
  without reaching `dazukofs_open`'s precheck, and the `within_list`
  cleanup.  The ghost `recEv` records an event made for `open_file`'s own
  open.
* `GroupCountChange` flips whether groups exist; the precheck reads
  `group_count` under `group_count_sem`, so it sees one value.

### `CtrlWrite.tla`

One `dazukofs_ctrl_write`, byte by byte: `tmp` is the stack array
(`MaxWrite` bytes; 32 in the code), `CtrlWriteCopy` copies at most
`MaxWrite-1` bytes and the NUL, and fills the rest nondeterministically
from `Junk` (uninitialised stack).  `ProcessCommand` / `ProcessNoKey` /
`ProcessSkipped` are the three `process_command` calls in the code's order
(`del=`, `add=`, `addtrack=`), each on the buffer the previous one cut and
patched, with `strstr` (`StrStr`, after `strlen`), the name scan
(`NameEnd`, with `is_valid_char` as `ValidChar`, which includes NUL because
`strchr` finds the terminator) and the name the group function sees
(`CName`, up to the first NUL).  `stray` records every index read or
written beyond `tmp[cp_len]`; a scan off the array ends in phase `oob`.
The group functions' results are `Results` (`dazukofs_remove_group` always
0, `dazukofs_add_group` 0 or an error).

Seeded faults (in `Arbitration`, operators whose names end in `NoDec`,
`Overwrite`, `NoPut`, `NoSem`, `NoIdCheck`, `WorkingOnly`, `Early`, `Lost`,
`IdSkip`, `Tail`, `NoRepost`, `NoDel`; in `AccessPrecheck`, `AnyPid`, `NoRecursion`, `NoNullCheck`,
`NoCheck`; in `CtrlWrite`, `NoRoom`, `KeyShort`; in `GroupList`,
`ShortAdvance`; in `DevLifecycle`, `NoCdevDel`, `SameBase`) are plausible coding
errors of the definition that follows each one.  They are
used only by the mutant checks listed in PROJECT.json.

### `GroupList.tla`

`dazukofs_ctrl_open` and `dazukofs_ctrl_read`, with the listing
`dazukofs_get_groups` builds, as operators over a group table (a sequence
of entries with id, name and deprecated flag, in `group_list` order):
`BufLen` is the size estimate, `GetGroups` the `tryagain` loop doubling
`allocsize`, `Fill` the second loop with `Snprintf` (at most `size - 1`
bytes and a NUL) and the fixed advance of `tmp`, `Decimal` the `%lu`
conversion.  `CtrlRead` is one read: the first builds the listing from
whatever table `group_list` holds then (`Tables`: names and ids unique
among active groups) and keeps it in `private_data`; each returns
`min(len, buflen - pos)` bytes or 0 at the end.  `Listing` is the
reference: the entries printed one after another.

### `DevLifecycle.tla`

`init_dazukofs_fs` and `exit_dazukofs_fs`: `dazukofs_dev_init`
(`dazukofs_init_events`, `alloc_chrdev_region`, `class_create`, the
control, ignore and group device inits), `init_caches` and
`register_filesystem`.  `held` is the set of kernel objects created and not
destroyed, `bad` the objects destroyed without being held, and `kobj` the
char-device probe list as `kobj_map` keeps it (sorted by range, newest
first among equal ranges).  Each action is one function's sequence of
calls (`lpc`, `li`); every call that can fail has a failing disjunct that
runs the function's own goto chain and then its callers' (`DevOut3` to
`DevOut6`, `DevDestroy`, `DestroyCaches`) in one step, since module init
is one thread.  `ExitFs` is the unload.

### `StackFs.tla`

The mount as the branch for kernels from 2.6.39 on (the one 3.6 compiles)
builds it: `dazukofs_get_sb` is `mount_nodev` with `dazukofs_fill_super`
(`DazukofsGetSb`).  `fill_super` either fails its sb_info allocation
(`FillSuperNoSbi`, `-ENOMEM`, and `mount_nodev` drops the fresh super
block) or sets `s_op` and calls `d_alloc(NULL, &name)`, which on 3.6
begins with `__d_alloc(parent->d_sb, name)` and oopses (`FillSuperFault`).
The only state is `sb`, `"none"` or `"faulted"`.  The task that oopsed
never drops `s_umount` nor the module reference `get_fs_type` took, so
the module stays loaded.  Every line after super.c:135 (the dentry info,
the error unwinding, `put_super`, `d_release`, umount) is unreachable;
`dazukofs_read_super`, which would stack the root on `dev_name`, is
never called in this branch either (the code marks it `FIXME!`).

### `MC_Arbitration.tla`

Model values for requesters, workers and names, the worker-to-device maps
(`MC_DevSplit`: one thread on `.0` and one on `.1`; `MC_DevShared`: both on
`.0`), and the control scripts of the runs.  `MC_AccessPrecheck.tla`
gives three threads, three ignore-file slots and two slab objects, with
each thread owning one slot (`MC_OwnerOnce`) or one thread owning two
(`MC_OwnerTwice`).  `MC_CtrlWrite.tla` builds the written byte sequences
from the three keys, names of up to two bytes and a final newline, space,
other byte, or nothing, and composes the control device with the module's
life (`DeviceSpec`): a file can be opened once `device_create` made the
control node and `kobj` routes minor 0 to its cdev, a write may start
while init goes on, reads start once the module is loaded, and unload
waits for the open file (it holds the module).  An open file is used for
one write or for reads to its end, so the two add up instead of
multiplying.  A mount can be attempted once `register_filesystem`
has run; after one that oopsed the module is never unloaded, since
`get_fs_type` took a reference on it that is never dropped.

## 3. Runs

| Run | Expect | Script, bounds | Shows |
|---|---|---|---|
| `core` | pass | `add a, add b, del a, add a`, 2 requesters x 1 open, 2 threads on `.0`/`.1`, no close, `MaxHeld` 2 | `TypeOK`, `AssignedAccounting`, `ArbitrationOutcome`, `GroupRefAccounting`, `TodoOrder`, `WorkingOwned`, `RegistryWellFormed` hold across claims, failed opens, reposts, removal with events pending, reaping and id reuse.  `TodoOrder` shows the order policy threads are handed events: reposts first (head insertion), fresh events behind them in id order.  `WorkingOwned` shows that no error path of `get_event` leaves a claimed container without a holder. |
| `core` (cont.) | | poll on | the same with threads in `poll` while groups are removed and reaped (about 1.2M states, 40 s). |
| `track` | pass | `add a, addtrack a, add b`, both threads on `.0`, closes allowed, no poll | The tracking path (tracked opens, closes with and without auto-removal, removal draining pending events) keeps `AssignedAccounting` and `ArbitrationOutcome`, the two threads woken for one event never both claim it (`ClaimExclusive`), and the run implements `ArbitrationAbstract` (`AbstractArbitration`; about 530k states, 1.5 minutes). |
| `liveness` | pass | `add a, add b, del a`, 2 requesters, `MaxHeld` 1, no close, `FairSpec`, `VIEW MC_LiveView` | `RequestCompletes`: every `check_access` returns (about 29k states, 3 minutes). |
| `uaf` | violation | as `core` | `NoUseAfterFree` fails: a thread polls group `a`, `del a` and `add a` reap and free it, and the poll's end unlinks from the freed `poll_queue` (event.c:1103); with `MayPoll = FALSE` the trace is the other path, `del=` freeing the container a thread is opening or reporting (event.c:1158). |
| `count_race` | violation | as `track`, `.0`/`.1` | `GroupCountAccurate` fails: the tracked close's `group_count--` and the add's `group_count++` lose an update (event.c:252, 458); in the trace the increment is lost, `group_count` is 0 with a group active, and `check_access_precheck` lets opens through unasked (event.c:629).  One more add after that state would leave the count below the active groups and the fan-out past the allocated containers (event.c:674); the trace stops before it. |
| `tracking_reuse` | violation | `addtrack a, del a, addtrack a` | `GroupRefAccounting` fails: the tracked close uncounts by id, so the removed group's `use_count` stays raised forever (event.c:838). |
| `close_strands` | violation | `add a`, both threads on `.0`, closes allowed, `FairSpec` | `RequestCompletes` fails: a thread closes after reading an event and before answering; spec.md section 8 scenario 5 requires close-time reclamation, which `dazukofs_group_release` does not do. |
| `precheck` | pass | 3 threads, one ignore slot each, 2 slab objects | `TypeOK`, `MaskScoped`, `NoRecursiveEvent`, `PrecheckExact` hold while groups come and go, `dentry_open` succeeds or fails, and the third ignore open runs out of objects (about 270k states). |
| `ign_reuse` | violation | 2 threads, thread 1 with two ignore slots | `PrecheckExact` fails in 7 steps: closing slot 1 frees slot 2's object, thread 2's open gets it, closing slot 2 removes thread 2's entry; thread 2 is mediated while it holds the device open (ign_dev.c:94). |
| `ctrl_write` | pass | every one-command write ending in a newline, a space, a byte outside the name set or nothing, names up to 2 bytes, `MaxWrite` 12; every group table of up to 2 entries, reads of 1, 5 and 32 bytes; module load failing at any call, 3 group devices, mounts while loaded | `TypeOK`, `CommandAsWritten` (for writes whose name ends within the bytes copied; the others are `ctrl_bare`'s), `ListingAsRegistered`, `UnwindExact`, `DevicesRouteToOwnCdev` (about 138k states, 30 s). |
| `stack_mount` | violation | one mount | `MountNeverFaults` fails at the first mount whose sb_info allocation succeeds: `d_alloc(NULL, &name)` dereferences NULL (super.c:135). |
| `ctrl_bare` | violation | bare one-command writes, `MaxWrite` 8, junk bytes of every kind | `NoReadPastWrite` fails at the first name scan: it passes the NUL at `tmp[cp_len]` (ctrl_dev.c:84, 102).  With an empty name the same scan turns `add=` into a call with the empty name. |

Each property of a passing run has a mutant in PROJECT.json, and TLC finds
that property violated when the mutant replaces its definition.

### Bounds

Why these bounds are enough:
* Two requesters give two concurrent events, enough to interleave the
  answers and removals of two events.
* Two workers and two or three names give two groups with distinct ids,
  one removal and one re-add (id reuse), and two threads on the same
  device.
* `GROUP_COUNT` is 2 instead of 10.  The id
  search and the `-EPERM` check behave the same at any limit, and a small
  limit makes the limit reachable.
* `MaxRequests` 1 bounds event ids; the reproducible bugs need only one
  event each.
* `MaxHeld` bounds how many read but unanswered events a thread holds
  when it reads again.  It is 2 in the safety runs and 1 under fairness,
  because the example policy `src/test/showfiles.c` answers each event
  before reading the next.
* Poll is off (`MayPoll`) in `track` and the liveness runs: it adds no step
  that changes the arbitration, and it multiplies the states.
* `AccessPrecheck`: three threads with one slot each and two objects make
  the cache run out and two threads ignored at once; the bug needs one
  thread with two slots, a second thread and as many objects as slots
  open at once.
* `CtrlWrite`: `MaxWrite` 12 holds the longest command with a 2-byte name
  and its terminator ("addtrack=ab" plus one byte is cut), 8 leaves room
  for junk after every bare command but the longest.  Names of 1 and 2
  bytes and the byte after them are what the scan and the NUL cut tell
  apart; longer names repeat the same steps.
* `GroupList`: `AllocStart` 6 stands for the 256 bytes of the code, so that
  a table of one group with a 2-byte name needs exactly `allocsize` bytes
  (the `<` case) and every larger table makes `tryagain` double once or
  twice.  Ids are below `GROUP_COUNT`, as a correct `group_count` keeps
  them (10 in the code: one digit).
* `DevLifecycle`: 3 group devices make the group cdev ranges overlap
  three ways, and each of the two loops in `dazukofs_group_dev_init` fail
  at its first, middle and last pass.

* `StackFs`: no bound; each mount makes a new anonymous super block, and
  they share nothing but the module reference.

### Deadlock checking

All runs say `CHECK_DEADLOCK FALSE`.  A control-device behaviour is one
write or one file read to its end, with a module load that ends loaded,
failed or unloaded; `AccessPrecheck` never stops.  `Arbitration`
really does stop:
* once the script and the requests are done, threads block in `get_event`
  forever;
* a requester whose group has no serving thread, or whose thread stopped
  at a use after free, waits forever in its uninterruptible `wait_event`.

Progress is checked as the liveness property instead.

### Fairness

`FairSpec` assumes:
* **Kernel paths continue.** A thread between two steps of one system
  call makes progress (weak fairness): the fan-out, the requester's
  return, the add steps, `ReleaseTrackingRemove`, `UnclaimEvent`,
  `ReturnEventRelease`, `GetEventInvalid` and the REPOST write.
* **Policy processes keep serving.** They open their device, read, and
  answer what they read.  A read is modelled at offset 0, as `pread(2)` does: with `read(2)` the
  second read on one open file returns 0 (`*pos > 0`, group_dev.c:61),
  so a process serving more than one event per open must use `pread(2)`.
* **Steps that race an environment failure are strongly fair.** These
  are the read, the claim, a successful open, delivery, and the answer.
  The failures they race are a signal, `dentry_open` failing,
  `copy_to_user` failing, and the thread going back to reading, so the
  steps are only intermittently enabled.
* **Never forced.** Closes, failures, signals and the controller's
  commands.

## 4. Not modelled (yet), and the plan

1. The order of `todo_list` is checked (`TodoOrder`), but against what
   the code does, not against spec.md 5, which promises fan-out order:
   `unclaim_event` puts a container back at the head (as spec.md 4.4
   prescribes), so two threads whose opens fail hand out two events in
   reverse.  The spec contradicts itself there, and no run takes a side.
2. Group ids of 10 or more in the listing: `tmp` advances by
   `name_length + 3`, which assumes one-digit ids, and `ListingAsRegistered`
   fails for a table with id 10; such ids arise only after the
   `count_race` lost update lets more than `GROUP_COUNT` groups in, so the
   run keeps to the ids a correct count allows.  Two threads reading one
   open control file race on `private_data` and leak a listing.
3. The file position of a group device read: `dazukofs_group_read`
   returns 0 once `*pos > 0`, and `lseek` fails without an `llseek` in the
   group fops, so `read(2)` hands out one event per open.  `Arbitration`
   reads as `pread(2)` does; the difference would need a run of its own.
4. Event-id overflow: `last_event_id` is an `int`, so after 2^31 events
   the `unsigned long` id prints with 20 digits.  The answer
   `"id=<E>\nr=<R>\n"` is then cut to 18 bytes before its `r=`, and the
   write fails with `EINVAL` (group_dev.c:108); a long fd and pid also
   overflow the 43-byte read, which REPOSTs the event on every read
   (group_dev.c:79).  `Arbitration` names events by their ids, and the
   text formats are abstracted to ids and verdicts, so the wrap is not
   modelled.
5. `release_event` unlocks `evt->assigned_mutex` after the decrement that
   lets the requester free the event (event.c:200); a use after free only
   if the mutex code touches the lock after another task took it, which is
   below this model's level.
6. A control-device write that is still running when a later step of
   module init fails: the unwinding deletes the cdev and the loader frees
   the module under it; the write model has no state that this
   invalidates.
7. The stackable filesystem below the mount's root: the lookup, create,
   link, unlink, rename and attribute handlers of `inode.c`, the open,
   read, write and release of `file.c`, `mmap.c`'s page copying and
   `dentry.c`'s revalidate, hash and compare.  Each one follows the lower
   dentry of a dentry below the root, and in the build for 3.6 the mount
   oopses before its root exists (`stack_mount`); even past that, the root
   would have no lower dentry, since `dev_name` is never used, so no such
   dentry is ever made: these handlers
   do not run on a mounted dazukofs of this code, and a model of them
   would start from a state the program cannot reach.  The branch for
   kernels before 2.6.39 (`get_sb_nodev`, then `dazukofs_read_super`)
   does stack the root, but it is assigned to `.mount` with the old
   `get_sb` signature, which no kernel both has and calls that way.
   Reading them shows reference counts that would matter once the mount is
   fixed: `dazukofs_statfs` takes a `dget` it never drops (super.c:63);
   from 3.6 on `dazukofs_create` drops the lower mnt and dentry without
   taking them (inode.c:345); `dazukofs_open` and `open_file` take
   references that `dentry_open` no longer consumes (file.c:247,
   event.c:1017); `dazukofs_writepage` never releases the page
   `grab_cache_page` returned (mmap.c:110).
