---------------------------- MODULE DevLifecycle ----------------------------
(***************************************************************************)
(* Loading and unloading the module (super.c init_dazukofs_fs and         *)
(* exit_dazukofs_fs): dazukofs_dev_init (dev.c) with dazukofs_init_events, *)
(* the control, ignore and group devices, then init_caches and            *)
(* register_filesystem.  Every call that can fail may fail, and each      *)
(* failure runs the goto chain of the function it is in and then those of *)
(* its callers.  Module init runs in one thread, so a failure and its     *)
(* unwinding is one step.                                                  *)
(*                                                                         *)
(* A kernel object is a pair <<kind, index>> (index -1 for the singletons, *)
(* the group number for a group's cdev and device).  kobj is the probe    *)
(* list of the char-device major as drivers/base/map.c keeps it: sorted by *)
(* range, the newest first among equal ranges; the minors are relative to *)
(* dev_minor_start, which alloc_chrdev_region(&devt, 0, ...) makes 0.     *)
(***************************************************************************)
EXTENDS Integers, SequencesExt

CONSTANT GROUP_COUNT

ASSUME GROUP_COUNT \in Nat \ {0}

VARIABLES
  held,          \* the kernel objects created and not yet destroyed
  bad,           \* objects destroyed that were not held at the time
  kobj,          \* the probe list: sequence of [c |-> cdev, base, range]
  lpc,           \* the call init_dazukofs_fs is in, or loaded/failed/unloaded
  li             \* the step or loop index within that call

lvars == <<held, bad, kobj, lpc, li>>

Obj(kind) == <<kind, -1>>
GIdx == 0..(GROUP_COUNT - 1)

-----------------------------------------------------------------------------
(* The releases each error label and destroy function performs, in order. *)

EventCaches == <<Obj("group_cache"), Obj("container_cache"), Obj("event_cache")>>
FsCaches == <<Obj("inode_cache"), Obj("sb_cache"), Obj("dentry_cache"),
              Obj("file_cache")>>

\* The objects of s that the code tests for NULL first (kmem_cache_destroy
\* only of a created cache).
IfCreated(s) == SelectSeq(s, LAMBDA r : r \in held)

\* dazukofs_destroy_events: no group exists during init or after the device
\* layer is gone, so only the three caches are destroyed.
DestroyEvents == EventCaches
CtrlDestroy == <<Obj("ctrl_dev"), Obj("ctrl_cdev")>>
\* dazukofs_ign_dev_destroy; destroy_ignlist finds the list empty.
IgnDestroy == <<Obj("ign_dev"), Obj("ign_cdev"), Obj("ign_cache")>>
GDevs(n) == [j \in 1..n |-> <<"group_dev", j - 1>>]
GCdevs(n) == [j \in 1..n |-> <<"group_cdev", j - 1>>]
\* dazukofs_group_dev_destroy(start + 2, dev_minor_end)
GroupDestroy == GDevs(GROUP_COUNT) \o GCdevs(GROUP_COUNT)

\* The error labels of dazukofs_dev_init, each falling into the next.
DevOut3 == <<Obj("region")>> \o DestroyEvents
DevOut4 == <<Obj("class")>> \o DevOut3
DevOut5 == CtrlDestroy \o DevOut4
DevOut6 == IgnDestroy \o DevOut5
\* dazukofs_dev_destroy
DevDestroy == GroupDestroy \o DevOut6

\* destroy_caches tests each cache for NULL.
DestroyCaches == IfCreated(FsCaches)

-----------------------------------------------------------------------------
\* Destroy the objects of s in order: each leaves held; destroying one that
\* is not held is recorded in bad; cdev_del unlinks the cdev's probe.
Release(s) ==
  LET step(acc, r) == [h |-> acc.h \ {r},
                       b |-> IF r \in acc.h THEN acc.b ELSE acc.b \cup {r}]
      res == FoldLeft(step, [h |-> held, b |-> bad], s)
  IN  /\ held' = res.h
      /\ bad' = res.b
      /\ kobj' = SelectSeq(kobj, LAMBDA p : p.c \notin Range(s))

\* A failing call: its own unwinding s, then init_dazukofs_fs returns.
Fail(s) == Release(s) /\ lpc' = "failed" /\ li' = 0

\* kobj_map: the probe goes before the first one of range at least its own.
KobjMap(p) ==
  LET j == SelectInSeq(kobj, LAMBDA q : q.range >= p.range)
  IN  IF j = 0 THEN Append(kobj, p) ELSE InsertAt(kobj, j, p)

\* A successful create of r, going on at (pc, i).
Create(r, pc, i) ==
  /\ held' = held \cup {r} /\ lpc' = pc /\ li' = i
  /\ UNCHANGED <<bad, kobj>>

\* A successful cdev_add of r for minors base..base+range-1.
CdevAdd(r, base, range, pc, i) ==
  /\ held' = held \cup {r} /\ lpc' = pc /\ li' = i
  /\ kobj' = KobjMap([c |-> r, base |-> base, range |-> range])
  /\ UNCHANGED bad

-----------------------------------------------------------------------------
LInit ==
  /\ held = {} /\ bad = {} /\ kobj = <<>>
  /\ lpc = "events" /\ li = 1

\* dazukofs_init_events: three kmem_cache_create; error_out destroys the
\* ones created.
InitEvents ==
  /\ lpc = "events"
  /\ \/ IF li < 3 THEN Create(EventCaches[li], "events", li + 1)
                  ELSE Create(EventCaches[li], "region", 0)
     \/ Fail(IfCreated(EventCaches))

\* alloc_chrdev_region(&devt, 0, 2 + GROUP_COUNT) and class_create.
RegionAndClass ==
  /\ lpc = "region"
  /\ \/ li = 0 /\ Create(Obj("region"), "region", 1)
     \/ li = 0 /\ Fail(DestroyEvents)
     \/ li = 1 /\ Create(Obj("class"), "ctrl", 0)
     \/ li = 1 /\ Fail(DevOut3)

\* Seeded fault: a failing device_create returns without cdev_del.
CtrlDevInitNoCdevDel ==
  /\ lpc = "ctrl"
  /\ \/ li = 0 /\ CdevAdd(Obj("ctrl_cdev"), 0, 1, "ctrl", 1)
     \/ li = 0 /\ Fail(DevOut4)
     \/ li = 1 /\ Create(Obj("ctrl_dev"), "ign", 0)
     \/ li = 1 /\ Fail(DevOut4)

\* dazukofs_ctrl_dev_init(major, start): cdev_add, device_create.
CtrlDevInit ==
  /\ lpc = "ctrl"
  /\ \/ li = 0 /\ CdevAdd(Obj("ctrl_cdev"), 0, 1, "ctrl", 1)
     \/ li = 0 /\ Fail(DevOut4)
     \/ li = 1 /\ Create(Obj("ctrl_dev"), "ign", 0)
     \/ li = 1 /\ Fail(<<Obj("ctrl_cdev")>> \o DevOut4)

\* dazukofs_ign_dev_init(major, start + 1): the cache, cdev_add,
\* device_create; error_out2 and error_out3 also run destroy_ignlist.
IgnDevInit ==
  /\ lpc = "ign"
  /\ \/ li = 0 /\ Create(Obj("ign_cache"), "ign", 1)
     \/ li = 0 /\ Fail(DevOut5)
     \/ li = 1 /\ CdevAdd(Obj("ign_cdev"), 1, 1, "ign", 2)
     \/ li = 1 /\ Fail(<<Obj("ign_cache")>> \o DevOut5)
     \/ li = 2 /\ Create(Obj("ign_dev"), "gcdev", 0)
     \/ li = 2 /\ Fail(<<Obj("ign_cdev"), Obj("ign_cache")>> \o DevOut5)

\* Seeded fault: every group cdev is added at the first group minor.
GroupCdevAddSameBase ==
  /\ lpc = "gcdev"
  /\ \/ CdevAdd(<<"group_cdev", li>>, 2, GROUP_COUNT,
                IF li + 1 = GROUP_COUNT THEN "gdev" ELSE "gcdev",
                IF li + 1 = GROUP_COUNT THEN 0 ELSE li + 1)
     \/ Fail(GCdevs(li) \o DevOut6)

\* dazukofs_group_dev_init(major, start + 2), first loop: cdev_add of group
\* cdev li for GROUP_COUNT minors from start + 2 + li; error_out1 deletes
\* the cdevs added before it.
GroupCdevAdd ==
  /\ lpc = "gcdev"
  /\ \/ CdevAdd(<<"group_cdev", li>>, 2 + li, GROUP_COUNT,
                IF li + 1 = GROUP_COUNT THEN "gdev" ELSE "gcdev",
                IF li + 1 = GROUP_COUNT THEN 0 ELSE li + 1)
     \/ Fail(GCdevs(li) \o DevOut6)

\* Second loop: device_create of dazukofs.<li> at minor dev_minor_end;
\* error_out2 destroys the devices made, then error_out1 every cdev.
GroupDevCreate ==
  /\ lpc = "gdev"
  /\ \/ Create(<<"group_dev", li>>,
               IF li + 1 = GROUP_COUNT THEN "caches" ELSE "gdev",
               IF li + 1 = GROUP_COUNT THEN 1 ELSE li + 1)
     \/ Fail(GDevs(li) \o GCdevs(GROUP_COUNT) \o DevOut6)

\* init_caches: four kmem_cache_create; out_nomem runs destroy_caches, and
\* init_dazukofs_fs's error_out2 dazukofs_dev_destroy.
InitCaches ==
  /\ lpc = "caches"
  /\ \/ IF li < 4 THEN Create(FsCaches[li], "caches", li + 1)
                  ELSE Create(FsCaches[li], "fs", 0)
     \/ Fail(IfCreated(FsCaches) \o DevDestroy)

\* register_filesystem; error_out3 is destroy_caches, then error_out2.
RegisterFs ==
  /\ lpc = "fs"
  /\ \/ Create(Obj("fs"), "loaded", 0)
     \/ Fail(DestroyCaches \o DevDestroy)

\* exit_dazukofs_fs: unregister_filesystem, destroy_caches,
\* dazukofs_dev_destroy.
ExitFs ==
  /\ lpc = "loaded"
  /\ Release(<<Obj("fs")>> \o DestroyCaches \o DevDestroy)
  /\ lpc' = "unloaded" /\ li' = 0

LNext ==
  \/ InitEvents \/ RegionAndClass \/ CtrlDevInit \/ IgnDevInit
  \/ GroupCdevAdd \/ GroupDevCreate \/ InitCaches \/ RegisterFs \/ ExitFs

LSpec == LInit /\ [][LNext]_lvars

-----------------------------------------------------------------------------
Objs == {Obj(k) : k \in {"group_cache", "container_cache", "event_cache",
                          "region", "class", "ctrl_cdev", "ctrl_dev",
                          "ign_cache", "ign_cdev", "ign_dev", "inode_cache",
                          "sb_cache", "dentry_cache", "file_cache", "fs"}}
        \cup {<<k, i>> : k \in {"group_cdev", "group_dev"}, i \in GIdx}

LTypeOK ==
  /\ held \subseteq Objs /\ bad \subseteq Objs
  /\ kobj \in Seq([c : Objs, base : Nat, range : Nat \ {0}])
  /\ lpc \in {"events", "region", "ctrl", "ign", "gcdev", "gdev", "caches",
              "fs", "loaded", "failed", "unloaded"}
  /\ li \in 0..4

\* kobj_lookup: the first probe in list order whose range holds the minor.
Lookup(m) ==
  LET j == SelectInSeq(kobj, LAMBDA p : p.base <= m /\ m < p.base + p.range)
  IN  IF j = 0 THEN Obj("none") ELSE kobj[j].c

(***************************************************************************)
(* Whichever call of module init fails, the goto chains of the failing    *)
(* function and of its callers together destroy exactly what was created: *)
(* init returns with no object left and no probe left on the major, the   *)
(* same holds after exit_dazukofs_fs, and no object is ever destroyed     *)
(* that does not exist.                                                    *)
(***************************************************************************)
UnwindExact ==
  /\ bad = {}
  /\ lpc \in {"failed", "unloaded"} => held = {} /\ kobj = <<>>

(***************************************************************************)
(* Once loaded, opening a device node reaches its own driver: minor 0 the *)
(* control device, minor 1 the ignore device, minor 2 + i group i, even   *)
(* though group_dev_init registers each group cdev for GROUP_COUNT minors *)
(* so that their ranges overlap.                                           *)
(***************************************************************************)
DevicesRouteToOwnCdev ==
  lpc = "loaded" =>
    /\ Lookup(0) = Obj("ctrl_cdev") /\ Lookup(1) = Obj("ign_cdev")
    /\ \A i \in GIdx : Lookup(2 + i) = <<"group_cdev", i>>

=============================================================================
