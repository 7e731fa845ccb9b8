--------------------------- MODULE AccessPrecheck ---------------------------
(***************************************************************************)
(* Whether a file access generates an access event at all: the ignore     *)
(* registry (ign_dev.c, the /dev/dazukofs.ign device), the recursion mask *)
(* of open_file (event.c, proc_list) and check_access_precheck, which     *)
(* consults the group count, then the mask, then the registry.             *)
(*                                                                         *)
(* A thread is a struct pid (task_pid is per thread).  An ignore entry is *)
(* a slab object of dazukofs_ign_cachep: the registry is the list of the   *)
(* objects linked in ign_list, head first, and opid is what each object's *)
(* proc_id field holds, which stays readable after the object is freed    *)
(* and is overwritten when the slab hands the object out again.           *)
(***************************************************************************)
EXTENDS Integers, FiniteSets, SequencesExt

CONSTANTS
  Threads,       \* tasks that open files on dazukofs or the ignore device
  Files,         \* struct file slots of the ignore device
  FileOwner,     \* [Files -> Threads]: the thread that opens a slot
  Objs,          \* objects of the slab cache dazukofs_ign_cachep
  None           \* model value: NULL

ASSUME FileOwner \in [Files -> Threads] /\ None \notin Threads \cup Objs

VARIABLES
  gc,            \* group_count > 0, as check_access reads it under the sem
  ign,           \* ign_list: the linked ignore objects, head first
  opid,          \* [Objs -> Threads]: each object's proc_id field
  slabFree,      \* objects of the cache not allocated
  fst,           \* [Files -> {"closed", "open"}]
  priv,          \* [Files -> Objs \cup {None}]: file->private_data
  mlist,         \* proc_list: the pids of the masked open_file frames
  within,        \* [Threads -> BOOLEAN]: proc.within_list of open_file
  pc,            \* [Threads -> {"idle", "dopen", "unmask"}]
  dec,           \* ghost: the last precheck of a thread's own access
  recEv          \* ghost: open_file's own open generated an event

vars == <<gc, ign, opid, slabFree, fst, priv, mlist, within, pc, dec, recEv>>

NoDec == [out |-> "none", want |-> FALSE]

-----------------------------------------------------------------------------
(* The three lookups of the precheck.                                      *)

\* Seeded fault: the frame's pid is not compared.
RecursingAnyPid(t) == mlist # <<>>

\* check_recursion: is a masked open_file frame of this pid on proc_list?
Recursing(t) == t \in Range(mlist)

\* check_recursion also unlinks the first such frame (list_del) and clears
\* its within_list.
CheckRecursion(t) ==
  /\ mlist' = RemoveFirst(mlist, t)
  /\ within' = [within EXCEPT ![t] = FALSE]

\* dazukofs_check_ignore_process: an object on ign_list holds this pid.
Ignored(t) == \E i \in 1..Len(ign) : opid[ign[i]] = t

\* Seeded fault: the precheck without the recursion test.
PrecheckResultNoRecursion(t) ==
  CASE gc = 0        -> "nogroups"
    [] Ignored(t)    -> "ignored"
    [] OTHER         -> "mediate"

\* check_access_precheck(group_count): 0 groups, recursion, ignored, or an
\* event is to be generated.
PrecheckResult(t) ==
  CASE gc = 0        -> "nogroups"
    [] Recursing(t)  -> "recursion"
    [] Ignored(t)    -> "ignored"
    [] OTHER         -> "mediate"

\* The precheck as a step: the recursion branch unlinks the frame.
Precheck(t) ==
  IF PrecheckResult(t) = "recursion" THEN CheckRecursion(t)
  ELSE UNCHANGED <<mlist, within>>

\* What the ignore device promises: a thread is ignored while it holds the
\* device open.
HoldsIgnOpen(t) == \E f \in Files : FileOwner[f] = t /\ fst[f] = "open"

-----------------------------------------------------------------------------
Init ==
  /\ gc = 0
  /\ ign = <<>>
  /\ opid = [o \in Objs |-> CHOOSE t \in Threads : TRUE]
  /\ slabFree = Objs
  /\ fst = [f \in Files |-> "closed"]
  /\ priv = [f \in Files |-> None]
  /\ mlist = <<>>
  /\ within = [t \in Threads |-> FALSE]
  /\ pc = [t \in Threads |-> "idle"]
  /\ dec = [t \in Threads |-> NoDec]
  /\ recEv = FALSE

\* dazukofs_add_group / dazukofs_remove_group change group_count under the
\* write side of group_count_sem, so a precheck sees 0 or not atomically.
GroupCountChange ==
  /\ gc' = 1 - gc
  /\ UNCHANGED <<ign, opid, slabFree, fst, priv, mlist, within, pc, dec, recEv>>

\* Seeded fault: the result of kmem_cache_zalloc is not checked for NULL.
IgnOpenNoNullCheck(f) ==
  LET t == FileOwner[f] IN
  /\ fst[f] = "closed" /\ pc[t] = "idle"
  /\ \E o \in IF slabFree = {} THEN {None} ELSE slabFree :
     /\ slabFree' = slabFree \ {o}
     /\ opid' = [opid EXCEPT ![o] = t]
     /\ ign' = <<o>> \o ign
     /\ priv' = [priv EXCEPT ![f] = o]
  /\ fst' = [fst EXCEPT ![f] = "open"]
  /\ UNCHANGED <<gc, mlist, within, pc, dec, recEv>>

\* open of the ignore device (dazukofs_ign_open -> dazukofs_add_ign): a zeroed
\* object gets the caller's pid and is linked at the head of ign_list.  When
\* the cache has no object left the open fails with -ENOMEM.
IgnOpen(f) ==
  LET t == FileOwner[f] IN
  /\ fst[f] = "closed" /\ pc[t] = "idle" /\ slabFree # {}
  /\ \E o \in slabFree :
     /\ slabFree' = slabFree \ {o}
     /\ opid' = [opid EXCEPT ![o] = t]
     /\ ign' = <<o>> \o ign
     /\ priv' = [priv EXCEPT ![f] = o]
  /\ fst' = [fst EXCEPT ![f] = "open"]
  /\ UNCHANGED <<gc, mlist, within, pc, dec, recEv>>

\* The last close (dazukofs_ign_release -> dazukofs_remove_ign): read the pid
\* of the file's own object, then unlink and free the FIRST object on
\* ign_list with that pid, which need not be the file's own; only if one was
\* found is private_data cleared.  The read goes through private_data even
\* when that object was already freed by the close of another file.
IgnRelease(f) ==
  LET t == FileOwner[f]
      p == IF priv[f] = None THEN None ELSE opid[priv[f]]
      hit == SelectInSeq(ign, LAMBDA o : opid[o] = p)
  IN
  /\ fst[f] = "open" /\ pc[t] = "idle"
  /\ fst' = [fst EXCEPT ![f] = "closed"]
  /\ IF hit # 0
        THEN /\ ign' = RemoveAt(ign, hit)
             /\ slabFree' = slabFree \cup {ign[hit]}
             /\ priv' = [priv EXCEPT ![f] = None]
        ELSE UNCHANGED <<ign, slabFree, priv>>
  /\ UNCHANGED <<gc, opid, mlist, within, pc, dec, recEv>>

\* A thread opens a file on dazukofs for itself: dazukofs_open calls
\* dazukofs_check_access, whose precheck decides whether an event is made.
Access(t) ==
  /\ pc[t] = "idle"
  /\ Precheck(t)
  /\ dec' = [dec EXCEPT ![t] = [out  |-> IF PrecheckResult(t) = "mediate"
                                          THEN "mediate" ELSE "skip",
                                want |-> gc > 0 /\ ~HoldsIgnOpen(t)]]
  /\ UNCHANGED <<gc, ign, opid, slabFree, fst, priv, pc, recEv>>

\* open_file for a claimed event: get_unused_fd, then mask_proc links the
\* frame of this pid at the head of proc_list with within_list = 1.
OpenFileMask(t) ==
  /\ pc[t] = "idle"
  /\ mlist' = <<t>> \o mlist
  /\ within' = [within EXCEPT ![t] = TRUE]
  /\ pc' = [pc EXCEPT ![t] = "dopen"]
  /\ UNCHANGED <<gc, ign, opid, slabFree, fst, priv, dec, recEv>>

\* dentry_open reaches dazukofs_open, whose check_access runs the precheck
\* for this thread: an event made here would be an event about the policy
\* process's own open.
DentryOpenHook(t) ==
  /\ pc[t] = "dopen"
  /\ Precheck(t)
  /\ recEv' = (recEv \/ PrecheckResult(t) = "mediate")
  /\ pc' = [pc EXCEPT ![t] = "unmask"]
  /\ UNCHANGED <<gc, ign, opid, slabFree, fst, priv, dec>>

\* dentry_open fails before it calls the filesystem's open.
DentryOpenFails(t) ==
  /\ pc[t] = "dopen"
  /\ pc' = [pc EXCEPT ![t] = "unmask"]
  /\ UNCHANGED <<gc, ign, opid, slabFree, fst, priv, mlist, within, dec, recEv>>

\* Seeded fault: open_file trusts dentry_open to have unmasked it.
OpenFileUnmaskNoCheck(t) ==
  /\ pc[t] = "unmask"
  /\ pc' = [pc EXCEPT ![t] = "idle"]
  /\ UNCHANGED <<gc, ign, opid, slabFree, fst, priv, mlist, within, dec, recEv>>

\* "If dentry_open() was successful, it should have removed us from
\* proc_list.  If it didn't do this, we do it now ourselves."
OpenFileUnmask(t) ==
  /\ pc[t] = "unmask"
  /\ IF within[t] THEN CheckRecursion(t) ELSE UNCHANGED <<mlist, within>>
  /\ pc' = [pc EXCEPT ![t] = "idle"]
  /\ UNCHANGED <<gc, ign, opid, slabFree, fst, priv, dec, recEv>>

Next ==
  \/ GroupCountChange
  \/ \E f \in Files : IgnOpen(f) \/ IgnRelease(f)
  \/ \E t \in Threads :
       \/ Access(t) \/ OpenFileMask(t) \/ DentryOpenHook(t)
       \/ DentryOpenFails(t) \/ OpenFileUnmask(t)

Spec == Init /\ [][Next]_vars

-----------------------------------------------------------------------------
TypeOK ==
  /\ gc \in {0, 1}
  /\ ign \in Seq(Objs) /\ opid \in [Objs -> Threads]
  /\ slabFree \subseteq Objs
  /\ fst \in [Files -> {"closed", "open"}]
  /\ priv \in [Files -> Objs \cup {None}]
  /\ mlist \in Seq(Threads) /\ within \in [Threads -> BOOLEAN]
  /\ pc \in [Threads -> {"idle", "dopen", "unmask"}]
  /\ dec \in [Threads -> [out : {"none", "mediate", "skip"}, want : BOOLEAN]]
  /\ recEv \in BOOLEAN

(***************************************************************************)
(* The mask lives exactly as long as open_file: every frame on proc_list  *)
(* belongs to a thread inside open_file, at most one per thread, and      *)
(* within_list says whether it is still linked, whether dentry_open's     *)
(* precheck consumed it, found no groups, or never ran.                   *)
(***************************************************************************)
MaskScoped ==
  \A t \in Threads :
    /\ Cardinality({i \in 1..Len(mlist) : mlist[i] = t}) <= 1
    /\ (within[t] <=> Recursing(t))
    /\ Recursing(t) => pc[t] # "idle"

(***************************************************************************)
(* Opening the file of a claimed event never generates an access event of *)
(* its own, whatever the group count and the other threads do meanwhile.  *)
(***************************************************************************)
NoRecursiveEvent == ~recEv

(***************************************************************************)
(* A thread's own access on dazukofs is mediated exactly when groups      *)
(* exist and the thread does not hold the ignore device open: neither a   *)
(* stale recursion frame nor the ignore entries of other files or threads *)
(* may change the verdict of check_access_precheck.                       *)
(***************************************************************************)
PrecheckExact ==
  \A t \in Threads : dec[t].out # "none" => (dec[t].out = "mediate" <=> dec[t].want)
=============================================================================
