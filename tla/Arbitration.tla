----------------------------- MODULE Arbitration -----------------------------
(***************************************************************************)
(* The multi-group access-arbitration engine of dazukofs (src/event.c)     *)
(* driven by its three kinds of callers:                                   *)
(*  - Requesters: processes opening a file in the mount; dazukofs_open     *)
(*    (src/file.c) calls dazukofs_check_access, which fans an event out    *)
(*    to every active group and sleeps until all groups have answered;     *)
(*  - Workers: threads of policy processes using a group device            *)
(*    <name>.<k> (src/group_dev.c): open/release (tracking), read          *)
(*    (dazukofs_get_event) and write (dazukofs_return_event);              *)
(*  - one controller writing commands to the control device               *)
(*    (src/ctrl_dev.c): add=, addtrack=, del=, executed from a script.     *)
(*                                                                         *)
(* Each action is one critical section of the code: a step runs under      *)
(* work_mutex unless it says otherwise, and a thread that keeps a lock     *)
(* across steps is recorded (rdSem, wrSem, workOwner).  The recursion mask *)
(* and the ignore list are modelled in RecursionMask and IgnoreRegistry;   *)
(* here requesters are neither masked nor ignored.                         *)
(*                                                                         *)
(* A thread that dereferences a container after it was freed (the code     *)
(* drops work_mutex between finding a container and using it) stops in pc  *)
(* "ub": the behaviour of the build beyond that point is undefined.        *)
(***************************************************************************)
EXTENDS Integers, FiniteSets, SequencesExt

CONSTANTS
  Requesters,    \* processes whose file opens reach dazukofs_check_access
  Workers,       \* policy-process threads, each bound to one group device
  WorkerDev,     \* [Workers -> 0..GROUP_COUNT-1]: the device <name>.<k> used
  Names,         \* group names used by the control script
  CtrlScript,    \* sequence of [op |-> "add"|"addtrack"|"del", name |-> n]
  GROUP_COUNT,   \* dev.h: the number of group ids / devices (10 in the code)
  MaxRequests,   \* bound: check_access calls per requester
  MayClose,      \* whether a policy process may close its group device
  MayPoll,       \* whether a policy process calls poll(2) on its device
  MaxHeld,       \* bound: events a thread holds unanswered when it reads again
  None           \* model value: no group, no event, no owner

ASSUME /\ WorkerDev \in [Workers -> 0..(GROUP_COUNT - 1)]
       /\ CtrlScript \in Seq([op : {"add", "addtrack", "del"}, name : Names])
       /\ MaxRequests \in Nat /\ MayClose \in BOOLEAN /\ MayPoll \in BOOLEAN
       /\ MaxHeld \in Nat \ {0}

Eids   == 1..(MaxRequests * Cardinality(Requesters))   \* event ids ever used
\* group structures: at most one is allocated per add command of the script
GObjs  == 1..Cardinality({i \in DOMAIN CtrlScript : CtrlScript[i].op # "del"})
Answer == {"ALLOW", "DENY"}                            \* verdicts a write carries

VARIABLES
  glist,         \* group_list: the linked group structures, in list order
  grp,           \* [GObjs -> group record]: struct dazukofs_group
  nextObj,       \* next group structure to allocate
  group_count,   \* group_count (protected by group_count_sem ... mostly)
  last_event_id, \* last_event_id
  ev,            \* [Eids -> event record]: struct dazukofs_event
  rdSem,         \* requesters holding group_count_sem for reading
  wrSem,         \* TRUE while the controller holds group_count_sem for writing
  workOwner,     \* thread holding work_mutex across steps, or None
  rpc, rounds, nalloc, reid,                         \* requester locals
  pc, hold, cont, pdeny, tracked, rtg, gcLoad, got,  \* worker locals
  pollq,         \* the group whose poll_queue a thread's poll table is on
  cpc, cstep, cnew, cgc,                             \* controller locals
  topen,         \* ghost: the group structure a tracked open counted on
  fanned,        \* history: groups an event was fanned out to
  answered,      \* history: <<group, verdict>> released for an event
  drained,       \* history: groups that dropped an event by removal
  outcome,       \* history: the verdict check_access returned for an event
  requeued       \* ghost: linked containers <<e, g>> unclaim_event put back

regVars  == <<glist, grp, nextObj, group_count, last_event_id, ev>>
lockVars == <<rdSem, wrSem, workOwner>>
reqVars  == <<rpc, rounds, nalloc, reid>>
wkVars   == <<pc, hold, cont, pdeny, tracked, rtg, gcLoad, got, pollq>>
ctlVars  == <<cpc, cstep, cnew, cgc>>
histVars == <<topen, fanned, answered, drained, outcome, requeued>>
vars == <<regVars, lockVars, reqVars, wkVars, ctlVars, histVars>>

-----------------------------------------------------------------------------
(* Group and event records.                                                *)

NoGroup == [gid |-> 0, name |-> None, dep |-> FALSE, todo |-> <<>>,
            working |-> {}, use |-> 0, tracking |-> FALSE, track |-> 0]

NoEvent == [st |-> "unused", deny |-> FALSE, assigned |-> 0, dep |-> FALSE]

Listed == Range(glist)
Active == {g \in Listed : ~grp[g].dep}

\* The lookup every handler does: the non-deprecated group with this id.
ById(id) == {g \in Active : grp[g].gid = id}

\* A container <<e, g>> exists exactly while it is linked in g's lists.
Linked(e, g) == e \in Range(grp[g].todo) \/ e \in grp[g].working

WorkFree == workOwner = None

\* A group structure that __check_for_group has unlinked and freed.
GroupFreed(g) == g \in 1..(nextObj - 1) /\ g \notin Listed /\ g # cnew

\* Seeded fault: deny is overwritten instead of or-ed in.
ReleaseByGroupOverwrite(rec, d) ==
  [rec EXCEPT !.deny = d, !.assigned = @ - 1,
              !.st = IF rec.assigned = 1 /\ rec.dep THEN "freed" ELSE @]

\* Seeded fault: assigned is not decremented.
ReleaseByGroupNoDec(rec, d) ==
  [rec EXCEPT !.deny = @ \/ d,
              !.st = IF rec.assigned = 1 /\ rec.dep THEN "freed" ELSE @]

\* release_event(evt, 1, deny): the release by a group.
ReleaseByGroup(rec, d) ==
  [rec EXCEPT !.deny = @ \/ d,
              !.assigned = @ - 1,
              !.st = IF rec.assigned = 1 /\ rec.dep THEN "freed" ELSE @]

\* release_event(evt, 0, 0): the release by the requester.
ReleaseByRequester(rec) ==
  IF rec.assigned = 0 THEN [rec EXCEPT !.st = "freed"]
                      ELSE [rec EXCEPT !.dep = TRUE]

\* Seeded fault: only working_list is cleared.
DrainedEventsWorkingOnly(g) == grp[g].working

\* __clear_group_event_list on working_list and todo_list of g.
DrainedEvents(g) == grp[g].working \cup Range(grp[g].todo)

DrainLists(g) ==
  /\ ev' = [e \in Eids |-> IF e \in DrainedEvents(g)
                           THEN ReleaseByGroup(ev[e], FALSE) ELSE ev[e]]
  /\ drained' = [e \in Eids |-> IF e \in DrainedEvents(g)
                                THEN drained[e] \cup {g} ELSE drained[e]]
  /\ requeued' = {c \in requeued : c[2] # g}

Emptied(g) == [grp EXCEPT ![g].todo = <<>>, ![g].working = {}, ![g].dep = TRUE]

\* Seeded fault: the "id taken" branch of __check_for_group is missing.
RECURSIVE CheckForGroupNoIdCheck(_, _, _)
CheckForGroupNoIdCheck(lst, name, id) ==
  IF lst = <<>> THEN [keep |-> <<>>, exists |-> FALSE, avail |-> TRUE, match |-> None]
  ELSE LET g == Head(lst)
           rest == CheckForGroupNoIdCheck(Tail(lst), name, id)
       IN  CASE grp[g].dep /\ grp[g].use = 0 -> rest
             [] grp[g].dep -> [rest EXCEPT !.keep = <<g>> \o @]
             [] grp[g].name = name ->
                  [keep |-> lst, exists |-> TRUE, avail |-> FALSE, match |-> g]
             [] OTHER -> [rest EXCEPT !.keep = <<g>> \o @]

(***************************************************************************)
(* __check_for_group, one pass for one candidate id: scan the list,        *)
(* dropping deprecated groups nobody uses, until a group with this name    *)
(* (exists) or with this id (id taken) is met.                             *)
(***************************************************************************)
RECURSIVE CheckForGroup(_, _, _)
CheckForGroup(lst, name, id) ==
  IF lst = <<>> THEN [keep |-> <<>>, exists |-> FALSE, avail |-> TRUE, match |-> None]
  ELSE LET g == Head(lst)
           rest == CheckForGroup(Tail(lst), name, id)
       IN  CASE grp[g].dep /\ grp[g].use = 0 -> rest
             [] grp[g].dep -> [rest EXCEPT !.keep = <<g>> \o @]
             [] grp[g].name = name ->
                  [keep |-> lst, exists |-> TRUE, avail |-> FALSE, match |-> g]
             [] grp[g].gid = id ->
                  [keep |-> lst, exists |-> FALSE, avail |-> FALSE, match |-> None]
             [] OTHER -> [rest EXCEPT !.keep = <<g>> \o @]

\* The loop of dazukofs_add_group: try ids 0, 1, ... until one pass succeeds.
RECURSIVE AddSearch(_, _, _)
AddSearch(lst, name, id) ==
  LET s == CheckForGroup(lst, name, id)
  IN  IF s.exists \/ s.avail
      THEN [keep |-> s.keep, exists |-> s.exists, match |-> s.match, id |-> id]
                             ELSE AddSearch(s.keep, name, id + 1)

-----------------------------------------------------------------------------
Init ==
  /\ glist = <<>>
  /\ grp = [g \in GObjs |-> NoGroup]
  /\ nextObj = 1
  /\ group_count = 0
  /\ last_event_id = 0
  /\ ev = [e \in Eids |-> NoEvent]
  /\ rdSem = {} /\ wrSem = FALSE /\ workOwner = None
  /\ rpc = [r \in Requesters |-> "idle"]
  /\ rounds = [r \in Requesters |-> 0]
  /\ nalloc = [r \in Requesters |-> 0]
  /\ reid = [r \in Requesters |-> None]
  /\ pc = [w \in Workers |-> "closed"]
  /\ hold = [w \in Workers |-> None]
  /\ cont = [w \in Workers |-> None]
  /\ pdeny = [w \in Workers |-> FALSE]
  /\ tracked = [w \in Workers |-> FALSE]
  /\ rtg = [w \in Workers |-> None]
  /\ gcLoad = [w \in Workers |-> 0]
  /\ pollq = [w \in Workers |-> None]
  /\ got = [w \in Workers |-> {}]
  /\ cpc = "idle" /\ cstep = 1 /\ cnew = None /\ cgc = 0
  /\ topen = [w \in Workers |-> None]
  /\ fanned = [e \in Eids |-> {}]
  /\ answered = [e \in Eids |-> {}]
  /\ drained = [e \in Eids |-> {}]
  /\ outcome = [e \in Eids |-> "none"]
  /\ requeued = {}

-----------------------------------------------------------------------------
(* Requester: dazukofs_check_access (event.c 746-784), called by           *)
(* dazukofs_open (file.c 231).                                             *)

\* down_read, check_access_precheck on group_count and the allocation of the
\* event and of group_count containers.  The call returns without an event
\* when there is no group (allowed) or an allocation fails (-ENOMEM).
CheckAccessPrecheck(r) ==
  /\ rpc[r] = "idle" /\ rounds[r] < MaxRequests /\ ~wrSem
  /\ rounds' = [rounds EXCEPT ![r] = @ + 1]
  /\ \/ UNCHANGED <<rpc, nalloc, rdSem>>
     \/ /\ group_count # 0
        /\ rdSem' = rdSem \cup {r}
        /\ nalloc' = [nalloc EXCEPT ![r] = group_count]
        /\ rpc' = [rpc EXCEPT ![r] = "fanout"]
  /\ UNCHANGED <<regVars, wrSem, workOwner, reid, wkVars, ctlVars, histVars>>

\* Seeded fault: last_event_id is advanced twice.
AssignEventToGroupsIdSkip(r) ==
  LET e == last_event_id + 2
  IN  /\ rpc[r] = "fanout" /\ WorkFree
      /\ last_event_id' = e
      /\ ev' = [ev EXCEPT ![e] = [st |-> "live", deny |-> FALSE,
                                  assigned |-> Cardinality(Active), dep |-> FALSE]]
      /\ grp' = [g \in GObjs |-> IF g \in Active
                                 THEN [grp[g] EXCEPT !.todo = Append(@, e)]
                                 ELSE grp[g]]
      /\ fanned' = [fanned EXCEPT ![e] = Active]
      /\ reid' = [reid EXCEPT ![r] = e]
      /\ rdSem' = rdSem \ {r}
      /\ rpc' = [rpc EXCEPT ![r] = "wait"]
      /\ UNCHANGED <<glist, nextObj, group_count, wrSem, workOwner, rounds,
                     nalloc, wkVars, ctlVars, topen, answered, drained, outcome, requeued>>

\* assign_event_to_groups: a fresh event id, one container on the tail of
\* the todo list of every non-deprecated group; then up_read.  The code fills
\* ec_array[i] for the i-th such group.
AssignEventToGroups(r) ==
  LET e == last_event_id + 1
      tgt == Active
  IN  /\ rpc[r] = "fanout" /\ WorkFree
      /\ last_event_id' = e
      /\ ev' = [ev EXCEPT ![e] = [st |-> "live", deny |-> FALSE,
                                  assigned |-> Cardinality(tgt), dep |-> FALSE]]
      /\ grp' = [g \in GObjs |-> IF g \in tgt
                                 THEN [grp[g] EXCEPT !.todo = Append(@, e)]
                                 ELSE grp[g]]
      /\ fanned' = [fanned EXCEPT ![e] = tgt]
      /\ reid' = [reid EXCEPT ![r] = e]
      /\ rdSem' = rdSem \ {r}
      /\ rpc' = [rpc EXCEPT ![r] = "wait"]
      /\ UNCHANGED <<glist, nextObj, group_count, wrSem, workOwner, rounds,
                     nalloc, wkVars, ctlVars, topen, answered, drained, outcome, requeued>>

\* Seeded fault: the requester wakes while one group still holds the event.
CheckAccessReturnEarly(r) ==
  LET e == reid[r] IN
  /\ rpc[r] = "wait" /\ ev[e].assigned <= 1
  /\ outcome' = [outcome EXCEPT ![e] = IF ev[e].deny THEN "denied" ELSE "allowed"]
  /\ ev' = [ev EXCEPT ![e] = ReleaseByRequester(@)]
  /\ rpc' = [rpc EXCEPT ![r] = "idle"]
  /\ UNCHANGED <<glist, grp, nextObj, group_count, last_event_id, lockVars,
                 rounds, nalloc, reid, wkVars, ctlVars, topen, fanned, answered,
                 drained, requeued>>

\* wait_event (uninterruptible) until the event is no longer assigned, read
\* deny, release_event(evt, 0, 0).
CheckAccessReturn(r) ==
  LET e == reid[r] IN
  /\ rpc[r] = "wait" /\ ev[e].assigned = 0
  /\ outcome' = [outcome EXCEPT ![e] = IF ev[e].deny THEN "denied" ELSE "allowed"]
  /\ ev' = [ev EXCEPT ![e] = ReleaseByRequester(@)]
  /\ rpc' = [rpc EXCEPT ![r] = "idle"]
  /\ UNCHANGED <<glist, grp, nextObj, group_count, last_event_id, lockVars,
                 rounds, nalloc, reid, wkVars, ctlVars, topen, fanned, answered,
                 drained, requeued>>

-----------------------------------------------------------------------------
(* Controller: dazukofs_ctrl_write (ctrl_dev.c 116-160) running the        *)
(* commands of CtrlScript one after the other.                             *)

Cmd == CtrlScript[cstep]
CtrlPending == cpc = "idle" /\ cstep <= Len(CtrlScript)
SemFree == ~wrSem /\ rdSem = {}

\* dazukofs_add_group up to the allocation: down_write, the passes of
\* __check_for_group under work_mutex (reaping unused deprecated groups,
\* turning an existing group to tracking), the GROUP_COUNT check and
\* __create_group.  It ends here when the group exists, on -EPERM and on
\* -ENOMEM.
AddGroup ==
  LET track == Cmd.op = "addtrack"
      s == AddSearch(glist, Cmd.name, 0)
  IN  /\ CtrlPending /\ Cmd.op \in {"add", "addtrack"} /\ SemFree /\ WorkFree
      /\ glist' = s.keep
      /\ \/ /\ s.exists
            /\ grp' = [grp EXCEPT ![s.match].tracking = @ \/ track]
            /\ cstep' = cstep + 1
            /\ UNCHANGED <<nextObj, wrSem, cpc, cnew>>
         \/ /\ ~s.exists
            /\ cstep' = cstep + 1
            /\ UNCHANGED <<grp, nextObj, wrSem, cpc, cnew>>
         \/ /\ ~s.exists /\ group_count # GROUP_COUNT
            /\ grp' = [grp EXCEPT ![nextObj] = [NoGroup EXCEPT !.gid = s.id,
                                     !.name = Cmd.name, !.tracking = track]]
            /\ cnew' = nextObj
            /\ nextObj' = nextObj + 1
            /\ wrSem' = TRUE
            /\ cpc' = "add_link"
            /\ UNCHANGED cstep
      /\ UNCHANGED <<group_count, last_event_id, ev, rdSem, workOwner, reqVars,
                     wkVars, cgc, histVars>>

\* list_add_tail under work_mutex.
AddGroupLink ==
  /\ cpc = "add_link" /\ WorkFree
  /\ glist' = Append(glist, cnew)
  /\ cpc' = "add_load"
  /\ UNCHANGED <<grp, nextObj, group_count, last_event_id, ev, lockVars,
                 reqVars, wkVars, cstep, cnew, cgc, histVars>>

\* The load of group_count++, after work_mutex was released.
AddGroupLoad ==
  /\ cpc = "add_load"
  /\ cgc' = group_count
  /\ cpc' = "add_inc"
  /\ UNCHANGED <<glist, grp, nextObj, group_count, last_event_id, ev, lockVars,
                 reqVars, wkVars, cstep, cnew, histVars>>

\* The store of group_count++ and up_write.
AddGroupInc ==
  /\ cpc = "add_inc"
  /\ group_count' = cgc + 1
  /\ wrSem' = FALSE
  /\ cpc' = "idle"
  /\ cstep' = cstep + 1
  /\ cnew' = None
  /\ UNCHANGED <<glist, grp, nextObj, last_event_id, ev, rdSem, workOwner,
                 reqVars, wkVars, cgc, histVars>>

\* dazukofs_remove_group: under down_write, unless group_count is 0, the
\* non-deprecated group of that name gets __remove_group: deprecated,
\* group_count--, working and todo lists drained (each event released as
\* by a group, without deny), waiters woken.
RemoveGroup ==
  LET m == {g \in Active : grp[g].name = Cmd.name} IN
  /\ CtrlPending /\ Cmd.op = "del" /\ SemFree /\ WorkFree
  /\ cstep' = cstep + 1
  /\ \/ /\ group_count = 0 \/ m = {}
        /\ UNCHANGED <<grp, group_count, ev, drained, requeued>>
     \/ \E g \in m :
        /\ group_count # 0
        /\ grp' = Emptied(g)
        /\ group_count' = group_count - 1
        /\ DrainLists(g)
  /\ UNCHANGED <<glist, nextObj, last_event_id, lockVars, reqVars, wkVars,
                 cpc, cnew, cgc, topen, fanned, answered, outcome>>

-----------------------------------------------------------------------------
(* Worker: a policy-process thread using group device <name>.<WorkerDev[w]> *)
(* (group_dev.c), each file operation calling into event.c.                *)

Dev(w) == WorkerDev[w]

\* dazukofs_group_open -> dazukofs_group_open_tracking: a tracking group of
\* this id counts the opener in use_count and track_count; the file only
\* remembers THAT it was counted (private_data).
GroupOpen(w) ==
  LET T == {g \in ById(Dev(w)) : grp[g].tracking} IN
  /\ pc[w] = "closed" /\ WorkFree
  /\ pc' = [pc EXCEPT ![w] = "idle"]
  /\ \/ /\ T = {}
        /\ tracked' = [tracked EXCEPT ![w] = FALSE]
        /\ UNCHANGED <<grp, topen>>
     \/ \E g \in T :
        /\ grp' = [grp EXCEPT ![g].use = @ + 1, ![g].track = @ + 1]
        /\ tracked' = [tracked EXCEPT ![w] = TRUE]
        /\ topen' = [topen EXCEPT ![w] = g]
  /\ UNCHANGED <<glist, nextObj, group_count, last_event_id, ev, lockVars,
                 reqVars, hold, cont, pdeny, rtg, gcLoad, pollq, got, ctlVars, fanned,
                 answered, drained, outcome, requeued>>

\* dazukofs_group_release -> dazukofs_group_release_tracking: the process
\* loses the events it read but did not answer; a file counted at open
\* uncounts the tracking group that has this id NOW, which is deprecated
\* when its track_count drops to 0; the load of group_count-- follows, all
\* under work_mutex.
GroupRelease(w) ==
  LET T == {g \in ById(Dev(w)) : grp[g].tracking} IN
  /\ MayClose /\ pc[w] = "idle" /\ WorkFree
  /\ got' = [got EXCEPT ![w] = {}]
  /\ topen' = [topen EXCEPT ![w] = None]
  /\ \/ /\ ~tracked[w] \/ T = {}
        /\ pc' = [pc EXCEPT ![w] = "closed"]
        /\ UNCHANGED <<grp, rtg, gcLoad, workOwner>>
     \/ \E g \in T :
        /\ tracked[w]
        /\ grp' = [grp EXCEPT ![g].use = @ - 1, ![g].track = @ - 1,
                              ![g].dep = (grp[g].track = 1)]
        /\ \/ /\ grp[g].track # 1
              /\ pc' = [pc EXCEPT ![w] = "closed"]
              /\ UNCHANGED <<rtg, gcLoad, workOwner>>
           \/ /\ grp[g].track = 1
              /\ rtg' = [rtg EXCEPT ![w] = g]
              /\ gcLoad' = [gcLoad EXCEPT ![w] = group_count]
              /\ workOwner' = w
              /\ pc' = [pc EXCEPT ![w] = "rt_store"]
  /\ UNCHANGED <<glist, nextObj, group_count, last_event_id, ev, rdSem, wrSem,
                 reqVars, hold, cont, pdeny, tracked, pollq, ctlVars, fanned,
                 answered, drained, outcome, requeued>>

\* The rest of __remove_group on the release path: the store of
\* group_count-- (this caller holds work_mutex but not group_count_sem),
\* the lists drained, waiters woken; work_mutex released.
ReleaseTrackingRemove(w) ==
  LET g == rtg[w] IN
  /\ pc[w] = "rt_store"
  /\ group_count' = gcLoad[w] - 1
  /\ grp' = Emptied(g)
  /\ DrainLists(g)
  /\ workOwner' = None
  /\ rtg' = [rtg EXCEPT ![w] = None]
  /\ pc' = [pc EXCEPT ![w] = "closed"]
  /\ UNCHANGED <<glist, nextObj, last_event_id, rdSem, wrSem, reqVars, hold,
                 cont, pdeny, tracked, gcLoad, pollq, got, ctlVars, topen, fanned,
                 answered, outcome>>

\* dazukofs_group_read -> dazukofs_get_event: the group of this id gets a
\* use_count reference (no group: -EINVAL, no step).  A policy thread reads
\* again only while it holds fewer than MaxHeld unanswered events.
GetEventStart(w) ==
  /\ pc[w] = "idle" /\ WorkFree /\ Cardinality(got[w]) < MaxHeld
  /\ \E g \in ById(Dev(w)) :
     /\ grp' = [grp EXCEPT ![g].use = @ + 1]
     /\ hold' = [hold EXCEPT ![w] = g]
     /\ pc' = [pc EXCEPT ![w] = "ge_wait"]
  /\ UNCHANGED <<glist, nextObj, group_count, last_event_id, ev, lockVars,
                 reqVars, cont, pdeny, tracked, rtg, gcLoad, pollq, got, ctlVars,
                 histVars>>

\* Seeded fault: the error path of get_event keeps its reference.
GetEventLeaveNoPut(w) ==
  /\ hold' = [hold EXCEPT ![w] = None]
  /\ pc' = [pc EXCEPT ![w] = "idle"]
  /\ UNCHANGED <<glist, grp, nextObj, group_count, last_event_id, ev, lockVars,
                 reqVars, cont, pdeny, tracked, rtg, gcLoad, pollq, got, ctlVars,
                 histVars>>

\* Leaving get_event without an event: the reference is dropped.
GetEventLeave(w) ==
  /\ grp' = [grp EXCEPT ![hold[w]].use = @ - 1]
  /\ hold' = [hold EXCEPT ![w] = None]
  /\ pc' = [pc EXCEPT ![w] = "idle"]
  /\ UNCHANGED <<glist, nextObj, group_count, last_event_id, ev, lockVars,
                 reqVars, cont, pdeny, tracked, rtg, gcLoad, pollq, got, ctlVars,
                 histVars>>

\* wait_event_freezable interrupted by a signal while the todo list is
\* empty: -ERESTARTSYS (read returns -EINTR).
GetEventInterrupted(w) ==
  /\ pc[w] = "ge_wait" /\ WorkFree
  /\ grp[hold[w]].todo = <<>> /\ ~grp[hold[w]].dep
  /\ GetEventLeave(w)

\* Woken with the group deprecated: -EINVAL.
GetEventInvalid(w) ==
  /\ pc[w] = "ge_wait" /\ WorkFree
  /\ grp[hold[w]].dep
  /\ GetEventLeave(w)

\* Seeded fault: the head is added to working_list but not list_del'ed
\* from todo_list.
ClaimEventNoDel(w) ==
  LET g == hold[w] IN
  /\ pc[w] = "ge_wait" /\ WorkFree
  /\ ~grp[g].dep /\ grp[g].todo # <<>>
  /\ grp' = [grp EXCEPT ![g].working = @ \cup {Head(grp[g].todo)}]
  /\ cont' = [cont EXCEPT ![w] = Head(grp[g].todo)]
  /\ pc' = [pc EXCEPT ![w] = "ge_open"]
  /\ UNCHANGED <<glist, nextObj, group_count, last_event_id, ev, lockVars,
                 reqVars, hold, pdeny, tracked, rtg, gcLoad, pollq, got, ctlVars,
                 histVars>>

\* claim_event: the head of todo_list moves to working_list.
ClaimEvent(w) ==
  LET g == hold[w] IN
  /\ pc[w] = "ge_wait" /\ WorkFree
  /\ ~grp[g].dep /\ grp[g].todo # <<>>
  /\ grp' = [grp EXCEPT ![g].todo = Tail(@), ![g].working = @ \cup {Head(grp[g].todo)}]
  /\ cont' = [cont EXCEPT ![w] = Head(grp[g].todo)]
  /\ pc' = [pc EXCEPT ![w] = "ge_open"]
  /\ UNCHANGED <<glist, nextObj, group_count, last_event_id, ev, lockVars,
                 reqVars, hold, pdeny, tracked, rtg, gcLoad, pollq, got, ctlVars,
                 histVars>>

\* open_file: get_unused_fd, mask_proc and dentry_open of evt->dentry with
\* the worker's credentials, all without work_mutex, reading ec->event of
\* the claimed container.  It succeeds, or fails and the container goes back.
OpenFileOk(w) ==
  /\ pc[w] = "ge_open" /\ Linked(cont[w], hold[w])
  /\ pc' = [pc EXCEPT ![w] = "ge_report"]
  /\ UNCHANGED <<regVars, lockVars, reqVars, hold, cont, pdeny, tracked, rtg,
                 gcLoad, pollq, got, ctlVars, histVars>>

OpenFileFails(w) ==
  /\ pc[w] = "ge_open" /\ Linked(cont[w], hold[w])
  /\ pc' = [pc EXCEPT ![w] = "unclaim"]
  /\ UNCHANGED <<regVars, lockVars, reqVars, hold, cont, pdeny, tracked, rtg,
                 gcLoad, pollq, got, ctlVars, histVars>>

\* get_event reports ec->event->event_id and drops its reference; the read
\* copies "id=..\nfd=..\npid=..\n" to the process.
GetEventDeliver(w) ==
  /\ pc[w] = "ge_report" /\ Linked(cont[w], hold[w])
  /\ got' = [got EXCEPT ![w] = @ \cup {cont[w]}]
  /\ cont' = [cont EXCEPT ![w] = None]
  /\ grp' = [grp EXCEPT ![hold[w]].use = @ - 1]
  /\ hold' = [hold EXCEPT ![w] = None]
  /\ pc' = [pc EXCEPT ![w] = "idle"]
  /\ UNCHANGED <<glist, nextObj, group_count, last_event_id, ev, lockVars,
                 reqVars, pdeny, tracked, rtg, gcLoad, pollq, ctlVars, histVars>>

\* Seeded fault: the copy_to_user error path returns without the REPOST.
GetEventFaultNoRepost(w) ==
  /\ pc[w] = "ge_report" /\ Linked(cont[w], hold[w])
  /\ grp' = [grp EXCEPT ![hold[w]].use = @ - 1]
  /\ hold' = [hold EXCEPT ![w] = None]
  /\ cont' = [cont EXCEPT ![w] = None]
  /\ pc' = [pc EXCEPT ![w] = "idle"]
  /\ UNCHANGED <<glist, nextObj, group_count, last_event_id, ev, lockVars,
                 reqVars, pdeny, tracked, rtg, gcLoad, pollq, got, ctlVars,
                 histVars>>

\* copy_to_user fails: sys_close(fd) and dazukofs_return_event(.., REPOST).
GetEventFault(w) ==
  /\ pc[w] = "ge_report" /\ Linked(cont[w], hold[w])
  /\ grp' = [grp EXCEPT ![hold[w]].use = @ - 1]
  /\ hold' = [hold EXCEPT ![w] = None]
  /\ pc' = [pc EXCEPT ![w] = "repost"]
  /\ UNCHANGED <<glist, nextObj, group_count, last_event_id, ev, lockVars,
                 reqVars, cont, pdeny, tracked, rtg, gcLoad, pollq, got, ctlVars,
                 histVars>>

\* Seeded fault: unclaim_event unlinks the container without requeueing it.
UnclaimEventLost(w) ==
  LET g == hold[w]
      e == cont[w]
  IN  /\ pc[w] = "unclaim" /\ WorkFree /\ Linked(e, g)
      /\ grp' = [grp EXCEPT ![g].working = @ \ {e}, ![g].use = @ - 1]
      /\ hold' = [hold EXCEPT ![w] = None]
      /\ cont' = [cont EXCEPT ![w] = None]
      /\ pc' = [pc EXCEPT ![w] = "idle"]
      /\ UNCHANGED <<glist, nextObj, group_count, last_event_id, ev, lockVars,
                     reqVars, pdeny, tracked, rtg, gcLoad, pollq, got, ctlVars,
                     histVars>>

\* Seeded fault: the container goes back to the tail (list_add_tail).
UnclaimEventTail(w) ==
  LET g == hold[w]
      e == cont[w]
  IN  /\ pc[w] = "unclaim" /\ WorkFree /\ Linked(e, g)
      /\ grp' = [grp EXCEPT ![g].working = @ \ {e}, ![g].todo = Append(@, e),
                            ![g].use = @ - 1]
      /\ requeued' = requeued \cup {<<e, g>>}
      /\ hold' = [hold EXCEPT ![w] = None]
      /\ cont' = [cont EXCEPT ![w] = None]
      /\ pc' = [pc EXCEPT ![w] = "idle"]
      /\ UNCHANGED <<glist, nextObj, group_count, last_event_id, ev, lockVars,
                     reqVars, pdeny, tracked, rtg, gcLoad, pollq, got, ctlVars,
                     topen, fanned, answered, drained, outcome>>

\* unclaim_event: list_del of the container and list_add at the head of
\* todo_list, under work_mutex; then the caller drops its reference.
UnclaimEvent(w) ==
  LET g == hold[w]
      e == cont[w]
  IN  /\ pc[w] = "unclaim" /\ WorkFree /\ Linked(e, g)
      /\ grp' = [grp EXCEPT ![g].working = @ \ {e}, ![g].todo = <<e>> \o @,
                            ![g].use = @ - 1]
      /\ requeued' = requeued \cup {<<e, g>>}
      /\ hold' = [hold EXCEPT ![w] = None]
      /\ cont' = [cont EXCEPT ![w] = None]
      /\ pc' = [pc EXCEPT ![w] = "idle"]
      /\ UNCHANGED <<glist, nextObj, group_count, last_event_id, ev, lockVars,
                     reqVars, pdeny, tracked, rtg, gcLoad, pollq, got, ctlVars,
                     topen, fanned, answered, drained, outcome>>

\* poll(2) on the group device: dazukofs_poll takes a use_count reference on
\* the group of this id, registers the poll table on grp->poll_queue
\* (poll_wait), tests is_event_available and drops the reference.  The
\* reference is net zero; the registration outlives it (no group: POLLERR,
\* no step).
DazukofsPoll(w) ==
  /\ MayPoll /\ pc[w] = "idle" /\ WorkFree
  /\ \E g \in ById(Dev(w)) :
     /\ pollq' = [pollq EXCEPT ![w] = g]
     /\ pc' = [pc EXCEPT ![w] = "polled"]
  /\ UNCHANGED <<regVars, lockVars, reqVars, hold, cont, pdeny, tracked, rtg,
                 gcLoad, got, ctlVars, histVars>>

\* The end of the poll system call (poll_freewait) unlinks the poll table
\* entry from grp->poll_queue.
PollFreeWait(w) ==
  /\ pc[w] = "polled" /\ ~GroupFreed(pollq[w])
  /\ pollq' = [pollq EXCEPT ![w] = None]
  /\ pc' = [pc EXCEPT ![w] = "idle"]
  /\ UNCHANGED <<regVars, lockVars, reqVars, hold, cont, pdeny, tracked, rtg,
                 gcLoad, got, ctlVars, histVars>>

\* ... after dazukofs_add_group reaped the deprecated group and freed it.
PollUseAfterFree(w) ==
  /\ pc[w] = "polled" /\ GroupFreed(pollq[w])
  /\ pc' = [pc EXCEPT ![w] = "ub_poll"]
  /\ UNCHANGED <<regVars, lockVars, reqVars, hold, cont, pdeny, tracked, rtg,
                 gcLoad, got, pollq, ctlVars, histVars>>

\* A step that dereferences the container (ec->event in open_file and
\* get_event, list_del in unclaim_event) after a removal freed it.
UseAfterFree(w) ==
  /\ pc[w] \in {"ge_open", "ge_report", "unclaim"}
  /\ ~Linked(cont[w], hold[w])
  /\ pc' = [pc EXCEPT ![w] = "ub"]
  /\ UNCHANGED <<regVars, lockVars, reqVars, hold, cont, pdeny, tracked, rtg,
                 gcLoad, pollq, got, ctlVars, histVars>>

\* dazukofs_return_event, from a write "id=<e>\nr=<v>\n" for an event this
\* process read, or with REPOST after a failed read: under work_mutex the
\* group of this id (-EINVAL if none) gets a reference and its working_list
\* is searched (-EINVAL if the event is not there); unless REPOST the
\* container is unlinked and freed.
ReturnEventFind(w, e, v) ==
  LET G == {g \in ById(Dev(w)) : e \in grp[g].working} IN
  /\ WorkFree
  /\ \/ pc[w] = "idle" /\ e \in got[w] /\ v \in Answer
     \/ pc[w] = "repost" /\ e = cont[w] /\ v = "REPOST"
  /\ got' = [got EXCEPT ![w] = @ \ {e}]
  /\ \/ /\ G = {}
        /\ cont' = [cont EXCEPT ![w] = None]
        /\ pc' = [pc EXCEPT ![w] = "idle"]
        /\ UNCHANGED <<grp, hold, pdeny, requeued>>
     \/ \E g \in G :
        /\ hold' = [hold EXCEPT ![w] = g]
        /\ cont' = [cont EXCEPT ![w] = e]
        /\ \/ /\ v = "REPOST"
              /\ grp' = [grp EXCEPT ![g].use = @ + 1]
              /\ pc' = [pc EXCEPT ![w] = "unclaim"]
              /\ UNCHANGED <<pdeny, requeued>>
           \/ /\ v # "REPOST"
              /\ grp' = [grp EXCEPT ![g].use = @ + 1, ![g].working = @ \ {e}]
              /\ requeued' = requeued \ {<<e, g>>}
              /\ pdeny' = [pdeny EXCEPT ![w] = (v = "DENY")]
              /\ pc' = [pc EXCEPT ![w] = "re_release"]
  /\ UNCHANGED <<glist, nextObj, group_count, last_event_id, ev, lockVars,
                 reqVars, tracked, rtg, gcLoad, pollq, ctlVars, topen, fanned,
                 answered, drained, outcome>>

\* release_event(evt, 1, deny) outside work_mutex, then the reference drop.
ReturnEventRelease(w) ==
  LET e == cont[w]
      g == hold[w]
  IN  /\ pc[w] = "re_release"
      /\ ev' = [ev EXCEPT ![e] = ReleaseByGroup(@, pdeny[w])]
      /\ answered' = [answered EXCEPT ![e] =
                        @ \cup {<<g, IF pdeny[w] THEN "DENY" ELSE "ALLOW">>}]
      /\ grp' = [grp EXCEPT ![g].use = @ - 1]
      /\ hold' = [hold EXCEPT ![w] = None]
      /\ cont' = [cont EXCEPT ![w] = None]
      /\ pc' = [pc EXCEPT ![w] = "idle"]
      /\ UNCHANGED <<glist, nextObj, group_count, last_event_id, lockVars,
                     reqVars, pdeny, tracked, rtg, gcLoad, pollq, got, ctlVars, topen,
                     fanned, drained, outcome, requeued>>

-----------------------------------------------------------------------------
Next ==
  \/ \E r \in Requesters :
       \/ CheckAccessPrecheck(r) \/ AssignEventToGroups(r) \/ CheckAccessReturn(r)
  \/ AddGroup \/ AddGroupLink \/ AddGroupLoad \/ AddGroupInc \/ RemoveGroup
  \/ \E w \in Workers :
       \/ GroupOpen(w) \/ GroupRelease(w) \/ ReleaseTrackingRemove(w)
       \/ GetEventStart(w) \/ GetEventInterrupted(w) \/ GetEventInvalid(w)
       \/ ClaimEvent(w) \/ OpenFileOk(w) \/ OpenFileFails(w)
       \/ GetEventDeliver(w) \/ GetEventFault(w) \/ UnclaimEvent(w)
       \/ UseAfterFree(w) \/ ReturnEventRelease(w)
       \/ DazukofsPoll(w) \/ PollFreeWait(w) \/ PollUseAfterFree(w)
       \/ \E e \in Eids, v \in Answer \cup {"REPOST"} : ReturnEventFind(w, e, v)

(***************************************************************************)
(* Fairness.  Kernel code paths that hold a lock or sit between two steps  *)
(* of one call always continue (weak fairness).  Policy processes are      *)
(* assumed to keep serving: they open their device, read while their group *)
(* exists, and answer every event they read.  Steps that compete with a    *)
(* failure the environment may choose (open or copy_to_user failing, a     *)
(* signal interrupting the wait, a close) are strongly fair: a process that retries *)
(* forever eventually succeeds.  Closing the device, failures and signals  *)
(* themselves are never forced.  Answering is strongly fair too: a thread *)
(* may go back to reading before it writes its answer, which disables the *)
(* write while it sits in get_event.                                       *)
(***************************************************************************)
Fairness ==
  /\ \A r \in Requesters : WF_vars(AssignEventToGroups(r)) /\ WF_vars(CheckAccessReturn(r))
  /\ WF_vars(AddGroupLink) /\ WF_vars(AddGroupLoad) /\ WF_vars(AddGroupInc)
  /\ \A w \in Workers :
       /\ WF_vars(GroupOpen(w)) /\ WF_vars(ReleaseTrackingRemove(w))
       /\ SF_vars(GetEventStart(w)) /\ WF_vars(GetEventInvalid(w))
       /\ SF_vars(ClaimEvent(w)) /\ SF_vars(OpenFileOk(w))
       /\ SF_vars(GetEventDeliver(w)) /\ WF_vars(UnclaimEvent(w))
       /\ SF_vars(\E e \in Eids, v \in Answer : ReturnEventFind(w, e, v))
       /\ WF_vars(\E e \in Eids : ReturnEventFind(w, e, "REPOST"))
       /\ WF_vars(ReturnEventRelease(w)) /\ WF_vars(PollFreeWait(w))

Spec == Init /\ [][Next]_vars
FairSpec == Spec /\ Fairness


-----------------------------------------------------------------------------
(* Properties.                                                              *)

TypeOK ==
  /\ glist \in Seq(GObjs)
  /\ grp \in [GObjs -> [gid : Nat, name : Names \cup {None}, dep : BOOLEAN,
                        todo : Seq(Eids), working : SUBSET Eids, use : Int,
                        tracking : BOOLEAN, track : Int]]
  /\ group_count \in Int /\ last_event_id \in 0..Cardinality(Eids)
  /\ ev \in [Eids -> [st : {"unused", "live", "freed"}, deny : BOOLEAN,
                      assigned : Int, dep : BOOLEAN]]
  /\ rdSem \subseteq Requesters /\ wrSem \in BOOLEAN
  /\ workOwner \in Workers \cup {None}
  /\ rpc \in [Requesters -> {"idle", "fanout", "wait"}]
  /\ pc \in [Workers -> {"closed", "idle", "rt_store", "ge_wait", "ge_open",
                         "ge_report", "repost", "unclaim", "re_release", "ub",
                         "polled", "ub_poll"}]
  /\ hold \in [Workers -> GObjs \cup {None}]
  /\ cont \in [Workers -> Eids \cup {None}]
  /\ got \in [Workers -> SUBSET Eids]
  /\ pollq \in [Workers -> GObjs \cup {None}]
  /\ cpc \in {"idle", "add_link", "add_load", "add_inc"}
  /\ outcome \in [Eids -> {"none", "allowed", "denied"}]
  /\ requeued \subseteq Eids \X GObjs

(***************************************************************************)
(* The assigned count of every live event equals the number of containers  *)
(* linked for it plus the group releases in flight (a container unlinked   *)
(* by dazukofs_return_event whose release_event has not run yet), and no   *)
(* linked container refers to a freed event.  This is what lets           *)
(* check_access free the event when assigned reaches 0: it is broken by a  *)
(* drain that misses a list, a release that does not decrement, or a       *)
(* REPOST that releases.                                                   *)
(***************************************************************************)
InFlight(e) == {w \in Workers : pc[w] = "re_release" /\ cont[w] = e}

AssignedAccounting ==
  \A e \in Eids :
     /\ ev[e].st = "live" =>
          ev[e].assigned = Cardinality({g \in GObjs : Linked(e, g)})
                           + Cardinality(InFlight(e))
     /\ (\E g \in GObjs : Linked(e, g)) \/ InFlight(e) # {} => ev[e].st = "live"

(***************************************************************************)
(* When check_access returns with an event, every group it was fanned out  *)
(* to has either answered it or dropped it by being removed, and the       *)
(* verdict is "denied" exactly when some group answered DENY (deny is      *)
(* sticky, removal never denies).                                          *)
(***************************************************************************)
ArbitrationOutcome ==
  \A e \in Eids : outcome[e] # "none" =>
     /\ \A g \in fanned[e] : g \in drained[e] \/ \E v \in Answer : <<g, v>> \in answered[e]
     /\ (outcome[e] = "denied") <=> (\E g \in fanned[e] : <<g, "DENY">> \in answered[e])

(***************************************************************************)
(* use_count of every linked group counts exactly the threads inside       *)
(* get_event / return_event on it and the tracked opens counted on it, and *)
(* track_count of a tracking group counts its tracked opens.  A group is   *)
(* reaped by dazukofs_add_group when use_count is 0, so a count below the  *)
(* holders frees a group in use, and one above them leaks it.              *)
(***************************************************************************)
GroupRefAccounting ==
  \A g \in Listed :
     /\ grp[g].use = Cardinality({w \in Workers : hold[w] = g})
                    + Cardinality({w \in Workers : topen[w] = g})
     /\ grp[g].tracking /\ ~grp[g].dep =>
          grp[g].track = Cardinality({w \in Workers : topen[w] = g})


(***************************************************************************)
(* Among the non-deprecated groups names and ids are unique, ids are below *)
(* GROUP_COUNT, and there are at most GROUP_COUNT of them (the devices     *)
(* <name>.0 .. <name>.9 address groups by id).                             *)
(***************************************************************************)
RegistryWellFormed ==
  /\ \A g, h \in Active : g # h => grp[g].name # grp[h].name /\ grp[g].gid # grp[h].gid
  /\ \A g \in Active : grp[g].gid < GROUP_COUNT
  /\ Cardinality(Active) <= GROUP_COUNT

(***************************************************************************)
(* Outside an add in progress and a tracking release in progress,          *)
(* group_count is the number of non-deprecated groups: check_access lets   *)
(* every open through unmediated when it reads 0, and sizes its container  *)
(* array by it.                                                            *)
(***************************************************************************)
GroupCountAccurate ==
  cpc = "idle" /\ \A w \in Workers : pc[w] # "rt_store"
    => group_count = Cardinality(Active)

(***************************************************************************)
(* Every container on a group's working_list is held by exactly one policy *)
(* thread of that group's device: the one between claim_event and the end  *)
(* of get_event, or on its way back to todo_list after a failed report, or *)
(* the one that read it and has yet to answer.  Two holders answer one     *)
(* container twice; none leaves it claimed for good, and check_access's    *)
(* wait with it.  A policy process that closes its device while holding    *)
(* events breaks it; close_strands shows the hang that follows.            *)
(***************************************************************************)
Holds(w, e, g) ==
  /\ Dev(w) = grp[g].gid
  /\ \/ cont[w] = e /\ pc[w] \in {"ge_open", "ge_report", "repost", "unclaim"}
     \/ e \in got[w]

WorkingOwned ==
  \A g \in Listed : \A e \in grp[g].working :
    Cardinality({w \in Workers : Holds(w, e, g)}) = 1

(***************************************************************************)
(* However threads of one device race between the wake-up test of          *)
(* get_event (is_event_available, under work_mutex) and claim_event (which *)
(* tests the list again under work_mutex), and whatever closes and         *)
(* removals happen meanwhile, no container on a working_list has two       *)
(* holders: one event is never handed to two threads of a group.           *)
(***************************************************************************)
ClaimExclusive ==
  \A g \in Listed : \A e \in grp[g].working :
    Cardinality({w \in Workers : Holds(w, e, g)}) <= 1

(***************************************************************************)
(* The order in which a group's policy threads are handed events: every    *)
(* container that a REPOST or a failed open put back (unclaim_event's      *)
(* list_add at the head) is ahead of every container not yet claimed, and  *)
(* those are in ascending event id, as assign_event_to_groups appended     *)
(* them under work_mutex.  A requeue at the tail, or a fan-out whose id    *)
(* and list insertion are not under one lock, breaks it.                   *)
(***************************************************************************)
TodoOrder ==
  \A g \in Listed :
    LET t == grp[g].todo IN
    \A i, j \in DOMAIN t :
      i < j /\ <<t[i], g>> \notin requeued => <<t[j], g>> \notin requeued /\ t[i] < t[j]

(***************************************************************************)
(* No thread touches group memory that a group removal freed while the    *)
(* thread was outside work_mutex: neither a container it is opening or     *)
(* reporting (open_file, the report of get_event, unclaim_event) nor the   *)
(* poll_queue of a group it slept on in poll, which dazukofs_poll stops    *)
(* counting in use_count before poll returns, so the next add may reap it. *)
(***************************************************************************)
NoUseAfterFree == \A w \in Workers : pc[w] \notin {"ub", "ub_poll"}

(***************************************************************************)
(* Every check_access that fanned out an event eventually returns: the     *)
(* uninterruptible wait ends.                                              *)
(***************************************************************************)
RequestCompletes == \A r \in Requesters : rpc[r] = "wait" ~> rpc[r] = "idle"


-----------------------------------------------------------------------------
(* Refinement: the detailed arbitration implements ArbitrationAbstract.     *)
(* A group still owes a verdict on an event while the event's container is *)
(* linked in its lists or a thread has unlinked it to release it with its  *)
(* answer (InFlight); the requester's wait ends when none is left.         *)

AbsPhase(e) == CASE outcome[e] # "none" -> "returned"
                 [] e <= last_event_id -> "waiting"
                 [] OTHER -> "unborn"

AbsPending(e) == {g \in GObjs : Linked(e, g)} \cup {hold[w] : w \in InFlight(e)}

Abs == INSTANCE ArbitrationAbstract
         WITH Events <- Eids, Groups <- GObjs,
              phase <- [e \in Eids |-> AbsPhase(e)],
              pending <- [e \in Eids |-> AbsPending(e)],
              deny <- [e \in Eids |-> ev[e].deny],
              verdict <- outcome

(***************************************************************************)
(* Every step of the kernel code is a step of the abstract arbitration or *)
(* leaves it unchanged: an event is posted once, to the groups it is      *)
(* linked into; a group leaves an event's pending set only by answering   *)
(* it (release_event with its deny) or by being removed (the lists        *)
(* drained), never twice; deny only grows; check_access returns only when *)
(* no group is pending, with the or of the answers.                       *)
(***************************************************************************)
AbstractArbitration == Abs!ASpec

=============================================================================
