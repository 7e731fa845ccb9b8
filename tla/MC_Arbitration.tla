--------------------------- MODULE MC_Arbitration ---------------------------
(* Instantiations of Arbitration for TLC: two requesters, two policy        *)
(* threads, two group names and a control script per run.                   *)
EXTENDS Arbitration, TLC

CONSTANTS r1, r2, w1, w2, a, b

MC_Requesters == {r1, r2}
MC_Workers == {w1, w2}
MC_Names == {a, b}
MC_OneRequester == {r1}

\* one thread on device .0 and one on device .1
MC_DevSplit == [w \in MC_Workers |-> IF w = w1 THEN 0 ELSE 1]
\* both threads on device .0
MC_DevShared == [w \in MC_Workers |-> 0]

Add(n) == [op |-> "add", name |-> n]
AddTrack(n) == [op |-> "addtrack", name |-> n]
Del(n) == [op |-> "del", name |-> n]

\* two groups, one removed and added again (reaping, id reuse)
MC_CoreScript == <<Add(a), Add(b), Del(a), Add(a)>>
\* a group made tracking by addtrack=, and a second group added while it
\* may auto-remove
MC_TrackScript == <<Add(a), AddTrack(a), Add(b)>>
\* two groups, one removed while its events are pending
MC_LiveScript == <<Add(a), Add(b), Del(a)>>
\* one group, served by two threads
MC_OneGroupScript == <<Add(a)>>
\* a tracking group removed and added again under the same name and id
MC_ReuseScript == <<AddTrack(a), Del(a), AddTrack(a)>>

\* The state without the ghost requeued, which no guard reads: states that
\* differ only in it have the same successors, so merging them is exact.
MC_LiveView == <<regVars, lockVars, reqVars, wkVars, ctlVars,
                 topen, fanned, answered, drained, outcome>>

=============================================================================
