------------------------- MODULE ArbitrationAbstract -------------------------
(***************************************************************************)
(* What dazukofs_check_access promises of one access event, stated without *)
(* groups' lists, containers, threads or locks: the event is posted to a  *)
(* set of groups; each of them either answers it (allow or deny) or drops *)
(* it when the group goes away; the access returns once no group is left  *)
(* pending, denied exactly when some answer denied it.                    *)
(***************************************************************************)
EXTENDS FiniteSets

CONSTANTS
  Events,        \* access events (event ids)
  Groups         \* groups an event can be posted to

VARIABLES
  phase,         \* [Events -> {"unborn", "waiting", "returned"}]
  pending,       \* [Events -> SUBSET Groups]: groups still owing a verdict
  deny,          \* [Events -> BOOLEAN]: some answer so far denied
  verdict        \* [Events -> {"none", "allowed", "denied"}]

avars == <<phase, pending, deny, verdict>>

AInit ==
  /\ phase = [e \in Events |-> "unborn"]
  /\ pending = [e \in Events |-> {}]
  /\ deny = [e \in Events |-> FALSE]
  /\ verdict = [e \in Events |-> "none"]

\* The access is posted to the groups G (possibly none).
Post(e, G) ==
  /\ phase[e] = "unborn"
  /\ phase' = [phase EXCEPT ![e] = "waiting"]
  /\ pending' = [pending EXCEPT ![e] = G]
  /\ UNCHANGED <<deny, verdict>>

\* Group g answers; a deny is never taken back.
Answer(e, g, d) ==
  /\ phase[e] = "waiting" /\ g \in pending[e]
  /\ pending' = [pending EXCEPT ![e] = @ \ {g}]
  /\ deny' = [deny EXCEPT ![e] = @ \/ d]
  /\ UNCHANGED <<phase, verdict>>

\* Group g goes away and drops, without a verdict, the events E it owes.
Drop(g, E) ==
  /\ E # {}
  /\ \A e \in E : phase[e] = "waiting" /\ g \in pending[e]
  /\ pending' = [e \in Events |-> IF e \in E THEN pending[e] \ {g} ELSE pending[e]]
  /\ UNCHANGED <<phase, deny, verdict>>

\* The access returns once no group is pending.
Return(e) ==
  /\ phase[e] = "waiting" /\ pending[e] = {}
  /\ phase' = [phase EXCEPT ![e] = "returned"]
  /\ verdict' = [verdict EXCEPT ![e] = IF deny[e] THEN "denied" ELSE "allowed"]
  /\ UNCHANGED <<pending, deny>>

ANext ==
  \/ \E e \in Events : \/ \E G \in SUBSET Groups : Post(e, G)
                       \/ \E g \in Groups, d \in BOOLEAN : Answer(e, g, d)
                       \/ Return(e)
  \/ \E g \in Groups, E \in SUBSET Events : Drop(g, E)

ASpec == AInit /\ [][ANext]_avars
=============================================================================
