------------------------------- MODULE Outbox -------------------------------
(***************************************************************************)
(* What the webhook pipeline promises whatever fails in it: an event of a  *)
(* gateway is applied at most once, an announcement is written at most     *)
(* once and only for an applied event that owns it.  It does not promise   *)
(* that every applied event is announced: see WebhookPipeline.             *)
(***************************************************************************)
EXTENDS Naturals

CONSTANTS Event, Key, NoKey, KeyOf

VARIABLES
    applied,        \* how often each event took effect
    announced       \* the announcements written

vars == <<applied, announced>>

Init ==
    /\ applied = [e \in Event |-> 0]
    /\ announced = {}

Apply(e) ==
    /\ applied[e] = 0
    /\ applied' = [applied EXCEPT ![e] = 1]
    /\ UNCHANGED announced

Announce(k) ==
    /\ k \notin announced
    /\ \E e \in Event : KeyOf[e] = k /\ applied[e] > 0
    /\ announced' = announced \cup {k}
    /\ UNCHANGED applied

Next ==
    \/ \E e \in Event : Apply(e)
    \/ \E k \in Key : Announce(k)

Spec == Init /\ [][Next]_vars
=============================================================================
