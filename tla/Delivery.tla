------------------------------ MODULE Delivery ------------------------------
(***************************************************************************)
(* What the webhook notifier promises: "WebhookNotifier ensures reliable    *)
(* delivery of webhook notifications" (notification/webhook.ts:31-37).  A   *)
(* delivery is a message and the endpoint it is for.  Once due it stays due *)
(* until it is done, and only a fault (a crash, a change of the channels, a *)
(* failing write) takes it away; how often it is tried is not said.         *)
(***************************************************************************)
EXTENDS Integers

CONSTANT Deliveries

VARIABLES
    due,        \* deliveries that are wanted and that something still carries
    withdrawn,  \* deliveries under way that a change made unwanted
    done,       \* deliveries made at least once
    faults      \* what happened that is not the notifier's to repair

Init == due = {} /\ withdrawn = {} /\ done = {} /\ faults = 0

\* Deliveries become due; those withdrawn may be given up.
Owe ==
    /\ due \subseteq due' /\ due' \subseteq Deliveries \ done
    /\ withdrawn' \subseteq withdrawn
    /\ UNCHANGED <<done, faults>>

Deliver(d) ==
    /\ d \in due \cup withdrawn
    /\ due' = due \ {d} /\ withdrawn' \subseteq withdrawn \ {d}
    /\ done' = done \cup {d}
    /\ UNCHANGED faults

\* A delivery is lost, withdrawn, or due again, by a fault only.
Fault ==
    /\ faults' = faults + 1
    /\ due' \cup withdrawn' \subseteq Deliveries \ done
    /\ UNCHANGED done

Next == Owe \/ Fault \/ \E d \in Deliveries : Deliver(d)

Safety == Init /\ [][Next]_<<due, withdrawn, done, faults>>

Liveness == \A d \in Deliveries : d \in due ~> d \notin due
=============================================================================
