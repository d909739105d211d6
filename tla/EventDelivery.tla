---------------------------- MODULE EventDelivery ----------------------------
(***************************************************************************)
(* Delivery of events by the event bus service                             *)
(* (services/eventbus/src/anumate_eventbus_service/eventbus_core.py): one  *)
(* durable consumer of the stream, served by the members of a queue group  *)
(* that run EventBusService.subscribe's message_handler.                   *)
(*                                                                         *)
(* The stream is NATS JetStream, modelled from how the code uses it:       *)
(* explicit acknowledgement, ack_wait, nak, and at most max_deliver        *)
(* deliveries of an event, after which it is offered no more.  Handlers    *)
(* are the services' own code: they succeed or raise.                      *)
(*                                                                         *)
(* Faults: a member crashes, an ack or nak raises or is lost on its way, a *)
(* handler runs longer than ack_wait, the dead letter stream refuses a     *)
(* message.                                                                *)
(* Tracking in Redis is left out: its failures are swallowed.              *)
(***************************************************************************)
EXTENDS Naturals, FiniteSets

CONSTANTS
    Events,            \* events that may be published
    Wanted,            \* those whose type the subscription names, and unreadable ones
    Members,           \* members of the queue group
    MaxDeliver,        \* EventSubscription.max_deliver
    DeadLetterFails,   \* whether the dead letter stream may refuse a message
    MaxCrashes         \* bound: crashes of members in one behaviour

ASSUME WantedAssumption == Wanted \subseteq Events
ASSUME MaxDeliverAssumption == MaxDeliver \in Nat \ {0}
ASSUME DeadLetterFailsAssumption == DeadLetterFails \in BOOLEAN
ASSUME MaxCrashesAssumption == MaxCrashes \in Nat

VARIABLES
    stream,        \* the server's view of each event
    delivered,     \* how often each event has been delivered (num_delivered)
    members,       \* what each member of the queue group is doing
    deadLetters,   \* messages in the dead letter stream, per event
    crashes,       \* crashes so far, up to MaxCrashes
    handled,       \* history: how often the handler has succeeded, per event
    late,          \* history: events whose acknowledgement was late or failed
    cutShort,      \* history: events whose last delivery a crash ended
    refused        \* history: events the dead letter stream refused

vars == <<stream, delivered, members, deadLetters, crashes,
          handled, late, cutShort, refused>>
history == <<handled, late, cutShort, refused>>

-----------------------------------------------------------------------------
\* What a member holds between two awaits of message_handler

Idle == [pc |-> "idle"]

Working == [pc: {"handling", "acking", "nacking", "burying", "closing"},
            event: Events, attempt: 1..MaxDeliver]

At(m, pc) == members[m].pc = pc

Moves(m, pc) == members' = [members EXCEPT ![m] =
    [pc |-> pc, event |-> members[m].event, attempt |-> members[m].attempt]]

Leaves(m) == members' = [members EXCEPT ![m] = Idle]

\* The member works on the last delivery of the event
LastAttemptOf(m, e) ==
    members[m] # Idle /\ members[m].event = e /\ members[m].attempt = MaxDeliver

-----------------------------------------------------------------------------
\* The stream (external)

Publish(e) ==
    /\ stream[e] = "unpublished"
    /\ stream' = [stream EXCEPT ![e] = "pending"]
    /\ UNCHANGED <<delivered, members, deadLetters, crashes, history>>

\* The event goes back to the consumer, unless it has been delivered max_deliver times
Offered(e) == [stream EXCEPT ![e] =
    IF delivered[e] < MaxDeliver THEN "pending" ELSE "exhausted"]

\* ack_wait passes without an acknowledgement: the member is slow or gone,
\* or its answer was lost
Expire(e) ==
    /\ stream[e] = "unacked"
    /\ stream' = Offered(e)
    /\ late' = late \cup {e}
    /\ UNCHANGED <<delivered, members, deadLetters, crashes, handled, cutShort, refused>>

-----------------------------------------------------------------------------
\* message_handler

\* The callback starts with the next delivery of e
Receive(m, e, pc) ==
    /\ members[m] = Idle
    /\ stream[e] = "pending"
    /\ stream' = [stream EXCEPT ![e] = "unacked"]
    /\ delivered' = [delivered EXCEPT ![e] = delivered[e] + 1]
    /\ members' = [members EXCEPT ![m] =
            [pc |-> pc, event |-> e, attempt |-> delivered[e] + 1]]
    /\ UNCHANGED <<deadLetters, crashes, history>>

\* Mutant: the type filter is inverted
MutDeliver(m, e) == Receive(m, e, IF e \in Wanted THEN "acking" ELSE "handling")

\* An event of a type nobody asked for is only acknowledged
Deliver(m, e) == Receive(m, e, IF e \in Wanted THEN "handling" ELSE "acking")

\* Mutant: a success is answered with nak
MutHandlerReturns(m) ==
    /\ At(m, "handling")
    /\ handled' = [handled EXCEPT ![members[m].event] = handled[members[m].event] + 1]
    /\ Moves(m, "nacking")
    /\ UNCHANGED <<stream, delivered, deadLetters, crashes, late, cutShort, refused>>

HandlerReturns(m) ==
    /\ At(m, "handling")
    /\ handled' = [handled EXCEPT ![members[m].event] = handled[members[m].event] + 1]
    /\ Moves(m, "acking")
    /\ UNCHANGED <<stream, delivered, deadLetters, crashes, late, cutShort, refused>>

\* Mutant: the last delivery is negatively acknowledged as well
MutExceptBranch(m) == IF members[m].attempt > MaxDeliver THEN "burying" ELSE "nacking"

\* Where the except clause goes: num_delivered >= max_deliver
ExceptBranch(m) == IF members[m].attempt >= MaxDeliver THEN "burying" ELSE "nacking"

HandlerRaises(m) ==
    /\ At(m, "handling")
    /\ Moves(m, ExceptBranch(m))
    /\ UNCHANGED <<stream, delivered, deadLetters, crashes, history>>

\* The server gets an ack: it forgets an event it waits for or will offer again
Acknowledged(e) == [stream EXCEPT ![e] =
    IF stream[e] \in {"unacked", "pending"} THEN "acked" ELSE stream[e]]

Ack(m) ==
    /\ At(m, "acking") \/ At(m, "closing")
    /\ stream' = Acknowledged(members[m].event)
    /\ Leaves(m)
    /\ UNCHANGED <<delivered, deadLetters, crashes, history>>

\* msg.ack raises inside the try: an event that was handled is treated as failed
AckRaises(m) ==
    /\ At(m, "acking")
    /\ Moves(m, ExceptBranch(m))
    /\ late' = late \cup {members[m].event}
    /\ UNCHANGED <<stream, delivered, deadLetters, crashes, handled, cutShort, refused>>

\* msg.nak
Nak(m) ==
    /\ At(m, "nacking")
    /\ stream' = IF stream[members[m].event] = "unacked"
                 THEN Offered(members[m].event) ELSE stream
    /\ Leaves(m)
    /\ UNCHANGED <<delivered, deadLetters, crashes, history>>

\* The answer does not reach the server, or raises in the except clause
AnswerLost(m) ==
    /\ members[m].pc \in {"acking", "nacking", "closing"}
    /\ Leaves(m)
    /\ UNCHANGED <<stream, delivered, deadLetters, crashes, history>>

\* _send_to_dead_letter; its caller acknowledges the event in any case
Bury(m) ==
    /\ At(m, "burying")
    /\ LET e == members[m].event IN
        \/ /\ deadLetters' = [deadLetters EXCEPT ![e] = deadLetters[e] + 1]
           /\ UNCHANGED refused
        \/ /\ DeadLetterFails
           /\ refused' = refused \cup {e}
           /\ UNCHANGED deadLetters
    /\ Moves(m, "closing")
    /\ UNCHANGED <<stream, delivered, crashes, handled, late, cutShort>>

\* The member's process dies and is started again
Crash(m) ==
    /\ members[m] # Idle
    /\ crashes < MaxCrashes
    /\ crashes' = crashes + 1
    /\ Leaves(m)
    /\ cutShort' = IF members[m].attempt = MaxDeliver
                   THEN cutShort \cup {members[m].event} ELSE cutShort
    /\ UNCHANGED <<stream, delivered, deadLetters, handled, late, refused>>

-----------------------------------------------------------------------------
Init ==
    /\ stream = [e \in Events |-> "unpublished"]
    /\ delivered = [e \in Events |-> 0]
    /\ members = [m \in Members |-> Idle]
    /\ deadLetters = [e \in Events |-> 0]
    /\ crashes = 0
    /\ handled = [e \in Events |-> 0]
    /\ late = {}
    /\ cutShort = {}
    /\ refused = {}

Handle(m) ==
    \/ HandlerReturns(m)
    \/ HandlerRaises(m)
    \/ Bury(m)
    \/ Ack(m)
    \/ AckRaises(m)
    \/ Nak(m)
    \/ AnswerLost(m)

Next ==
    \/ \E e \in Events : Publish(e) \/ Expire(e) \/ \E m \in Members : Deliver(m, e)
    \/ \E m \in Members : Handle(m) \/ Crash(m)

Spec == Init /\ [][Next]_vars

(* The server offers events and notices missing acknowledgements, and a    *)
(* member that runs finishes the callback it is in.                        *)
FairSpec ==
    /\ Spec
    /\ \A e \in Events :
        WF_vars(Expire(e)) /\ SF_vars(\E m \in Members : Deliver(m, e))
    /\ \A m \in Members : WF_vars(Handle(m))

-----------------------------------------------------------------------------
\* Properties

TypeOK ==
    /\ stream \in [Events -> {"unpublished", "pending", "unacked", "acked", "exhausted"}]
    /\ delivered \in [Events -> 0..MaxDeliver]
    /\ members \in [Members -> {Idle} \cup Working]
    /\ deadLetters \in [Events -> Nat]
    /\ crashes \in 0..MaxCrashes
    /\ handled \in [Events -> Nat]
    /\ late \subseteq Events
    /\ cutShort \subseteq Events
    /\ refused \subseteq Events

Accounted(e) == handled[e] > 0 \/ deadLetters[e] > 0

\* No member will still do something about the last delivery of e
NobodyOnLast(e) == \A m \in Members : ~LastAttemptOf(m, e)

(* The server is done with a wanted event only when it was handled or      *)
(* dead-lettered, or will be by the member that has its last delivery.     *)
(* Only a crash in that delivery or a refused dead letter lose an event,   *)
(* whatever answers are lost and however slow handlers are.                *)
LossNeedsAFault ==
    \A e \in Wanted :
        stream[e] \in {"acked", "exhausted"} =>
            \/ Accounted(e)
            \/ e \in cutShort \cup refused
            \/ stream[e] = "exhausted" /\ ~NobodyOnLast(e)

(* An event is dead-lettered once, by its last delivery.                   *)
DeadLetteredOnce ==
    \A e \in Events :
        /\ deadLetters[e] <= 1
        /\ deadLetters[e] = 1 => delivered[e] = MaxDeliver

(* A handler that succeeded on an event sees it again only if an           *)
(* acknowledgement was late, lost or raised.                               *)
RepeatNeedsExpiry ==
    \A e \in Events : handled[e] > 1 => e \in late

(* Every published event a subscription wants is handled or dead-lettered, *)
(* or one of the two faults hit its last delivery.                         *)
EventuallyAccounted ==
    \A e \in Wanted :
        stream[e] = "pending" ~> Accounted(e) \/ e \in cutShort \cup refused

-----------------------------------------------------------------------------
\* What the service's README says

=============================================================================
