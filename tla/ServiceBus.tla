----------------------------- MODULE ServiceBus -----------------------------
(***************************************************************************)
(* LocalChannel of crates/service-bus, with BusAuditSink of services/llmd  *)
(* as its publisher: emit spawns a task per event, the tasks of several    *)
(* events run at the same time, and each of them publishes its event.      *)
(*                                                                         *)
(* publish holds the lock only while it copies the topic's senders; the    *)
(* sends come one after the other without it.  received, dropped and the   *)
(* numbers of started and ended are history variables.                     *)
(***************************************************************************)
EXTENDS Naturals, Sequences, FiniteSets, SequencesExt

CONSTANTS Topics,
          Subscribers,  \* receivers, each subscribed at most once
          Capacity,     \* of each subscriber's queue
          MaxEmitted,   \* bound: events emitted
          NoTopic       \* the topic of a receiver that has not subscribed yet

Events == 1..MaxEmitted

\* mpsc::channel panics on a capacity of 0.
ASSUME BusAssumption == /\ Capacity \in Nat \ {0}
                        /\ MaxEmitted \in Nat
                        /\ NoTopic \notin Topics

VARIABLES subscribers,  \* subscribers[t]: the senders of topic t, in order
          topic,        \* topic[s]: what receiver s is subscribed to
          open,         \* the receivers that have not been dropped
          queue,        \* queue[s]: the mpsc channel of s
          emitted,      \* how many events have been emitted
          task,         \* task[e]: the spawned task that publishes event e
          received,     \* received[s]: the events s has taken from its queue
          dropped,      \* the pairs of event and receiver where try_send failed
          clock         \* counts the starts and ends of publish calls

busVars == <<subscribers, topic, open, queue, emitted, task, received, dropped, clock>>

\* "new", "spawned", "sending" with the senders still to come, "ok", "failed".
NewTask == [stage |-> "new", topic |-> NoTopic, senders |-> <<>>, all |-> {},
            started |-> 0, ended |-> 0]

BusInit == /\ subscribers = [t \in Topics |-> <<>>]
           /\ topic = [s \in Subscribers |-> NoTopic]
           /\ open = {}
           /\ queue = [s \in Subscribers |-> <<>>]
           /\ emitted = 0
           /\ task = [e \in Events |-> NewTask]
           /\ received = [s \in Subscribers |-> <<>>]
           /\ dropped = {}
           /\ clock = 0
-----------------------------------------------------------------------------
\* try_send would put a message into the queue of s.
CanTake(s) == s \in open /\ Len(queue[s]) < Capacity

subscribe(s, t) == /\ topic[s] = NoTopic
                   /\ topic' = [topic EXCEPT ![s] = t]
                   /\ open' = open \cup {s}
                   /\ subscribers' = [subscribers EXCEPT ![t] = Append(@, s)]
                   /\ UNCHANGED <<queue, emitted, task, received, dropped, clock>>

\* External: the subscriber drops its receiver.  Its sender stays where it is.
DropReceiver(s) == /\ s \in open
                   /\ open' = open \ {s}
                   /\ queue' = [queue EXCEPT ![s] = <<>>]
                   /\ UNCHANGED <<subscribers, topic, emitted, task, received, dropped, clock>>

\* External: the subscriber takes the next message.
Receive(s) == /\ s \in open
              /\ queue[s] # <<>>
              /\ received' = [received EXCEPT ![s] = Append(@, Head(queue[s]))]
              /\ queue' = [queue EXCEPT ![s] = Tail(@)]
              /\ UNCHANGED <<subscribers, topic, open, emitted, task, dropped, clock>>

\* BusAuditSink::emit, and any other spawned publisher.
emit(t) == /\ emitted < MaxEmitted
           /\ emitted' = emitted + 1
           /\ task' = [task EXCEPT ![emitted + 1].stage = "spawned",
                                   ![emitted + 1].topic = t]
           /\ UNCHANGED <<subscribers, topic, open, queue, received, dropped, clock>>

\* publish up to the release of the lock.
PublishBegins(e) ==
    /\ task[e].stage = "spawned"
    /\ subscribers[task[e].topic] # <<>>
    /\ clock' = clock + 1
    /\ task' = [task EXCEPT ![e].stage = "sending",
                            ![e].senders = subscribers[task[e].topic],
                            ![e].all = ToSet(subscribers[task[e].topic]),
                            ![e].started = clock + 1]
    /\ UNCHANGED <<subscribers, topic, open, queue, emitted, received, dropped>>

\* The topic has no senders: NoSubscribers, and emit's task only warns.
PublishFindsNone(e) ==
    /\ task[e].stage = "spawned"
    /\ subscribers[task[e].topic] = <<>>
    /\ task' = [task EXCEPT ![e].stage = "failed"]
    /\ UNCHANGED <<subscribers, topic, open, queue, emitted, received, dropped, clock>>

Sending(e) == task[e].stage = "sending" /\ task[e].senders # <<>>

\* A mutant: the first failure ends the loop.
MutTrySendStops(e) ==
    /\ Sending(e)
    /\ LET s == Head(task[e].senders) IN
           IF CanTake(s)
           THEN /\ queue' = [queue EXCEPT ![s] = Append(@, e)] /\ UNCHANGED dropped
                /\ task' = [task EXCEPT ![e].senders = Tail(@)]
           ELSE /\ dropped' = dropped \cup {<<e, s>>} /\ UNCHANGED queue
                /\ task' = [task EXCEPT ![e].senders = <<>>]
    /\ UNCHANGED <<subscribers, topic, open, emitted, received, clock>>

\* A mutant: a slow receiver gets the newest message first.
MutTrySendInFront(e) ==
    /\ Sending(e)
    /\ LET s == Head(task[e].senders) IN
           IF s \in open
           THEN queue' = [queue EXCEPT ![s] = <<e>> \o @] /\ UNCHANGED dropped
           ELSE dropped' = dropped \cup {<<e, s>>} /\ UNCHANGED queue
    /\ task' = [task EXCEPT ![e].senders = Tail(@)]
    /\ UNCHANGED <<subscribers, topic, open, emitted, received, clock>>

\* try_send to the next sender; a full or closed channel is only warned about.
TrySend(e) ==
    /\ Sending(e)
    /\ LET s == Head(task[e].senders) IN
           IF CanTake(s)
           THEN queue' = [queue EXCEPT ![s] = Append(@, e)] /\ UNCHANGED dropped
           ELSE dropped' = dropped \cup {<<e, s>>} /\ UNCHANGED queue
    /\ task' = [task EXCEPT ![e].senders = Tail(@)]
    /\ UNCHANGED <<subscribers, topic, open, emitted, received, clock>>

PublishReturns(e) ==
    /\ task[e].stage = "sending" /\ task[e].senders = <<>>
    /\ clock' = clock + 1
    /\ task' = [task EXCEPT ![e].stage = "ok", ![e].ended = clock + 1]
    /\ UNCHANGED <<subscribers, topic, open, queue, emitted, received, dropped>>

Publish(e) == PublishBegins(e) \/ PublishFindsNone(e) \/ TrySend(e) \/ PublishReturns(e)

\* Everything has been published, whatever is left to receive.
AllPublished == /\ \A e \in Events : task[e].stage \in {"ok", "failed"}
                /\ UNCHANGED busVars

BusNext == \/ \E s \in Subscribers, t \in Topics : subscribe(s, t)
           \/ \E s \in Subscribers : DropReceiver(s) \/ Receive(s)
           \/ \E t \in Topics : emit(t)
           \/ \E e \in Events : Publish(e)
           \/ AllPublished

BusSpec == BusInit /\ [][BusNext]_busVars
-----------------------------------------------------------------------------
\* What s has got or will get, in order.
Stream(s) == received[s] \o queue[s]

\* A published event reached every receiver that was subscribed to its topic when
\* publish began, unless that receiver's own queue was full or closed: one
\* subscriber's failure never costs another one the event, and never brings it to
\* another one twice or on a topic it did not subscribe to.
EverySubscriberServed ==
    /\ \A e \in Events : task[e].stage = "ok" =>
           \A s \in task[e].all :
               <<e, s>> \in dropped \/ s \notin open \/ e \in ToSet(Stream(s))
    /\ \A s \in Subscribers :
           /\ IsInjective(Stream(s))
           /\ \A e \in ToSet(Stream(s)) : task[e].topic = topic[s]

\* Events whose publish calls did not overlap arrive in the order of those
\* calls.  (Overlapping ones may come in any order, and in different orders at
\* different receivers.)
SequentialInOrder ==
    \A s \in Subscribers : \A i, j \in DOMAIN Stream(s) :
        LET a == task[Stream(s)[i]]
            b == task[Stream(s)[j]]
        IN  a.ended > 0 /\ a.ended < b.started => i < j
=============================================================================
