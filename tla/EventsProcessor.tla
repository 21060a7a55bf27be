--------------------------- MODULE EventsProcessor ---------------------------
(***************************************************************************)
(* The event pipeline of examples/events.  Debezium publishes the stored   *)
(* raw events on a topic; RawToProcessedProcessor (processor.ts) consumes  *)
(* it and posts an event derived from each message to the restlette of the *)
(* processed events, which runs in the same process (index.ts).            *)
(*                                                                         *)
(* An instance is a process that a supervisor starts again whenever it     *)
(* ends.  Every start draws a consumer group of its own and reads the      *)
(* topic from the beginning.  The topic has one partition.                 *)
(***************************************************************************)
EXTENDS Integers, Sequences, FiniteSets, SequencesExt

CONSTANTS
    Instances,     \* the processes
    Events,        \* the raw events
    Named,         \* those with a name: the others are skipped
    MaxPublished,  \* bound: messages on the topic
    MaxEnds,       \* bound: crashes, failed starts and stops
    MaxFailures,   \* bound: posts that fail or time out
    MaxRebalances  \* bound: rebalances of a consumer group

ASSUME EventsConstants ==
    /\ Named \subseteq Events
    /\ MaxPublished \in Nat /\ MaxEnds \in Nat
    /\ MaxFailures \in Nat /\ MaxRebalances \in Nat

VARIABLES
    topic,      \* the messages: each the full document of an event
    phase,      \* phase[i]: what process i is doing
    position,   \* position[i]: how many messages the consumer of i is past
    committed,  \* committed[i]: the offset committed for the group of i
    post,       \* post[i]: the post under way for the next message
    stored,     \* stored[i][e]: the processed events i made of e
    late,       \* late[i][e]: posts of e by i nobody waits for, which may be stored yet
    dropped,    \* the events a post of which failed or timed out
    ends,       \* how often a process ended (history)
    rebalances, \* how often a consumer fell back (history)
    runs        \* runs[i]: how often i has read from some offset on (history)

vars == <<topic, phase, position, committed, post, stored, late, dropped, ends,
          rebalances, runs>>

TypeOK ==
    /\ topic \in Seq(Events) /\ Len(topic) <= MaxPublished
    /\ phase \in [Instances -> {"down", "starting", "running", "stopping"}]
    /\ position \in [Instances -> Nat] /\ committed \in [Instances -> Nat]
    /\ \A i \in Instances : committed[i] <= position[i] /\ position[i] <= Len(topic)
    /\ post \in [Instances -> {"none", "sent", "stored"}]
    /\ \A i \in Instances : post[i] # "none" => position[i] < Len(topic)
    /\ stored \in [Instances -> [Events -> Nat]]
    /\ late \in [Instances -> [Events -> Nat]]
    /\ dropped \subseteq Named
    /\ ends \in 0 .. MaxEnds /\ rebalances \in 0 .. MaxRebalances
    /\ runs \in [Instances -> Nat]

Init ==
    /\ topic = <<>>
    /\ phase = [i \in Instances |-> "down"]
    /\ position = [i \in Instances |-> 0]
    /\ committed = [i \in Instances |-> 0]
    /\ post = [i \in Instances |-> "none"]
    /\ stored = [i \in Instances |-> [e \in Events |-> 0]]
    /\ late = [i \in Instances |-> [e \in Events |-> 0]]
    /\ dropped = {}
    /\ ends = 0
    /\ rebalances = 0
    /\ runs = [i \in Instances |-> 0]

-----------------------------------------------------------------------------
\* Debezium publishes the document of e: once, or again after it restarted
\* without its last offset.
Publish(e) ==
    /\ Len(topic) < MaxPublished
    /\ topic' = Append(topic, e)
    /\ UNCHANGED <<phase, position, committed, post, stored, late, dropped, ends, rebalances, runs>>

\* Plausible bugs of StartOffset: a group that is always the same, and one
\* that begins with what is published next.
FixedGroup(i) == committed[i]
FromTheEnd(i) == Len(topic)

\* Where the consumer of i starts: the group is new, fromBeginning is true.
StartOffset(i) == 0

\* The supervisor starts the process: the server, then processor.start().
Boot(i) ==
    /\ phase[i] = "down"
    /\ phase' = [phase EXCEPT ![i] = "starting"]
    /\ UNCHANGED <<topic, position, committed, post, stored, late, dropped, ends, rebalances, runs>>

\* The consumer is connected, subscribed and run.
Started(i) ==
    /\ phase[i] = "starting"
    /\ phase' = [phase EXCEPT ![i] = "running"]
    /\ position' = [position EXCEPT ![i] = StartOffset(i)]
    /\ committed' = [committed EXCEPT ![i] = StartOffset(i)]
    /\ runs' = [runs EXCEPT ![i] = @ + 1]
    /\ UNCHANGED <<topic, post, stored, late, dropped, ends, rebalances>>

\* The message the consumer of i is at.
Message(i) == topic[position[i] + 1]

Waiting(i) == post[i] = "none" /\ position[i] < Len(topic)

\* A plausible bug of Past: an offset is counted twice.
PastTwice(i) == position[i] + 2

\* eachMessage has returned: the consumer is past the message.
Past(i) == position[i] + 1

\* A message without a name is skipped.  While the processor stops any message
\* is, and its offset is committed like the others.
Skip(i) ==
    /\ Waiting(i)
    /\ \/ phase[i] = "running" /\ Message(i) \notin Named
       \/ phase[i] = "stopping"
    /\ position' = [position EXCEPT ![i] = Past(i)]
    /\ UNCHANGED <<topic, phase, committed, post, stored, late, dropped, ends, rebalances, runs>>

\* eachMessage posts the processed event, under a new id.
Take(i) ==
    /\ Waiting(i)
    /\ phase[i] = "running" /\ Message(i) \in Named
    /\ post' = [post EXCEPT ![i] = "sent"]
    /\ UNCHANGED <<topic, phase, position, committed, stored, late, dropped, ends, rebalances, runs>>

\* The restlette stores the processed event.
Store(i) ==
    /\ post[i] = "sent"
    /\ post' = [post EXCEPT ![i] = "stored"]
    /\ stored' = [stored EXCEPT ![i][Message(i)] = @ + 1]
    /\ UNCHANGED <<topic, phase, position, committed, late, dropped, ends, rebalances, runs>>

\* The post is answered, and axios has followed the redirect.
Answered(i) ==
    /\ post[i] = "stored"
    /\ post' = [post EXCEPT ![i] = "none"]
    /\ position' = [position EXCEPT ![i] = Past(i)]
    /\ UNCHANGED <<topic, phase, committed, stored, late, dropped, ends, rebalances, runs>>

\* A plausible bug of PastFailure: the message is consumed again.
TryAgain(i) == position[i]

\* eachMessage logs the error and returns: the offset moves on all the same.
PastFailure(i) == Past(i)

\* The post is refused, breaks, or takes more than 5 seconds.  What was sent
\* may be stored later, what was stored stays.
GiveUp(i) ==
    /\ post[i] # "none"
    /\ Cardinality(dropped) < MaxFailures
    /\ late' = IF post[i] = "sent" THEN [late EXCEPT ![i][Message(i)] = @ + 1] ELSE late
    /\ dropped' = dropped \cup {Message(i)}
    /\ post' = [post EXCEPT ![i] = "none"]
    /\ position' = [position EXCEPT ![i] = PastFailure(i)]
    /\ UNCHANGED <<topic, phase, committed, stored, ends, rebalances, runs>>

\* A post nobody waits for any more is stored, or is not.
LateStore(i, e) ==
    /\ late[i][e] > 0
    /\ late' = [late EXCEPT ![i][e] = @ - 1]
    /\ stored' \in {stored, [stored EXCEPT ![i][e] = @ + 1]}
    /\ UNCHANGED <<topic, phase, position, committed, post, dropped, ends, rebalances, runs>>

\* kafkajs commits the offset now and then.
Commit(i) ==
    /\ phase[i] \in {"running", "stopping"}
    /\ committed[i] < position[i]
    /\ committed' = [committed EXCEPT ![i] = position[i]]
    /\ UNCHANGED <<topic, phase, position, post, stored, late, dropped, ends, rebalances, runs>>

\* The consumer lost its session: it goes on where its group committed.
Rebalance(i) ==
    /\ phase[i] = "running" /\ post[i] = "none"
    /\ rebalances < MaxRebalances
    /\ rebalances' = rebalances + 1
    /\ position' = [position EXCEPT ![i] = committed[i]]
    /\ runs' = [runs EXCEPT ![i] = @ + 1]
    /\ UNCHANGED <<topic, phase, committed, post, stored, late, dropped, ends>>

\* SIGTERM: stop() clears running and waits for the consumer to disconnect.
Stop(i) ==
    /\ phase[i] = "running"
    /\ ends < MaxEnds
    /\ phase' = [phase EXCEPT ![i] = "stopping"]
    /\ ends' = ends + 1
    /\ UNCHANGED <<topic, position, committed, post, stored, late, dropped, rebalances, runs>>

\* The consumer has finished its message and is gone: process.exit(0).
Exit(i) ==
    /\ phase[i] = "stopping" /\ post[i] = "none"
    /\ phase' = [phase EXCEPT ![i] = "down"]
    /\ UNCHANGED <<topic, position, committed, post, stored, late, dropped, ends, rebalances, runs>>

\* The process ends at once: a crash, a start that fails, a signal before the
\* handlers are installed.
Crash(i) ==
    /\ phase[i] \in {"starting", "running"}
    /\ ends < MaxEnds
    /\ ends' = ends + 1
    /\ phase' = [phase EXCEPT ![i] = "down"]
    /\ late' = IF post[i] = "sent" THEN [late EXCEPT ![i][Message(i)] = @ + 1] ELSE late
    /\ post' = [post EXCEPT ![i] = "none"]
    /\ UNCHANGED <<topic, position, committed, stored, dropped, rebalances, runs>>

Process(i) ==
    \/ Boot(i) \/ Started(i) \/ Skip(i) \/ Take(i) \/ Store(i) \/ Answered(i) \/ Exit(i)

Next ==
    \/ \E e \in Events : Publish(e)
    \/ \E i \in Instances :
          \/ Process(i) \/ GiveUp(i) \/ Commit(i) \/ Rebalance(i) \/ Stop(i) \/ Crash(i)
          \/ \E e \in Events : LateStore(i, e)

\* The supervisor starts what ended, the consumer goes on to its next message,
\* and a post is answered unless GiveUp comes first.
Fairness == \A i \in Instances : WF_vars(Process(i))

Spec == Init /\ [][Next]_vars /\ Fairness

-----------------------------------------------------------------------------
\* How often e was published.
Copies(e) == Cardinality({o \in 1 .. Len(topic) : topic[o] = e})

\* The named events of which a processed event was stored.
Delivered == {e \in Named : \E i \in Instances : stored[i][e] > 0}

\* An event whose message a running processor is past was stored as a
\* processed event, or a post of it failed: nothing is passed over, not by a
\* rebalance, a restart or a late answer (eachMessage).
NothingPassedOver ==
    \A i \in Instances : phase[i] = "running" =>
        \A o \in 1 .. position[i] :
            topic[o] \in Named => topic[o] \in Delivered \cup dropped

\* The processed events that i made of e are at most one for each time it read
\* a message of e: a post that timed out and was stored all the same is not
\* repeated within a run (eachMessage, start).
OncePerReading ==
    \A i \in Instances, e \in Events : stored[i][e] + late[i][e] <= Copies(e) * runs[i]

\* "Exactly-once semantics: Debezium + Kafka provide guarantees", beside
\* "Horizontal scaling: Add more processor instances trivially"
\* (examples/events/README.md): an event published once is stored once.
ExactlyOnce ==
    \A e \in Events :
        Copies(e) <= 1 => SumFunction([i \in Instances |-> stored[i][e]]) <= 1

\* The pipeline delivers at least once, except for the events a post of which
\* failed, however often its processes crash, stop and start (start, stop).
Pipeline == INSTANCE AtLeastOnce WITH
    Events <- Named,
    published <- ToSet(topic) \cap Named,
    delivered <- Delivered,
    excused <- dropped

DeliversAtLeastOnce == Pipeline!Spec
=============================================================================
