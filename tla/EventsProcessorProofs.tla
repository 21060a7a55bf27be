------------------------ MODULE EventsProcessorProofs ------------------------
(***************************************************************************)
(* Proofs about EventsProcessor, for any number of processes, events,      *)
(* messages, crashes, failed posts and rebalances: the types, the two      *)
(* safety properties, and the safety part of the refinement of             *)
(* AtLeastOnce.                                                            *)
(***************************************************************************)
EXTENDS EventsProcessor, FiniteSetTheorems, TLAPS

\* A post is under way only while its consumer runs, for a named message; an
\* event was posted only if it is on the topic.
PostInv ==
    /\ \A i \in Instances : post[i] # "none" =>
          /\ phase[i] \in {"running", "stopping"}
          /\ Message(i) \in Named
    /\ \A i \in Instances : post[i] = "stored" => stored[i][Message(i)] > 0
    /\ \A i \in Instances, e \in Events : stored[i][e] + late[i][e] > 0 =>
          e \in ToSet(topic) \cap Named
    /\ dropped \subseteq ToSet(topic)

\* How often e is among the first k messages of s.
CopiesUpTo(s, e, k) == Cardinality({o \in 1 .. k : s[o] = e})

\* The messages i has read in its present run.
Reached(i) == IF post[i] = "none" THEN position[i] ELSE position[i] + 1

\* The post of i under way may still store e.
Pending(i, e) == IF post[i] = "sent" /\ Message(i) = e THEN 1 ELSE 0

\* A run stores an event at most once for each of its messages it has read; a
\* run that is over may have read them all.
WithinReadings(i, e) ==
    IF phase[i] \in {"running", "stopping"}
    THEN /\ runs[i] > 0
         /\ stored[i][e] + late[i][e] + Pending(i, e)
               <= Copies(e) * (runs[i] - 1) + CopiesUpTo(topic, e, Reached(i))
    ELSE stored[i][e] + late[i][e] <= Copies(e) * runs[i]

ReadingInv == \A i \in Instances, e \in Events : WithinReadings(i, e)

IInv == TypeOK /\ PostInv /\ NothingPassedOver /\ ReadingInv

(***************************************************************************)
(* The topic.                                                              *)
(***************************************************************************)

\* Publishing adds a message at the end.
LEMMA Published ==
    ASSUME NEW s \in Seq(Events), NEW e \in Events
    PROVE  /\ Append(s, e) \in Seq(Events)
           /\ Len(Append(s, e)) = Len(s) + 1
           /\ \A o \in 1 .. Len(s) : Append(s, e)[o] = s[o]
           /\ Append(s, e)[Len(s) + 1] = e
           /\ ToSet(Append(s, e)) = ToSet(s) \cup {e}
<1>1. /\ Append(s, e) \in Seq(Events)
      /\ Len(Append(s, e)) = Len(s) + 1
      /\ \A o \in 1 .. Len(s) : Append(s, e)[o] = s[o]
      /\ Append(s, e)[Len(s) + 1] = e
  OBVIOUS
<1>2. DOMAIN s = 1 .. Len(s) /\ DOMAIN Append(s, e) = 1 .. (Len(s) + 1) /\ Len(s) \in Nat
  OBVIOUS
<1>3. ToSet(Append(s, e)) = ToSet(s) \cup {e}
  BY <1>1, <1>2 DEF ToSet
<1> QED BY <1>1, <1>3

\* Counting one message further counts one copy more, or none.
LEMMA CopiesNext ==
    ASSUME NEW s, NEW e, NEW k \in Nat
    PROVE  /\ CopiesUpTo(s, e, k) \in Nat
           /\ CopiesUpTo(s, e, k + 1) = CopiesUpTo(s, e, k) + (IF s[k + 1] = e THEN 1 ELSE 0)
<1> DEFINE C(n) == {o \in 1 .. n : s[o] = e}
<1>1. IsFiniteSet(C(k))
  <2>1. IsFiniteSet(1 .. k) /\ C(k) \subseteq 1 .. k
    BY FS_Interval
  <2> QED BY <2>1, FS_Subset
<1>2. k + 1 \notin C(k)
  OBVIOUS
<1>3. C(k + 1) = IF s[k + 1] = e THEN C(k) \cup {k + 1} ELSE C(k)
  <2>1. 1 .. (k + 1) = (1 .. k) \cup {k + 1}
    OBVIOUS
  <2> QED BY <2>1
<1>4. Cardinality(C(k)) \in Nat
  BY <1>1, FS_CardinalityType
<1>5. Cardinality(C(k) \cup {k + 1}) = Cardinality(C(k)) + 1
  BY <1>1, <1>2, FS_AddElement
<1> QED BY <1>3, <1>4, <1>5 DEF CopiesUpTo

\* The messages read hold no more copies of an event than the topic.
LEMMA CopiesBound ==
    ASSUME NEW s, NEW e, NEW k \in Nat, NEW m \in Nat, k <= m
    PROVE  CopiesUpTo(s, e, k) <= CopiesUpTo(s, e, m)
<1> DEFINE C(n) == {o \in 1 .. n : s[o] = e}
<1>1. IsFiniteSet(C(m))
  <2>1. IsFiniteSet(1 .. m) /\ C(m) \subseteq 1 .. m
    BY FS_Interval
  <2> QED BY <2>1, FS_Subset
<1>2. C(k) \subseteq C(m)
  OBVIOUS
<1> QED BY <1>1, <1>2, FS_Subset DEF CopiesUpTo

\* The first messages stay what they are when another one is published.
LEMMA CopiesKept ==
    ASSUME NEW s \in Seq(Events), NEW e \in Events, NEW d \in Events,
           NEW k \in 0 .. Len(s)
    PROVE  CopiesUpTo(Append(s, d), e, k) = CopiesUpTo(s, e, k)
<1>1. \A o \in 1 .. k : Append(s, d)[o] = s[o]
  BY Published
<1>2. {o \in 1 .. k : Append(s, d)[o] = e} = {o \in 1 .. k : s[o] = e}
  BY <1>1
<1> QED BY <1>2 DEF CopiesUpTo

\* Readings of whole runs grow with the copies and with the runs.
LEMMA Readings ==
    ASSUME NEW a \in Nat, NEW b \in Nat, NEW n \in Nat, a <= b
    PROVE  /\ a * n <= b * n /\ a * n \in Nat
           /\ a * (n + 1) = a * n + a
<1>1. a * n >= 0 /\ (b - a) * n >= 0 /\ a * n \in Int
  OBVIOUS
<1>2. (b - a) * n = b * n - a * n
  OBVIOUS
<1> QED BY <1>1, <1>2

(***************************************************************************)
(* Types and posts.                                                        *)
(***************************************************************************)

\* The message of a post under way, or about to be sent, is on the topic.
LEMMA MessageIsPublished ==
    ASSUME TypeOK, NEW i \in Instances, position[i] < Len(topic)
    PROVE  /\ position[i] \in Nat /\ Len(topic) \in Nat
           /\ Message(i) \in Events /\ Message(i) \in ToSet(topic)
           /\ Message(i) = topic[position[i] + 1]
<1>1. position[i] \in Nat /\ Len(topic) \in Nat /\ DOMAIN topic = 1 .. Len(topic)
  BY DEF TypeOK
<1>2. position[i] + 1 \in 1 .. Len(topic)
  BY <1>1
<1>3. topic[position[i] + 1] \in Events
  BY <1>2 DEF TypeOK
<1> QED BY <1>1, <1>2, <1>3 DEF Message, ToSet

\* The first state satisfies the invariant.
LEMMA InitIInv == Init => IInv
<1> SUFFICES ASSUME Init PROVE IInv
  OBVIOUS
<1> USE EventsConstants DEF Init
<1>1. TypeOK
  BY DEF TypeOK
<1>2. PostInv
  BY DEF PostInv
<1>3. NothingPassedOver
  BY DEF NothingPassedOver
<1>4. ASSUME NEW i \in Instances, NEW e \in Events PROVE WithinReadings(i, e)
  <2>1. Copies(e) = CopiesUpTo(topic, e, Len(topic)) /\ Len(topic) \in Nat
    BY DEF Copies, CopiesUpTo
  <2>2. Copies(e) \in Nat
    <3> HIDE DEF Init
    <3> QED BY <2>1, CopiesNext
  <2> QED BY <2>2 DEF WithinReadings
<1> QED BY <1>1, <1>2, <1>3, <1>4 DEF IInv, ReadingInv

\* The messages on the topic stay where they are.
LEMMA TopicGrows ==
    ASSUME TypeOK, [Next]_vars
    PROVE  /\ topic' = topic \/ \E e \in Events : topic' = Append(topic, e)
           /\ topic' \in Seq(Events)
           /\ Len(topic) <= Len(topic')
           /\ \A o \in 1 .. Len(topic) : topic'[o] = topic[o]
           /\ ToSet(topic) \subseteq ToSet(topic')
<1>1. topic' = topic \/ \E e \in Events : topic' = Append(topic, e)
  BY DEF Next, Process, Publish, Boot, Started, Skip, Take, Store, Answered, Exit, GiveUp,
         Commit, Rebalance, Stop, Crash, LateStore, vars
<1>2. topic \in Seq(Events) /\ Len(topic) \in Nat
  BY DEF TypeOK
<1>3. CASE topic' = topic
  BY <1>2, <1>3
<1>4. ASSUME NEW e \in Events, topic' = Append(topic, e)
      PROVE  /\ topic' \in Seq(Events)
             /\ Len(topic) <= Len(topic')
             /\ \A o \in 1 .. Len(topic) : topic'[o] = topic[o]
             /\ ToSet(topic) \subseteq ToSet(topic')
  BY <1>2, <1>4, Published
<1> QED BY <1>1, <1>3, <1>4

\* Every step keeps the types and what is said of the posts.
LEMMA TypePostStep ==
    ASSUME TypeOK, PostInv, [Next]_vars
    PROVE  TypeOK' /\ PostInv'
<1> USE EventsConstants
<1>0. /\ Len(topic) \in Nat
      /\ position \in [Instances -> Nat] /\ committed \in [Instances -> Nat]
      /\ \A j \in Instances : committed[j] <= position[j] /\ position[j] <= Len(topic)
      /\ \A j \in Instances : post[j] # "none" => position[j] < Len(topic)
      /\ \A j \in Instances, e \in Events : stored[j][e] \in Nat /\ late[j][e] \in Nat
  BY DEF TypeOK
<1>1. ASSUME NEW e \in Events, Publish(e) PROVE TypeOK' /\ PostInv'
  <2>1. /\ topic' \in Seq(Events) /\ Len(topic') = Len(topic) + 1 /\ Len(topic) \in Nat
        /\ \A o \in 1 .. Len(topic) : topic'[o] = topic[o]
        /\ ToSet(topic) \subseteq ToSet(topic')
    BY <1>0, <1>1, Published DEF Publish, TypeOK
  <2>2. /\ Len(topic) < MaxPublished
        /\ UNCHANGED <<phase, position, committed, post, stored, late, dropped, ends, rebalances, runs>>
    BY <1>0, <1>1 DEF Publish
  <2>3. TypeOK'
    BY <1>0, <2>1, <2>2 DEF TypeOK
  <2>4. ASSUME NEW i \in Instances, position[i] < Len(topic) PROVE Message(i)' = Message(i)
    <3>1. position[i] + 1 \in 1 .. Len(topic)
      BY <1>0, <2>4
    <3> QED BY <2>1, <2>2, <3>1 DEF Message
  <2>5. PostInv'
    BY <2>1, <2>2, <2>4 DEF TypeOK, PostInv
  <2> QED BY <2>3, <2>5
<1>2. ASSUME NEW i \in Instances, Boot(i) PROVE TypeOK' /\ PostInv'
  BY <1>0, <1>2 DEF Boot, TypeOK, PostInv, Message
<1>3. ASSUME NEW i \in Instances, Started(i) PROVE TypeOK' /\ PostInv'
  <2>1. Len(topic) \in Nat /\ post[i] = "none"
    BY <1>0, <1>3 DEF Started, TypeOK, PostInv
  <2>2. TypeOK'
    BY <1>0, <1>3, <2>1 DEF Started, StartOffset, TypeOK
  <2>3. PostInv'
    BY <1>0, <1>3, <2>1 DEF Started, StartOffset, TypeOK, PostInv, Message
  <2> QED BY <2>2, <2>3
<1>4. ASSUME NEW i \in Instances, Skip(i) PROVE TypeOK' /\ PostInv'
  <2>1. /\ position' \in [Instances -> Nat]
        /\ \A j \in Instances : committed[j] <= position'[j] /\ position'[j] <= Len(topic)
        /\ \A j \in Instances : post[j] # "none" => position'[j] < Len(topic)
    BY <1>0, <1>4 DEF Skip, Waiting, Past, TypeOK
  <2>2. TypeOK'
    BY <1>4, <2>1 DEF Skip, TypeOK
  <2>3. PostInv'
    BY <1>0, <1>4 DEF Skip, Waiting, Past, TypeOK, PostInv, Message
  <2> QED BY <2>2, <2>3
<1>5. ASSUME NEW i \in Instances, Take(i) PROVE TypeOK' /\ PostInv'
  BY <1>0, <1>5 DEF Take, Waiting, TypeOK, PostInv, Message
<1>6. ASSUME NEW i \in Instances, Store(i) PROVE TypeOK' /\ PostInv'
  <2>1. position[i] < Len(topic) /\ Message(i) \in Named
    BY <1>0, <1>6 DEF Store, TypeOK, PostInv
  <2>2. Message(i) \in Events /\ Message(i) \in ToSet(topic)
    BY <2>1, MessageIsPublished
  <2>3. TypeOK'
    BY <1>0, <1>6, <2>2 DEF Store, TypeOK
  <2>4. \A j \in Instances : Message(j)' = Message(j)
    BY <1>0, <1>6 DEF Store, Message
  <2>5. /\ \A j \in Instances, e \in Events :
              stored'[j][e] = IF j = i /\ e = Message(i) THEN stored[j][e] + 1 ELSE stored[j][e]
        /\ post' = [post EXCEPT ![i] = "stored"]
        /\ UNCHANGED <<topic, phase, late, dropped>>
    BY <1>0, <1>6, <2>2 DEF Store, TypeOK
  <2>6. \A j \in Instances : post[j] # "none" => Message(j) \in Events
    BY MessageIsPublished DEF TypeOK
  <2>7. \A j \in Instances, e \in Events : stored[j][e] \in Nat /\ late[j][e] \in Nat
    BY DEF TypeOK
  <2>8. /\ post \in [Instances -> {"none", "sent", "stored"}] /\ post[i] = "sent"
    BY <1>0, <1>6 DEF Store, TypeOK
  <2>9. PostInv'
    BY <2>1, <2>2, <2>4, <2>5, <2>6, <2>7, <2>8 DEF PostInv
  <2> QED BY <2>3, <2>9
<1>7. ASSUME NEW i \in Instances, Answered(i) PROVE TypeOK' /\ PostInv'
  <2>1. /\ position' \in [Instances -> Nat]
        /\ \A j \in Instances : committed[j] <= position'[j] /\ position'[j] <= Len(topic)
        /\ \A j \in Instances : post'[j] # "none" => position'[j] < Len(topic)
    <3>1. /\ post[i] = "stored" /\ post' = [post EXCEPT ![i] = "none"]
          /\ position' = [position EXCEPT ![i] = position[i] + 1]
          /\ post \in [Instances -> {"none", "sent", "stored"}]
      BY <1>7 DEF Answered, Past, TypeOK
    <3>2. position[i] < Len(topic)
      BY <1>0, <3>1
    <3> QED BY <1>0, <3>1, <3>2
  <2>2. TypeOK'
    BY <1>7, <2>1 DEF Answered, TypeOK
  <2>3. PostInv'
    BY <1>0, <1>7 DEF Answered, Past, TypeOK, PostInv, Message
  <2> QED BY <2>2, <2>3
<1>8. ASSUME NEW i \in Instances, Exit(i) PROVE TypeOK' /\ PostInv'
  BY <1>0, <1>8 DEF Exit, TypeOK, PostInv, Message
<1>9. ASSUME NEW i \in Instances, GiveUp(i) \/ Crash(i) PROVE TypeOK' /\ PostInv'
  <2>1. /\ post[i] = "sent" => Message(i) \in Events
        /\ post[i] # "none" => Message(i) \in ToSet(topic) \cap Named
    BY MessageIsPublished DEF TypeOK, PostInv
  <2>2. /\ late' = IF post[i] = "sent" THEN [late EXCEPT ![i][Message(i)] = @ + 1] ELSE late
        /\ post' = [post EXCEPT ![i] = "none"]
        /\ dropped' = dropped \/ (post[i] # "none" /\ dropped' = dropped \cup {Message(i)})
        /\ UNCHANGED <<topic, stored, rebalances, runs>>
    BY <1>0, <1>9 DEF GiveUp, Crash
  <2>3. late' \in [Instances -> [Events -> Nat]]
    BY <1>0, <2>1, <2>2 DEF TypeOK
  <2>4. TypeOK'
    <3>1. CASE GiveUp(i)
      <4>1. /\ position' \in [Instances -> Nat]
            /\ \A j \in Instances : committed[j] <= position'[j] /\ position'[j] <= Len(topic)
            /\ \A j \in Instances : post'[j] # "none" => position'[j] < Len(topic)
        BY <1>0, <2>2, <3>1 DEF GiveUp, PastFailure, Past, TypeOK
      <4>2. dropped' \subseteq Named
        BY <2>1, <2>2 DEF TypeOK
      <4>3. UNCHANGED <<phase, committed, ends>>
        BY <3>1 DEF GiveUp
      <4> QED BY <2>2, <2>3, <4>1, <4>2, <4>3 DEF TypeOK
    <3>2. CASE Crash(i)
      BY <2>2, <2>3, <3>2 DEF Crash, TypeOK
    <3> QED BY <1>0, <1>9, <3>1, <3>2
  <2>5. \A j \in Instances \ {i} : phase'[j] = phase[j] /\ Message(j)' = Message(j)
    BY <1>0, <1>9 DEF GiveUp, Crash, TypeOK, Message
  <2>6. \A j \in Instances, e \in Events :
            late'[j][e] # late[j][e] => e \in ToSet(topic) \cap Named
    BY <1>0, <2>1, <2>2 DEF TypeOK
  <2>7. PostInv'
    BY <2>1, <2>2, <2>5, <2>6 DEF TypeOK, PostInv
  <2> QED BY <2>4, <2>7
<1>10. ASSUME NEW i \in Instances, Commit(i) PROVE TypeOK' /\ PostInv'
  BY <1>0, <1>10 DEF Commit, TypeOK, PostInv, Message
<1>11. ASSUME NEW i \in Instances, Rebalance(i) PROVE TypeOK' /\ PostInv'
  <2>1. TypeOK'
    BY <1>0, <1>11 DEF Rebalance, TypeOK
  <2>2. PostInv'
    BY <1>0, <1>11 DEF Rebalance, TypeOK, PostInv, Message
  <2> QED BY <2>1, <2>2
<1>12. ASSUME NEW i \in Instances, Stop(i) PROVE TypeOK' /\ PostInv'
  BY <1>0, <1>12 DEF Stop, TypeOK, PostInv, Message
<1>13. ASSUME NEW i \in Instances, NEW e \in Events, LateStore(i, e) PROVE TypeOK' /\ PostInv'
  <2>1. /\ \A j \in Instances, d \in Events :
              /\ late'[j][d] \in Nat /\ stored'[j][d] \in Nat
              /\ stored[j][d] <= stored'[j][d]
              /\ stored'[j][d] + late'[j][d] > 0 => stored[j][d] + late[j][d] > 0
        /\ late' \in [Instances -> [Events -> Nat]]
        /\ stored' \in [Instances -> [Events -> Nat]]
    <3>1. /\ late' = [late EXCEPT ![i][e] = @ - 1] /\ late[i][e] > 0
          /\ stored' = stored \/ stored' = [stored EXCEPT ![i][e] = @ + 1]
      BY <1>13 DEF LateStore
    <3>2. /\ late \in [Instances -> [Events -> Nat]]
          /\ stored \in [Instances -> [Events -> Nat]]
      BY DEF TypeOK
    <3>3. /\ late' \in [Instances -> [Events -> Nat]]
          /\ \A j \in Instances, d \in Events :
                late'[j][d] = IF j = i /\ d = e THEN late[j][d] - 1 ELSE late[j][d]
      BY <3>1, <3>2
    <3>4. /\ stored' \in [Instances -> [Events -> Nat]]
          /\ \A j \in Instances, d \in Events :
                \/ stored'[j][d] = stored[j][d]
                \/ j = i /\ d = e /\ stored'[j][d] = stored[j][d] + 1
      <4>1. CASE stored' = stored
        BY <3>2, <4>1
      <4>2. CASE stored' = [stored EXCEPT ![i][e] = @ + 1]
        BY <3>2, <4>2
      <4> QED BY <3>1, <4>1, <4>2
    <3> QED BY <3>1, <3>2, <3>3, <3>4
  <2>2. UNCHANGED <<topic, phase, position, committed, post, dropped, ends, rebalances, runs>>
    BY <1>0, <1>13 DEF LateStore
  <2>3. \A j \in Instances : Message(j)' = Message(j)
    BY <2>2 DEF Message
  <2>4. \A j \in Instances : post[j] # "none" => Message(j) \in Events
    BY MessageIsPublished DEF TypeOK
  <2>5. TypeOK'
    BY <1>0, <2>1, <2>2 DEF TypeOK
  <2>6. PostInv'
    <3>1. ASSUME NEW j \in Instances, post[j] = "stored"
          PROVE  stored'[j][Message(j)] > 0
      <4>1. Message(j) \in Events /\ stored[j][Message(j)] > 0
        BY <2>4, <3>1 DEF PostInv
      <4> QED BY <1>0, <2>1, <4>1
    <3> QED BY <2>1, <2>2, <2>3, <3>1 DEF PostInv
  <2> QED BY <2>5, <2>6
<1>14. ASSUME UNCHANGED vars PROVE TypeOK' /\ PostInv'
  BY <1>0, <1>14 DEF vars, TypeOK, PostInv, Message
<1> QED
  BY <1>1, <1>2, <1>3, <1>4, <1>5, <1>6, <1>7, <1>8, <1>9, <1>10, <1>11, <1>12, <1>13, <1>14
  DEF Next, Process

(***************************************************************************)
(* Nothing is passed over.                                                 *)
(***************************************************************************)

\* What was delivered, and what was dropped, stays so.
LEMMA DeliveredStays ==
    ASSUME TypeOK, PostInv, [Next]_vars
    PROVE  Delivered \subseteq Delivered' /\ dropped \subseteq dropped'
<1>1. stored' = stored \/ \A i \in Instances, e \in Events : stored[i][e] <= stored'[i][e]
  <2>1. ASSUME NEW i \in Instances, Store(i)
        PROVE  \A j \in Instances, e \in Events : stored[j][e] <= stored'[j][e]
    BY <2>1 DEF Store, TypeOK
  <2>2. ASSUME NEW i \in Instances, NEW d \in Events, LateStore(i, d)
        PROVE  stored' = stored \/ \A j \in Instances, e \in Events : stored[j][e] <= stored'[j][e]
    <3>1. stored \in [Instances -> [Events -> Nat]]
      BY DEF TypeOK
    <3>2. CASE stored' = [stored EXCEPT ![i][d] = @ + 1]
      BY <3>1, <3>2
    <3> QED BY <2>2, <3>2 DEF LateStore
  <2>3. \/ stored' = stored
        \/ \E i \in Instances : Store(i) \/ \E e \in Events : LateStore(i, e)
    BY DEF Next, Process, Publish, Boot, Started, Skip, Take, Answered, Exit, GiveUp,
           Commit, Rebalance, Stop, Crash, vars
  <2> QED BY <2>1, <2>2, <2>3
<1>2. \A i \in Instances, e \in Events : stored[i][e] \in Nat /\ stored'[i][e] \in Nat
  <2>1. TypeOK'
    BY TypePostStep
  <2> QED BY <2>1 DEF TypeOK
<1>3. Delivered \subseteq Delivered'
  BY <1>1, <1>2, EventsConstants DEF Delivered
<1>4. dropped \subseteq dropped'
  BY DEF Next, Process, Publish, Boot, Started, Skip, Take, Store, Answered, Exit, GiveUp,
         Commit, Rebalance, Stop, Crash, LateStore, vars
<1> QED BY <1>3, <1>4

\* A consumer that runs is past a message only if it has just started, the
\* message has no name, or its post was answered or given up.
LEMMA PassedStep ==
    ASSUME TypeOK, PostInv, NothingPassedOver, [Next]_vars
    PROVE  NothingPassedOver'
<1> DEFINE Kept(o) == topic[o] \in Named => topic[o] \in Delivered \cup dropped
<1>0. /\ Len(topic) \in Nat
      /\ \A i \in Instances : position[i] \in Nat /\ position[i] <= Len(topic)
      /\ \A i \in Instances : committed[i] \in Nat /\ committed[i] <= position[i]
      /\ phase \in [Instances -> {"down", "starting", "running", "stopping"}]
      /\ position \in [Instances -> Nat]
  BY DEF TypeOK
<1>1. \A o \in 1 .. Len(topic) : topic'[o] = topic[o] /\ (Kept(o) => Kept(o)')
  BY TopicGrows, DeliveredStays
<1>2. ASSUME NEW i \in Instances, phase'[i] = "running" => phase[i] = "running",
             position'[i] = position[i]
      PROVE  phase'[i] = "running" => \A o \in 1 .. position'[i] : Kept(o)'
  BY <1>0, <1>1, <1>2 DEF NothingPassedOver
<1>3. ASSUME NEW i \in Instances, phase[i] = "running", position'[i] = position[i] + 1,
             position[i] < Len(topic),
             Message(i) \in Named => Message(i) \in Delivered' \cup dropped'
      PROVE  \A o \in 1 .. position'[i] : Kept(o)'
  <2>1. \A o \in 1 .. position[i] : o \in 1 .. Len(topic)
    BY <1>0
  <2>2. \A o \in 1 .. position[i] : Kept(o)'
    BY <1>1, <1>3, <2>1 DEF NothingPassedOver
  <2>3. position[i] + 1 \in 1 .. Len(topic)
    BY <1>0, <1>3
  <2>4. topic'[position[i] + 1] = Message(i)
    BY <1>1, <2>3 DEF Message
  <2>5. ASSUME NEW o \in 1 .. Len(topic), o = position[i] + 1 PROVE Kept(o)'
    BY <1>3, <2>4, <2>5
  <2>6. 1 .. position'[i] = (1 .. position[i]) \cup {position[i] + 1}
    BY <1>0, <1>3
  <2> HIDE DEF Kept
  <2> QED BY <2>2, <2>3, <2>5, <2>6
<1> HIDE DEF Kept
<1>4. ASSUME NEW i \in Instances PROVE phase'[i] = "running" => \A o \in 1 .. position'[i] : Kept(o)'
  <2>1. CASE UNCHANGED <<phase, position>>
    BY <1>2, <2>1
  <2>2. ASSUME NEW j \in Instances, Boot(j) \/ Stop(j) \/ Exit(j) \/ Crash(j)
        PROVE  phase'[i] = "running" => \A o \in 1 .. position'[i] : Kept(o)'
    BY <1>0, <1>2, <2>2 DEF Boot, Stop, Exit, Crash
  <2>3. ASSUME NEW j \in Instances, Started(j)
        PROVE  phase'[i] = "running" => \A o \in 1 .. position'[i] : Kept(o)'
    <3>1. CASE i = j
      BY <1>0, <2>3, <3>1 DEF Started, StartOffset
    <3>2. CASE i # j
      BY <1>0, <1>2, <2>3, <3>2 DEF Started
    <3> QED BY <3>1, <3>2
  <2>4. ASSUME NEW j \in Instances, Skip(j) \/ Answered(j) \/ GiveUp(j)
        PROVE  phase'[i] = "running" => \A o \in 1 .. position'[i] : Kept(o)'
    <3>1. phase' = phase
      BY <2>4 DEF Skip, Answered, GiveUp
    <3>2. CASE i # j
      BY <1>0, <1>2, <2>4, <3>1, <3>2 DEF Skip, Answered, GiveUp
    <3>3. CASE i = j /\ phase[i] = "running"
      <4>1. position[i] < Len(topic)
        BY <2>4, <3>3 DEF Skip, Waiting, Answered, GiveUp, TypeOK
      <4>2. position'[i] = position[i] + 1
        BY <1>0, <2>4, <3>3 DEF Skip, Answered, GiveUp, Past, PastFailure
      <4>3. Message(i) \in Named => Message(i) \in Delivered' \cup dropped'
        <5>1. CASE Skip(j)
          BY <3>3, <5>1 DEF Skip
        <5>2. CASE Answered(j)
          <6>1. stored[i][Message(i)] > 0
            BY <3>3, <5>2 DEF Answered, PostInv
          <6> QED BY <6>1, DeliveredStays DEF Delivered
        <5>3. CASE GiveUp(j)
          BY <3>3, <5>3 DEF GiveUp
        <5> QED BY <2>4, <5>1, <5>2, <5>3
      <4> QED BY <1>3, <3>3, <4>1, <4>2, <4>3
    <3> QED BY <3>1, <3>2, <3>3
  <2>5. ASSUME NEW j \in Instances, Rebalance(j)
        PROVE  phase'[i] = "running" => \A o \in 1 .. position'[i] : Kept(o)'
    <3>1. CASE i # j
      BY <1>0, <1>2, <2>5, <3>1 DEF Rebalance
    <3>2. CASE i = j
      <4>1. phase[i] = "running" /\ position'[i] = committed[i]
        BY <1>0, <2>5, <3>2 DEF Rebalance
      <4>2. \A o \in 1 .. committed[i] : o \in 1 .. position[i] /\ o \in 1 .. Len(topic)
        BY <1>0
      <4> QED BY <1>1, <4>1, <4>2 DEF NothingPassedOver, Kept
    <3> QED BY <3>1, <3>2
  <2> QED BY <2>1, <2>2, <2>3, <2>4, <2>5
      DEF Next, Process, Publish, Take, Store, Commit, LateStore, vars
<1> QED BY <1>4 DEF NothingPassedOver, Kept

(***************************************************************************)
(* Readings.                                                               *)
(***************************************************************************)

\* What an instance makes of a message it makes once in each run.
LEMMA ReadingStep ==
    ASSUME TypeOK, PostInv, ReadingInv, [Next]_vars
    PROVE  ReadingInv'
<1>0. /\ Len(topic) \in Nat
      /\ \A i \in Instances : position[i] \in Nat /\ position[i] <= Len(topic)
      /\ \A i \in Instances : post[i] # "none" => position[i] < Len(topic)
      /\ \A i \in Instances : runs[i] \in Nat
      /\ \A i \in Instances, e \in Events : stored[i][e] \in Nat /\ late[i][e] \in Nat
  BY DEF TypeOK
<1>1. \A e \in Events : Copies(e) = CopiesUpTo(topic, e, Len(topic)) /\ Copies(e) \in Nat
  <2>1. \A e \in Events : Copies(e) = CopiesUpTo(topic, e, Len(topic))
    BY DEF Copies, CopiesUpTo
  <2> QED BY <1>0, <2>1, CopiesNext
<1>2. \A i \in Instances : Reached(i) \in Nat /\ Reached(i) <= Len(topic)
  BY <1>0 DEF Reached
<1>3. \A i \in Instances, e \in Events :
          /\ CopiesUpTo(topic, e, Reached(i)) \in Nat
          /\ CopiesUpTo(topic, e, Reached(i)) <= Copies(e)
  BY <1>0, <1>1, <1>2, CopiesNext, CopiesBound
<1> DEFINE Made(i, e) == stored[i][e] + late[i][e] + Pending(i, e)
           Runs(i) == phase[i] \in {"running", "stopping"}
<1>4. \A i \in Instances, e \in Events : Made(i, e) \in Nat /\ Pending(i, e) \in Nat
  BY <1>0 DEF Pending
<1>5. ASSUME NEW i \in Instances, NEW e \in Events
      PROVE  Made(i, e) <= Copies(e) * runs[i]
  <2>1. CASE Runs(i)
    <3> DEFINE n == runs[i] - 1
    <3>1. n \in Nat /\ runs[i] = n + 1
      BY <1>0, <2>1 DEF ReadingInv, WithinReadings
    <3>2. Copies(e) * runs[i] = Copies(e) * n + Copies(e) /\ Copies(e) * n \in Nat
      BY <1>1, <3>1, Readings
    <3>3. Made(i, e) <= Copies(e) * n + CopiesUpTo(topic, e, Reached(i))
      BY <2>1 DEF ReadingInv, WithinReadings
    <3> HIDE DEF Made, n
    <3> QED BY <1>1, <1>3, <1>4, <3>2, <3>3
  <2>2. CASE ~Runs(i)
    <3>1. Pending(i, e) = 0
      BY <2>2 DEF Pending, PostInv
    <3> QED BY <1>0, <2>2, <3>1 DEF ReadingInv, WithinReadings
  <2> QED BY <2>1, <2>2

\* A run goes on, a process ends or is down, and a new run begins.
<1>6. ASSUME NEW i \in Instances, NEW e \in Events, topic' = topic, runs'[i] = runs[i],
             Runs(i), Runs(i)', Made(i, e)' \in Nat, Reached(i)' \in Nat,
             Made(i, e)' + CopiesUpTo(topic, e, Reached(i))
                 <= Made(i, e) + CopiesUpTo(topic, e, Reached(i)')
      PROVE  WithinReadings(i, e)'
  <2> DEFINE n == runs[i] - 1
  <2>1. n \in Nat /\ runs[i] > 0 /\ Made(i, e) <= Copies(e) * n + CopiesUpTo(topic, e, Reached(i))
    BY <1>0, <1>6 DEF ReadingInv, WithinReadings
  <2>2. Copies(e)' = Copies(e)
    BY <1>6 DEF Copies
  <2>3. CopiesUpTo(topic, e, Reached(i)') \in Nat /\ Copies(e) * n \in Nat
    <3>1. CopiesUpTo(topic, e, Reached(i)') \in Nat
      BY <1>6, CopiesNext
    <3> QED BY <1>1, <2>1, <3>1, Readings
  <2>4. Made(i, e)' <= Copies(e) * n + CopiesUpTo(topic, e, Reached(i)')
    <3> HIDE DEF Made, n
    <3> QED BY <1>3, <1>4, <1>6, <2>1, <2>3
  <2> QED BY <1>6, <2>1, <2>2, <2>4 DEF WithinReadings
<1>7. ASSUME NEW i \in Instances, NEW e \in Events, topic' = topic, runs'[i] = runs[i],
             ~Runs(i)', stored'[i][e] + late'[i][e] <= Made(i, e),
             stored'[i][e] + late'[i][e] \in Nat
      PROVE  WithinReadings(i, e)'
  <2>1. Copies(e)' = Copies(e)
    BY <1>7 DEF Copies
  <2>2. Copies(e) * runs[i] \in Nat
    BY <1>0, <1>1, Readings
  <2>3. stored'[i][e] + late'[i][e] <= Copies(e) * runs[i]
    <3> HIDE DEF Made
    <3> QED BY <1>4, <1>5, <1>7, <2>2
  <2> QED BY <1>7, <2>1, <2>3 DEF WithinReadings
<1>8. ASSUME NEW i \in Instances, NEW e \in Events, topic' = topic, runs'[i] = runs[i] + 1,
             Runs(i)', Reached(i)' \in Nat, Made(i, e)' = Made(i, e)
      PROVE  WithinReadings(i, e)'
  <2>1. Copies(e)' = Copies(e)
    BY <1>8 DEF Copies
  <2>2. CopiesUpTo(topic, e, Reached(i)') \in Nat /\ Copies(e) * runs[i] \in Nat
    <3>1. CopiesUpTo(topic, e, Reached(i)') \in Nat
      BY <1>8, CopiesNext
    <3> QED BY <1>0, <1>1, <3>1, Readings
  <2>3. Made(i, e)' <= Copies(e) * runs[i] + CopiesUpTo(topic, e, Reached(i)')
    <3> HIDE DEF Made
    <3> QED BY <1>4, <1>5, <1>8, <2>2
  <2>4. runs'[i] - 1 = runs[i] /\ runs'[i] > 0
    BY <1>0, <1>8
  <2> QED BY <1>8, <2>1, <2>3, <2>4 DEF WithinReadings

\* An instance that does not move.
<1>9. ASSUME NEW i \in Instances, topic' = topic, phase'[i] = phase[i],
             position'[i] = position[i], post'[i] = post[i], runs'[i] = runs[i],
             stored'[i] = stored[i], late'[i] = late[i]
      PROVE  \A e \in Events : WithinReadings(i, e)'
  <2>1. ASSUME NEW e \in Events PROVE WithinReadings(i, e)'
    <3>1. Copies(e)' = Copies(e) /\ Reached(i)' = Reached(i) /\ Pending(i, e)' = Pending(i, e)
      BY <1>9 DEF Copies, Reached, Pending, Message
    <3>2. WithinReadings(i, e)
      BY DEF ReadingInv
    <3> QED BY <1>9, <3>1, <3>2 DEF WithinReadings
  <2> QED BY <2>1
<1>10. ASSUME NEW d \in Events, Publish(d), NEW i \in Instances, NEW e \in Events
       PROVE  WithinReadings(i, e)'
  <2>1. /\ topic' = Append(topic, d) /\ topic \in Seq(Events) /\ Len(topic') = Len(topic) + 1
        /\ UNCHANGED <<phase, position, post, stored, late, runs>>
    BY <1>10, Published DEF Publish, TypeOK
  <2>2. Reached(i)' = Reached(i)
    BY <2>1 DEF Reached
  <2>3. CopiesUpTo(topic', e, Reached(i)) = CopiesUpTo(topic, e, Reached(i))
    BY <1>2, <2>1, CopiesKept
  <2>4. Copies(e)' \in Nat /\ Copies(e) <= Copies(e)'
    <3>1. Copies(e)' = CopiesUpTo(topic', e, Len(topic) + 1)
      BY <2>1 DEF Copies, CopiesUpTo
    <3>2. CopiesUpTo(topic', e, Len(topic)) = Copies(e)
      BY <1>0, <1>1, <2>1, CopiesKept
    <3>3. CopiesUpTo(topic', e, Len(topic) + 1)
             = CopiesUpTo(topic', e, Len(topic)) + (IF topic'[Len(topic) + 1] = e THEN 1 ELSE 0)
      BY <1>0, CopiesNext
    <3> QED BY <1>1, <3>1, <3>2, <3>3
  <2>5. Pending(i, e)' = Pending(i, e)
    <3>1. ASSUME post[i] = "sent" PROVE Message(i)' = Message(i)
      <4>1. position[i] + 1 \in 1 .. Len(topic)
        BY <1>0, <3>1
      <4> QED BY <2>1, <4>1 DEF Message
    <3> QED BY <2>1, <3>1 DEF Pending
  <2>6. CASE Runs(i)
    <3> DEFINE n == runs[i] - 1
    <3>1. n \in Nat /\ runs[i] > 0 /\ Made(i, e) <= Copies(e) * n + CopiesUpTo(topic, e, Reached(i))
      BY <1>0, <2>6 DEF ReadingInv, WithinReadings
    <3>2. Copies(e) * n <= Copies(e)' * n /\ Copies(e) * n \in Nat /\ Copies(e)' * n \in Nat
      BY <1>1, <2>4, <3>1, Readings
    <3>3. Made(i, e) <= Copies(e)' * n + CopiesUpTo(topic, e, Reached(i))
      <4> HIDE DEF Made, n
      <4> QED BY <1>3, <1>4, <3>1, <3>2
    <3> QED BY <2>1, <2>2, <2>3, <2>5, <2>6, <3>1, <3>3 DEF WithinReadings
  <2>7. CASE ~Runs(i)
    <3>1. Copies(e) * runs[i] <= Copies(e)' * runs[i]
          /\ Copies(e) * runs[i] \in Nat /\ Copies(e)' * runs[i] \in Nat
      BY <1>0, <1>1, <2>4, Readings
    <3>2. stored[i][e] + late[i][e] <= Copies(e) * runs[i]
      BY <2>7 DEF ReadingInv, WithinReadings
    <3>3. stored[i][e] + late[i][e] <= Copies(e)' * runs[i]
      BY <1>0, <3>1, <3>2
    <3> QED BY <2>1, <2>7, <3>3 DEF WithinReadings
  <2> QED BY <2>6, <2>7
<1>11. ASSUME NEW i \in Instances, Boot(i) \/ Exit(i) \/ Crash(i), NEW e \in Events
       PROVE  WithinReadings(i, e)'
  <2>1. /\ topic' = topic /\ runs'[i] = runs[i] /\ ~Runs(i)'
    BY <1>11 DEF Boot, Exit, Crash, TypeOK
  <2>2. stored'[i][e] + late'[i][e] <= Made(i, e) /\ stored'[i][e] + late'[i][e] \in Nat
    <3>1. CASE Boot(i) \/ Exit(i)
      BY <1>0, <3>1 DEF Boot, Exit, Pending
    <3>2. CASE Crash(i)
      <4>1. late'[i][e] = late[i][e] + Pending(i, e)
        BY <1>0, <3>2 DEF Crash, Pending, TypeOK
      <4> QED BY <1>0, <1>4, <3>2, <4>1 DEF Crash
    <3> QED BY <1>11, <3>1, <3>2
  <2> HIDE DEF Made
  <2> QED BY <1>7, <2>1, <2>2
<1>12. ASSUME NEW i \in Instances, Started(i) \/ Rebalance(i), NEW e \in Events
       PROVE  WithinReadings(i, e)'
  <2>1. post[i] = "none"
    BY <1>12 DEF Started, Rebalance, PostInv
  <2>2. /\ topic' = topic /\ runs'[i] = runs[i] + 1 /\ Runs(i)'
        /\ UNCHANGED <<post, stored, late>>
    BY <1>12 DEF Started, Rebalance, TypeOK
  <2>3. position'[i] \in Nat
    BY <1>12 DEF Started, StartOffset, Rebalance, TypeOK
  <2>4. Made(i, e)' = Made(i, e) /\ Reached(i)' \in Nat
    BY <2>1, <2>2, <2>3 DEF Pending, Reached
  <2> HIDE DEF Made
  <2> QED BY <1>8, <2>2, <2>4
<1>13. ASSUME NEW i \in Instances, Skip(i) \/ Take(i) \/ Store(i) \/ Answered(i) \/ GiveUp(i),
              NEW e \in Events
       PROVE  WithinReadings(i, e)'
  <2>1. /\ topic' = topic /\ runs'[i] = runs[i] /\ Runs(i) /\ Runs(i)'
    BY <1>13 DEF Skip, Take, Store, Answered, GiveUp, PostInv
  <2>2. position[i] < Len(topic)
    BY <1>0, <1>13 DEF Skip, Take, Waiting, Store, Answered, GiveUp
  <2>3. CopiesUpTo(topic, e, position[i] + 1)
           = CopiesUpTo(topic, e, position[i]) + (IF Message(i) = e THEN 1 ELSE 0)
        /\ CopiesUpTo(topic, e, position[i]) \in Nat
    BY <1>0, CopiesNext DEF Message
  <2>4. CASE Skip(i)
    <3>1. /\ post[i] = "none" /\ post' = post /\ position'[i] = position[i] + 1
          /\ UNCHANGED <<stored, late>>
      BY <2>4 DEF Skip, Waiting, Past, TypeOK
    <3>2. Made(i, e)' = Made(i, e) /\ Reached(i) = position[i] /\ Reached(i)' = position[i] + 1
      BY <3>1 DEF Pending, Reached
    <3> HIDE DEF Made
    <3> QED BY <1>0, <1>4, <1>6, <2>1, <2>3, <3>2
  <2>5. CASE Take(i)
    <3>1. /\ post[i] = "none" /\ post'[i] = "sent"
          /\ UNCHANGED <<position, stored, late>>
      BY <2>5 DEF Take, Waiting, TypeOK
    <3>2. /\ Reached(i) = position[i] /\ Reached(i)' = position[i] + 1
          /\ Made(i, e)' = Made(i, e) + (IF Message(i) = e THEN 1 ELSE 0)
      BY <1>0, <2>1, <3>1 DEF Pending, Reached, Message
    <3> HIDE DEF Made
    <3> QED BY <1>0, <1>4, <1>6, <2>1, <2>3, <3>2
  <2>6. CASE Store(i)
    <3>1. /\ post[i] = "sent" /\ post'[i] = "stored"
          /\ stored'[i][e] = stored[i][e] + (IF Message(i) = e THEN 1 ELSE 0)
          /\ UNCHANGED <<position, late>>
      BY <1>0, <2>6 DEF Store, TypeOK
    <3>2. /\ Reached(i)' = Reached(i) /\ Made(i, e)' = Made(i, e)
      BY <1>0, <2>1, <3>1 DEF Pending, Reached, Message
    <3> HIDE DEF Made
    <3> QED BY <1>2, <1>3, <1>4, <1>6, <2>1, <3>2
  <2>7. CASE Answered(i)
    <3>1. /\ post[i] = "stored" /\ post'[i] = "none" /\ position'[i] = position[i] + 1
          /\ UNCHANGED <<stored, late>>
      BY <2>7 DEF Answered, Past, TypeOK
    <3>2. /\ Reached(i)' = Reached(i) /\ Made(i, e)' = Made(i, e)
      BY <1>0, <3>1 DEF Pending, Reached
    <3> HIDE DEF Made
    <3> QED BY <1>2, <1>3, <1>4, <1>6, <2>1, <3>2
  <2>8. CASE GiveUp(i)
    <3>1. /\ post[i] # "none" /\ post'[i] = "none" /\ position'[i] = position[i] + 1
          /\ late'[i][e] = late[i][e] + Pending(i, e)
          /\ stored' = stored
      BY <1>0, <2>8 DEF GiveUp, PastFailure, Past, Pending, TypeOK
    <3>2. /\ Reached(i)' = Reached(i) /\ Made(i, e)' = Made(i, e)
      BY <1>0, <1>4, <3>1 DEF Pending, Reached
    <3> HIDE DEF Made
    <3> QED BY <1>2, <1>3, <1>4, <1>6, <2>1, <3>2
  <2> QED BY <1>13, <2>4, <2>5, <2>6, <2>7, <2>8
<1>14. ASSUME NEW i \in Instances, Commit(i) \/ Stop(i), NEW e \in Events
       PROVE  WithinReadings(i, e)'
  <2>1. /\ topic' = topic /\ runs'[i] = runs[i] /\ Runs(i) /\ Runs(i)'
        /\ UNCHANGED <<position, post, stored, late>>
    BY <1>14 DEF Commit, Stop, TypeOK
  <2>2. /\ Reached(i)' = Reached(i) /\ Made(i, e)' = Made(i, e)
    BY <2>1 DEF Pending, Reached, Message
  <2> HIDE DEF Made
  <2> QED BY <1>2, <1>3, <1>4, <1>6, <2>1, <2>2
<1>15. ASSUME NEW i \in Instances, NEW d \in Events, LateStore(i, d), NEW e \in Events
       PROVE  WithinReadings(i, e)'
  <2>1. /\ topic' = topic /\ runs' = runs /\ phase' = phase
        /\ UNCHANGED <<position, post>>
    BY <1>15 DEF LateStore
  <2>2. /\ stored'[i][e] + late'[i][e] <= stored[i][e] + late[i][e]
        /\ stored'[i][e] + late'[i][e] \in Nat
    <3>1. /\ late[i][d] > 0
          /\ late'[i][e] = IF e = d THEN late[i][e] - 1 ELSE late[i][e]
      BY <1>15 DEF LateStore, TypeOK
    <3>2. \/ stored'[i][e] = stored[i][e]
          \/ e = d /\ stored'[i][e] = stored[i][e] + 1
      <4>1. CASE stored' = stored
        BY <4>1
      <4>2. CASE stored' = [stored EXCEPT ![i][d] = @ + 1]
        BY <4>2 DEF TypeOK
      <4> QED BY <1>15, <4>1, <4>2 DEF LateStore
    <3> QED BY <1>0, <3>1, <3>2
  <2>3. Reached(i)' = Reached(i) /\ Pending(i, e)' = Pending(i, e)
    BY <2>1 DEF Pending, Reached, Message
  <2>4. Made(i, e)' <= Made(i, e) /\ Made(i, e)' \in Nat
        /\ stored'[i][e] + late'[i][e] <= Made(i, e)
    BY <1>0, <1>4, <2>2, <2>3
  <2>5. Runs(i)' <=> Runs(i)
    BY <2>1
  <2> HIDE DEF Made
  <2>6. CASE Runs(i)
    BY <1>2, <1>3, <1>4, <1>6, <2>1, <2>3, <2>4, <2>5, <2>6
  <2>7. CASE ~Runs(i)
    BY <1>7, <2>1, <2>2, <2>4, <2>5, <2>7
  <2> QED BY <2>6, <2>7
<1>16. ASSUME NEW j \in Instances, Process(j) \/ GiveUp(j) \/ Commit(j) \/ Rebalance(j)
                                   \/ Stop(j) \/ Crash(j) \/ (\E d \in Events : LateStore(j, d)),
              NEW i \in Instances, NEW e \in Events
       PROVE  WithinReadings(i, e)'
  <2>1. CASE i = j
    BY <1>11, <1>12, <1>13, <1>14, <1>15, <1>16, <2>1 DEF Process
  <2>2. CASE i # j
    <3>1. /\ topic' = topic /\ phase'[i] = phase[i]
          /\ position'[i] = position[i] /\ post'[i] = post[i] /\ runs'[i] = runs[i]
      BY <1>16, <2>2
      DEF Process, Boot, Started, Skip, Take, Store, Answered, Exit, GiveUp,
          Commit, Rebalance, Stop, Crash, LateStore, TypeOK
    <3>2. stored'[i] = stored[i] /\ late'[i] = late[i]
      BY <1>16, <2>2
      DEF Process, Boot, Started, Skip, Take, Store, Answered, Exit, GiveUp,
          Commit, Rebalance, Stop, Crash, LateStore, TypeOK
    <3> QED BY <1>9, <3>1, <3>2
  <2> QED BY <2>1, <2>2
<1>17. ASSUME UNCHANGED vars, NEW i \in Instances, NEW e \in Events
       PROVE  WithinReadings(i, e)'
  BY <1>9, <1>17 DEF vars
<1> QED BY <1>10, <1>16, <1>17 DEF Next, ReadingInv

(***************************************************************************)
(* The theorems.                                                           *)
(***************************************************************************)

\* Every step keeps the inductive invariant.
LEMMA NextIInv == IInv /\ [Next]_vars => IInv'
  BY TypePostStep, PassedStep, ReadingStep DEF IInv

\* The inductive invariant holds in every state.
THEOREM Invariance == Spec => []IInv
  BY InitIInv, NextIInv, PTL DEF Spec

\* The variables keep their types.
THEOREM TypeCorrect == Spec => []TypeOK
<1>1. IInv => TypeOK
  BY DEF IInv
<1> QED BY <1>1, Invariance, PTL

\* A consumer that runs is past no named event that was neither stored nor
\* given up, whatever crashed, fell back or was late.
THEOREM PassesNothing == Spec => []NothingPassedOver
<1>1. IInv => NothingPassedOver
  BY DEF IInv
<1> QED BY <1>1, Invariance, PTL

\* An instance makes at most one processed event for each time it reads a
\* message, those it gave up and the late ones included.
THEOREM OncePerRun == Spec => []OncePerReading
<1>1. IInv => OncePerReading
  <2> SUFFICES ASSUME IInv, NEW i \in Instances, NEW e \in Events
               PROVE  stored[i][e] + late[i][e] <= Copies(e) * runs[i]
    BY DEF OncePerReading
  <2>1. CASE phase[i] \notin {"running", "stopping"}
    BY <2>1 DEF IInv, ReadingInv, WithinReadings
  <2>2. CASE phase[i] \in {"running", "stopping"}
    <3> DEFINE n == runs[i] - 1
               c == CopiesUpTo(topic, e, Reached(i))
    <3>1. /\ Len(topic) \in Nat /\ position[i] \in Nat /\ position[i] <= Len(topic)
          /\ post[i] # "none" => position[i] < Len(topic)
          /\ stored[i][e] \in Nat /\ late[i][e] \in Nat /\ runs[i] \in Nat
      BY DEF IInv, TypeOK
    <3>2. Reached(i) \in Nat /\ Reached(i) <= Len(topic)
      BY <3>1 DEF Reached
    <3>3. Copies(e) = CopiesUpTo(topic, e, Len(topic))
      BY DEF Copies, CopiesUpTo
    <3>4. Copies(e) \in Nat /\ c \in Nat /\ c <= Copies(e)
      <4>1. CopiesUpTo(topic, e, Len(topic)) \in Nat /\ c \in Nat
        BY <3>1, <3>2, CopiesNext
      <4>2. c <= CopiesUpTo(topic, e, Len(topic))
        BY <3>1, <3>2, CopiesBound
      <4> QED BY <3>3, <4>1, <4>2
    <3>5. /\ runs[i] > 0
          /\ stored[i][e] + late[i][e] + Pending(i, e) <= Copies(e) * n + c
      BY <2>2 DEF IInv, ReadingInv, WithinReadings
    <3>6. n \in Nat /\ runs[i] = n + 1
      BY <3>1, <3>5
    <3>7. Copies(e) * (n + 1) = Copies(e) * n + Copies(e) /\ Copies(e) * n \in Nat
      <4> HIDE DEF n
      <4> QED BY <3>4, <3>6, Readings
    <3>8. Pending(i, e) \in Nat
      BY DEF Pending
    <3> HIDE DEF n, c
    <3>9. PICK m \in Nat : m = Copies(e) * n
      BY <3>7
    <3>10. Copies(e) * runs[i] = m + Copies(e)
      BY <3>6, <3>7, <3>9
    <3>11. stored[i][e] + late[i][e] + Pending(i, e) <= m + c
      BY <3>5, <3>9
    <3> QED BY <3>1, <3>4, <3>8, <3>10, <3>11
  <2> QED BY <2>1, <2>2
<1> QED BY <1>1, Invariance, PTL

(***************************************************************************)
(* The refinement of AtLeastOnce.                                          *)
(***************************************************************************)

\* A step delivers, excuses or publishes one named event, or changes nothing
\* that AtLeastOnce sees.
LEMMA PipelineStep ==
    ASSUME IInv, [Next]_vars
    PROVE  [Pipeline!Next]_(Pipeline!pipeline)
<1> DEFINE P == ToSet(topic) \cap Named
<1>0. TypeOK /\ PostInv
  BY DEF IInv
<1>1. ASSUME NEW e \in Events, Publish(e) PROVE [Pipeline!Next]_(Pipeline!pipeline)
  <2>1. ToSet(topic') = ToSet(topic) \cup {e} /\ UNCHANGED <<stored, dropped>>
    BY <1>0, <1>1, Published DEF Publish, TypeOK
  <2>2. Delivered' = Delivered
    BY <2>1 DEF Delivered
  <2>3. CASE e \in Named
    BY <2>1, <2>2, <2>3 DEF Pipeline!Next, Pipeline!Publish
  <2>4. CASE e \notin Named
    <3>1. P' = P
      BY <2>1, <2>4
    <3> QED BY <2>1, <2>2, <3>1 DEF Pipeline!pipeline
  <2> QED BY <2>3, <2>4
<1>2. ASSUME NEW i \in Instances, NEW e \in P, topic' = topic, dropped' = dropped,
             \A j \in Instances, d \in Named :
                 stored'[j][d] > 0 <=> stored[j][d] > 0 \/ (j = i /\ d = e)
      PROVE  [Pipeline!Next]_(Pipeline!pipeline)
  <2>1. Delivered' = Delivered \cup {e}
    BY <1>2 DEF Delivered
  <2> QED BY <1>2, <2>1 DEF Pipeline!Next, Pipeline!Deliver
<1>3. ASSUME topic' = topic, dropped' = dropped, stored' = stored
      PROVE  [Pipeline!Next]_(Pipeline!pipeline)
  <2>1. Delivered' = Delivered /\ P' = P
    BY <1>3 DEF Delivered
  <2> QED BY <1>3, <2>1 DEF Pipeline!pipeline
<1>4. ASSUME NEW i \in Instances, Store(i) PROVE [Pipeline!Next]_(Pipeline!pipeline)
  <2>1. Message(i) \in P /\ Message(i) \in Events
    BY <1>0, <1>4, MessageIsPublished DEF Store, TypeOK, PostInv
  <2>2. \A j \in Instances, d \in Named :
            stored'[j][d] > 0 <=> stored[j][d] > 0 \/ (j = i /\ d = Message(i))
    BY <1>0, <1>4, <2>1, EventsConstants DEF Store, TypeOK
  <2> QED BY <1>2, <1>4, <2>1, <2>2 DEF Store
<1>5. ASSUME NEW i \in Instances, NEW e \in Events, LateStore(i, e)
      PROVE  [Pipeline!Next]_(Pipeline!pipeline)
  <2>1. CASE stored' = stored
    BY <1>3, <1>5, <2>1 DEF LateStore
  <2>2. CASE stored' = [stored EXCEPT ![i][e] = @ + 1]
    <3>1. e \in P
      BY <1>0, <1>5 DEF LateStore, PostInv, TypeOK
    <3>2. \A j \in Instances, d \in Named :
              stored'[j][d] > 0 <=> stored[j][d] > 0 \/ (j = i /\ d = e)
      BY <1>0, <2>2, EventsConstants DEF TypeOK
    <3> QED BY <1>2, <1>5, <3>1, <3>2 DEF LateStore
  <2> QED BY <1>5, <2>1, <2>2 DEF LateStore
<1>6. ASSUME NEW i \in Instances, GiveUp(i) PROVE [Pipeline!Next]_(Pipeline!pipeline)
  <2>1. Message(i) \in P
    BY <1>0, <1>6, MessageIsPublished DEF GiveUp, TypeOK, PostInv
  <2>2. UNCHANGED <<topic, stored>> /\ dropped' = dropped \cup {Message(i)}
    BY <1>6 DEF GiveUp
  <2>3. Delivered' = Delivered /\ P' = P
    BY <2>2 DEF Delivered
  <2> QED BY <2>1, <2>2, <2>3 DEF Pipeline!Next, Pipeline!Excuse
<1>7. \/ \E e \in Events : Publish(e)
      \/ \E i \in Instances : Store(i) \/ GiveUp(i) \/ \E e \in Events : LateStore(i, e)
      \/ topic' = topic /\ dropped' = dropped /\ stored' = stored
  BY DEF Next, Process, Boot, Started, Skip, Take, Answered, Exit, Commit, Rebalance,
         Stop, Crash, vars
<1> QED BY <1>1, <1>3, <1>4, <1>5, <1>6, <1>7

\* Whatever crashes, the pipeline does only what a pipeline may do that
\* delivers at least once: the safety part of DeliversAtLeastOnce.
THEOREM ImplementsAtLeastOnce == Spec => Pipeline!Safety
<1>1. Init => Pipeline!Init
  <2> SUFFICES ASSUME Init PROVE Pipeline!Init
    OBVIOUS
  <2>1. ToSet(topic) = {}
    <3>1. DOMAIN topic = {}
      BY DEF Init
    <3> QED BY <3>1 DEF ToSet
  <2>2. Delivered = {} /\ dropped = {}
    BY EventsConstants DEF Init, Delivered
  <2> QED BY <2>1, <2>2 DEF Pipeline!Init
<1>2. IInv /\ [Next]_vars => [Pipeline!Next]_(Pipeline!pipeline)
  BY PipelineStep
<1> QED BY <1>1, <1>2, Invariance, PTL DEF Spec, Pipeline!Safety
=============================================================================
