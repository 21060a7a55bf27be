--------------------------- MODULE DeploymentProofs ---------------------------
(***************************************************************************)
(* Proofs about Deployment and the servers it runs, for any script, any    *)
(* configuration of an embedding program and any outage: the types, the    *)
(* database every endpoint works on, what cleanServer closes, what a ready *)
(* answer means, that the services find each other, and which share.       *)
(***************************************************************************)
EXTENDS Deployment, SequenceTheorems, WellFoundedInduction, TLAPS

IsSequence(s) == s \in Seq(ToSet(s))

(***************************************************************************)
(* The invariant of one process.                                           *)
(***************************************************************************)

Functions ==
    /\ phase \in [Processes -> {"off", "init", "up", "failed", "clean", "dead"}]
    /\ DOMAIN config = Processes /\ DOMAIN mounted = Processes
    /\ DOMAIN cache = Processes /\ DOMAIN handles = Processes /\ DOMAIN probe = Processes
    /\ DOMAIN inits = Processes /\ DOMAIN cleans = Processes

\* A process is configured with sequences, of graphlettes first.
Configured(p) ==
    /\ IsSequence(config[p].graphlettes) /\ IsSequence(config[p].restlettes)
    /\ \A i \in 1 .. Len(config[p].graphlettes) :
          /\ config[p].graphlettes[i].kind = "graph"
          /\ config[p].graphlettes[i].path \in Seq(STRING)

\* The endpoints are set up in their order, and the pools of those that are
\* stay in the caches.
Mounts(p) ==
    /\ IsSequence(mounted[p])
    /\ Len(mounted[p]) <= Len(Order(p))
    /\ \A i \in 1 .. Len(mounted[p]) : mounted[p][i] = Order(p)[i]
    /\ phase[p] = "up" => Len(mounted[p]) = Len(Order(p))
    /\ phase[p] # "dead" =>
          \A i \in 1 .. Len(mounted[p]) :
              Pooled(mounted[p][i].storage) => Cached(p, mounted[p][i].storage)

\* A pool is kept under the database it was made for, by a plugin the process
\* has; all connections are open before the first cleanServer and none after.
Caches(p) ==
    \A k \in DOMAIN cache[p] :
        /\ k.type \in ToSet(config[p].plugins)
        /\ k.type \in {"mysql", "postgres"} => Database(cache[p][k]) = <<k.server, k.db>>
        /\ \E b \in BOOLEAN : \E s, d :
              /\ cache[p][k] = [open |-> b, server |-> s, db |-> d]
              /\ cleans[p] = 0 => b
              /\ phase[p] = "clean" /\ cleans[p] = 1 => ~b

\* The last init has a handle for each endpoint on a file that it came to.
Handles(p) ==
    /\ handles[p] \subseteq (1 .. inits[p]) \X (1 .. Len(Order(p)))
    /\ phase[p] \in {"init", "up"} => config[p].policy
    /\ \A i \in 1 .. Len(Order(p)) :
          /\ phase[p] = "init" =>
                (<<inits[p], i>> \in handles[p]
                    <=> i <= Len(mounted[p]) /\ OpensFile(p, Order(p)[i]))
          /\ phase[p] \in {"up", "failed", "clean"} =>
                (<<inits[p], i>> \in handles[p]
                    <=> i \in Attempted(p) /\ OpensFile(p, Order(p)[i]))

\* A readiness check heard from the databases of the graphlettes it asked.
Probes(p) ==
    /\ probe[p].asked \in 0 .. Len(config[p].graphlettes)
    /\ probe[p].status \in {"none", "ok", "error"}
    /\ probe[p].status = "ok" /\ DistinctPaths(config[p].graphlettes) =>
          \A i \in 1 .. probe[p].asked :
              Database(config[p].graphlettes[i].storage) \in probe[p].heard

Counts(p) ==
    /\ inits[p] \in 0 .. MaxInits /\ cleans[p] \in 0 .. inits[p]
    /\ phase[p] \in {"init", "up", "failed"} => cleans[p] < inits[p]

Process(p) ==
    Configured(p) /\ Mounts(p) /\ Caches(p) /\ Handles(p) /\ Probes(p) /\ Counts(p)

(***************************************************************************)
(* Sequences and numbers.                                                  *)
(***************************************************************************)

\* A set of numbers has a least one.
LEMMA Least ==
    ASSUME NEW T, T \subseteq Nat, T # {}
    PROVE  \E x \in T : \A y \in T : x <= y
<1>1. PICK x \in T : \A y \in T : <<y, x>> \notin OpToRel(<, Nat)
  BY WFMin, NatLessThanWellFounded
<1>2. OpToRel(<, Nat) = {ss \in Nat \X Nat : ss[1] < ss[2]}
  BY DEF OpToRel
<1>3. \A y \in T : ~(y < x)
  <2> SUFFICES ASSUME NEW y \in T, y < x PROVE FALSE
    OBVIOUS
  <2>1. <<y, x>> \in Nat \X Nat /\ <<y, x>>[1] < <<y, x>>[2]
    OBVIOUS
  <2>2. <<y, x>> \in {ss \in Nat \X Nat : ss[1] < ss[2]}
    BY <2>1
  <2> QED BY <1>1, <1>2, <2>2
<1> QED BY <1>3

\* A sequence over a set is one over its own elements.
LEMMA Sequence == ASSUME NEW S, NEW s \in Seq(S) PROVE IsSequence(s)
<1>1. Len(s) \in Nat /\ DOMAIN s = 1 .. Len(s) /\ s = [i \in 1 .. Len(s) |-> s[i]]
  OBVIOUS
<1>2. \A i \in 1 .. Len(s) : s[i] \in ToSet(s)
  BY <1>1 DEF ToSet
<1> QED BY <1>1, <1>2 DEF IsSequence

\* One more element.
LEMMA Appended ==
    ASSUME NEW s, IsSequence(s), NEW e
    PROVE  /\ IsSequence(Append(s, e))
           /\ Len(s) \in Nat /\ Len(Append(s, e)) = Len(s) + 1
           /\ \A i \in 1 .. Len(s) : Append(s, e)[i] = s[i]
           /\ Append(s, e)[Len(s) + 1] = e
           /\ ToSet(Append(s, e)) = ToSet(s) \cup {e}
<1>1. s \in Seq(ToSet(s) \cup {e})
  <2>1. s \in Seq(ToSet(s)) /\ ToSet(s) \subseteq ToSet(s) \cup {e}
    BY DEF IsSequence
  <2> QED BY <2>1, SeqMonotonic
<1>2. /\ Append(s, e) \in Seq(ToSet(s) \cup {e})
      /\ Len(s) \in Nat /\ Len(Append(s, e)) = Len(s) + 1
      /\ \A i \in 1 .. Len(s) : Append(s, e)[i] = s[i]
      /\ Append(s, e)[Len(s) + 1] = e
      /\ DOMAIN s = 1 .. Len(s) /\ DOMAIN Append(s, e) = 1 .. Len(s) + 1
  BY <1>1
<1>3. ToSet(Append(s, e)) = ToSet(s) \cup {e}
  BY <1>2 DEF ToSet
<1> QED BY <1>2, <1>3 DEF IsSequence

\* One sequence after the other.
LEMMA Joined ==
    ASSUME NEW s, IsSequence(s), NEW t, IsSequence(t)
    PROVE  /\ Len(s) \in Nat /\ Len(t) \in Nat
           /\ s \o t \in Seq(ToSet(s) \cup ToSet(t)) /\ Len(s \o t) = Len(s) + Len(t)
           /\ \A i \in 1 .. Len(s) : (s \o t)[i] = s[i]
           /\ \A i \in Len(s) + 1 .. Len(s) + Len(t) : (s \o t)[i] = t[i - Len(s)]
BY DEF IsSequence

\* The elements of a sequence.
LEMMA Elements ==
    ASSUME NEW s, IsSequence(s)
    PROVE  /\ Len(s) \in Nat /\ DOMAIN s = 1 .. Len(s)
           /\ ToSet(s) = {s[i] : i \in 1 .. Len(s)}
BY DEF IsSequence, ToSet

\* A path is a prefix of the path one segment longer, and is found in it.
LEMMA LongerPath ==
    ASSUME NEW s \in Seq(STRING), NEW e
    PROVE  /\ IsPrefix(s, Append(s, e))
           /\ \A t \in Seq(STRING) : Append(t, e) = Append(s, e) => t = s
<1>1. IsPrefix(s, Append(s, e))
  BY DEF IsPrefix
<1>2. \A t \in Seq(STRING) : Append(t, e) = Append(s, e) => t = s
  <2>1. ASSUME NEW t \in Seq(STRING)
        PROVE  /\ Len(t) \in Nat /\ Len(Append(t, e)) = Len(t) + 1
               /\ \A i \in 1 .. Len(t) : Append(t, e)[i] = t[i]
    OBVIOUS
  <2> SUFFICES ASSUME NEW t \in Seq(STRING), Append(t, e) = Append(s, e) PROVE t = s
    OBVIOUS
  <2>2. PICK u : u = Append(s, e) /\ u = Append(t, e)
    OBVIOUS
  <2>3. /\ Len(t) \in Nat /\ Len(u) = Len(t) + 1 /\ \A i \in 1 .. Len(t) : u[i] = t[i]
        /\ Len(s) \in Nat /\ Len(u) = Len(s) + 1 /\ \A i \in 1 .. Len(s) : u[i] = s[i]
    BY <2>1, <2>2
  <2>4. Len(t) = Len(s)
    BY <2>3
  <2>5. \A i \in 1 .. Len(s) : t[i] = s[i]
    BY <2>3, <2>4
  <2> QED BY <2>4, <2>5, SeqEqual
<1> QED BY <1>1, <1>2

\* The check of a graphlette goes to the path below its own.
LEMMA ReadyPath ==
    /\ \A s \in Seq(STRING) : IsPrefix(s, Append(s, "ready"))
    /\ \A s, t \in Seq(STRING) : Append(t, "ready") = Append(s, "ready") => t = s
<1>1. ASSUME NEW s \in Seq(STRING) PROVE IsPrefix(s, Append(s, "ready"))
  <2>1. PICK e : e = "ready"
    OBVIOUS
  <2>2. IsPrefix(s, Append(s, e))
    BY LongerPath
  <2> QED BY <2>1, <2>2, Zenon
<1>2. ASSUME NEW s \in Seq(STRING), NEW t \in Seq(STRING), Append(t, "ready") = Append(s, "ready")
      PROVE  t = s
  <2>1. PICK e : e = "ready"
    OBVIOUS
  <2>2. Append(t, e) = Append(s, e)
    BY <1>2, <2>1, Zenon
  <2> QED BY <2>2, LongerPath
<1> QED BY <1>1, <1>2

\* A connection that is closed keeps the rest.
LEMMA Closed ==
    ASSUME NEW b, NEW s, NEW d, NEW c, c = [open |-> b, server |-> s, db |-> d]
    PROVE  [c EXCEPT !.open = FALSE] = [open |-> FALSE, server |-> s, db |-> d]
<1>1. PICK f : f = FALSE
  OBVIOUS
<1>2. [c EXCEPT !.open = f] = [open |-> f, server |-> s, db |-> d]
  OBVIOUS
<1> QED BY <1>1, <1>2, Zenon

\* The order of init: Len(Order(p)) endpoints, the graphlettes first.
LEMMA Ordered ==
    ASSUME NEW p, Configured(p)
    PROVE  /\ Len(config[p].graphlettes) \in Nat
           /\ Len(Order(p)) \in Nat
           /\ Len(config[p].graphlettes) <= Len(Order(p))
           /\ \A i \in 1 .. Len(config[p].graphlettes) : Order(p)[i] = config[p].graphlettes[i]
<1>1. IsSequence(config[p].graphlettes) /\ IsSequence(config[p].restlettes)
  BY DEF Configured
<1>2. /\ Len(config[p].graphlettes) \in Nat /\ Len(config[p].restlettes) \in Nat
      /\ Len(Order(p)) = Len(config[p].graphlettes) + Len(config[p].restlettes)
      /\ \A i \in 1 .. Len(config[p].graphlettes) : Order(p)[i] = config[p].graphlettes[i]
  BY <1>1, Joined DEF Order
<1>3. \A a, b \in Nat : a + b \in Nat /\ a <= a + b
  OBVIOUS
<1> QED BY <1>2, <1>3

(***************************************************************************)
(* The steps of a server.                                                  *)
(***************************************************************************)

\* A step of p, or of nobody, leaves the other processes alone.
Spares(q) ==
    /\ config'[q] = config[q] /\ phase'[q] = phase[q] /\ mounted'[q] = mounted[q]
    /\ cache'[q] = cache[q] /\ handles'[q] = handles[q] /\ probe'[q] = probe[q]
    /\ inits'[q] = inits[q] /\ cleans'[q] = cleans[q]

\* Caches that stay as they are.
LEMMA CachesKept ==
    ASSUME NEW q, Caches(q), cache'[q] = cache[q], config'[q] = config[q],
           cleans'[q] = cleans[q], phase'[q] = "clean" => phase[q] = "clean"
    PROVE  Caches(q)'
<1> SUFFICES ASSUME NEW k \in DOMAIN cache'[q]
             PROVE  /\ k.type \in ToSet(config'[q].plugins)
                    /\ k.type \in {"mysql", "postgres"} =>
                          Database(cache'[q][k]) = <<k.server, k.db>>
                    /\ \E b \in BOOLEAN : \E s, d :
                          /\ cache'[q][k] = [open |-> b, server |-> s, db |-> d]
                          /\ cleans'[q] = 0 => b
                          /\ phase'[q] = "clean" /\ cleans'[q] = 1 => ~b
  BY Zenon DEF Caches, Database
<1>1. k \in DOMAIN cache[q]
  OBVIOUS
<1>2. PICK b \in BOOLEAN : \E s, d :
          /\ cache[q][k] = [open |-> b, server |-> s, db |-> d]
          /\ cleans[q] = 0 => b
          /\ phase[q] = "clean" /\ cleans[q] = 1 => ~b
  BY <1>1 DEF Caches
<1>3. /\ k.type \in ToSet(config[q].plugins)
      /\ k.type \in {"mysql", "postgres"} => Database(cache[q][k]) = <<k.server, k.db>>
  BY <1>1 DEF Caches
<1> QED BY <1>2, <1>3

\* Handles that stay as they are.
LEMMA HandlesKept ==
    ASSUME NEW q, Handles(q), handles'[q] = handles[q], config'[q] = config[q],
           mounted'[q] = mounted[q], inits'[q] = inits[q],
           \/ phase'[q] = phase[q]
           \/ phase[q] \in {"up", "failed"} /\ phase'[q] = "clean"
    PROVE  Handles(q)'
<1>1. Order(q)' = Order(q) /\ Attempted(q)' = Attempted(q)
  BY DEF Order, Attempted
<1>2. \A e : OpensFile(q, e)' <=> OpensFile(q, e)
  BY DEF OpensFile, HasPlugin, FileOpens
<1> QED BY <1>1, <1>2 DEF Handles

\* What a step spares stays right.
LEMMA Spared == ASSUME NEW q, Process(q), Spares(q) PROVE Process(q)'
<1> USE DEF Spares
<1>1. Configured(q)'
  BY DEF Process, Configured
<1>2. Order(q)' = Order(q)
  BY DEF Order
<1>3. \A s : Cached(q, s)' <=> Cached(q, s)
  BY DEF Cached
<1>4. Mounts(q)'
  BY <1>2, <1>3 DEF Process, Mounts
<1>5. Caches(q)'
  BY CachesKept DEF Process
<1>6. Handles(q)'
  BY HandlesKept DEF Process
<1>7. Probes(q)'
  BY DEF Process, Probes
<1>8. Counts(q)'
  BY DEF Process, Counts
<1> QED BY <1>1, <1>4, <1>5, <1>6, <1>7, <1>8 DEF Process

\* init is called.
LEMMA CallInitKeeps ==
    ASSUME Functions, NEW p \in Processes, Process(p), CallInit(p)
    PROVE  Functions' /\ Process(p)' /\ \A q \in Processes \ {p} : Spares(q)
<1> USE DEF CallInit
<1>1. Functions' /\ \A q \in Processes \ {p} : Spares(q)
  BY DEF Functions, Spares
<1>2. /\ phase'[p] = (IF config[p].policy THEN "init" ELSE "failed")
      /\ mounted'[p] = <<>> /\ probe'[p] = NoProbe
      /\ inits'[p] = inits[p] + 1 /\ UNCHANGED <<config, cache, handles, cleans>>
  BY DEF Functions
<1>3. Configured(p)' /\ Order(p)' = Order(p)
  BY DEF Process, Configured, Order
<1>4. Mounts(p)'
  <2>1. IsSequence(<<>>) /\ Len(<<>>) = 0
    BY DEF IsSequence
  <2>2. Len(Order(p)) \in Nat
    BY Ordered DEF Process
  <2> QED BY <1>2, <1>3, <2>1, <2>2 DEF Mounts
<1>5. Caches(p)'
  BY <1>2, CachesKept DEF Process
<1>6. Probes(p)'
  <2>1. Len(config[p].graphlettes) \in Nat
    BY Ordered DEF Process
  <2> QED BY <1>2, <2>1 DEF Probes, NoProbe
<1>7. Counts(p)'
  <2>1. inits[p] \in Nat /\ MaxInits \in Nat /\ inits[p] < MaxInits /\ cleans[p] \in 0 .. inits[p]
    BY ServerConstants DEF Process, Counts
  <2> QED BY <1>2, <2>1 DEF Counts
<1>8. Handles(p)'
  <2>1. inits[p] \in Nat /\ Len(Order(p)) \in Nat /\ Len(<<>>) = 0
    BY ServerConstants, Ordered DEF Process, Counts
  <2>2. handles[p] \subseteq (1 .. inits[p]) \X (1 .. Len(Order(p)))
    BY DEF Process, Handles
  <2>3. handles'[p] \subseteq (1 .. inits'[p]) \X (1 .. Len(Order(p)))
    BY <1>2, <2>1, <2>2
  <2>4. \A i : <<inits'[p], i>> \notin handles'[p]
    BY <1>2, <2>1, <2>2
  <2>5. \A i \in 1 .. Len(Order(p)) : ~(i <= Len(mounted'[p]))
    BY <1>2, <2>1
  <2>6. phase'[p] # "init" => Attempted(p)' = {}
    BY <1>2 DEF Attempted
  <2> QED BY <1>2, <1>3, <2>3, <2>4, <2>5, <2>6 DEF Handles
<1> QED BY <1>1, <1>3, <1>4, <1>5, <1>6, <1>7, <1>8 DEF Process

\* The caches after an attempt to connect: nothing is lost, and what is new is
\* open, under its key and by a plugin of the process.
LEMMA Connected ==
    ASSUME NEW p, NEW e, NEW c, c = AfterConnecting(p, e)
    PROVE  /\ DOMAIN cache[p] \subseteq DOMAIN c
           /\ \A k \in DOMAIN cache[p] : c[k] = cache[p][k]
           /\ \A k \in DOMAIN c \ DOMAIN cache[p] :
                 /\ k = Key(e.storage) /\ HasPlugin(p, e.storage)
                 /\ c[k] = [open |-> TRUE, server |-> e.storage.server, db |-> e.storage.db]
           /\ HasPlugin(p, e.storage) /\ Pooled(e.storage) => Key(e.storage) \in DOMAIN c
<1> DEFINE s == e.storage
<1>1. CASE c = cache[p]
  <2>1. HasPlugin(p, s) /\ Pooled(s) => Cached(p, s)
    <3> SUFFICES ASSUME HasPlugin(p, s), Pooled(s), ~Cached(p, s) PROVE FALSE
      OBVIOUS
    <3>1. c = [k \in DOMAIN cache[p] \cup {Key(s)} |->
                 IF k = Key(s) THEN [open |-> TRUE, server |-> s.server, db |-> s.db]
                 ELSE cache[p][k]]
      BY DEF AfterConnecting, Pooled
    <3>2. Key(s) \in DOMAIN c
      BY <3>1
    <3> QED BY <1>1, <3>2 DEF Cached
  <2> QED BY <1>1, <2>1 DEF Cached
<1>2. CASE /\ HasPlugin(p, s) /\ ~Cached(p, s)
           /\ c = [k \in DOMAIN cache[p] \cup {Key(s)} |->
                    IF k = Key(s) THEN [open |-> TRUE, server |-> s.server, db |-> s.db]
                    ELSE cache[p][k]]
  <2>1. DOMAIN c = DOMAIN cache[p] \cup {Key(s)} /\ Key(s) \notin DOMAIN cache[p]
    BY <1>2 DEF Cached
  <2>2. \A k \in DOMAIN cache[p] : c[k] = cache[p][k]
    BY <1>2, <2>1
  <2>3. c[Key(s)] = [open |-> TRUE, server |-> s.server, db |-> s.db]
    BY <1>2
  <2> QED BY <1>2, <2>1, <2>2, <2>3
<1> QED BY <1>1, <1>2 DEF AfterConnecting

\* What connects is kept right in the caches.
LEMMA CachesGrow ==
    ASSUME NEW p, NEW e, Caches(p), cache'[p] = AfterConnecting(p, e),
           config' = config, cleans' = cleans, phase'[p] # "clean"
    PROVE  Caches(p)'
<1> DEFINE s == e.storage
<1> SUFFICES ASSUME NEW k \in DOMAIN cache'[p]
             PROVE  /\ k.type \in ToSet(config[p].plugins)
                    /\ k.type \in {"mysql", "postgres"} =>
                          Database(cache'[p][k]) = <<k.server, k.db>>
                    /\ \E b \in BOOLEAN : \E t, d :
                          /\ cache'[p][k] = [open |-> b, server |-> t, db |-> d]
                          /\ cleans[p] = 0 => b
                          /\ phase'[p] = "clean" /\ cleans[p] = 1 => ~b
  BY DEF Caches, Database
<1>1. CASE k \in DOMAIN cache[p]
  <2>1. cache'[p][k] = cache[p][k]
    BY <1>1, Connected
  <2>2. PICK b \in BOOLEAN : \E t, d :
            /\ cache[p][k] = [open |-> b, server |-> t, db |-> d]
            /\ cleans[p] = 0 => b
    BY <1>1 DEF Caches
  <2>3. /\ k.type \in ToSet(config[p].plugins)
        /\ k.type \in {"mysql", "postgres"} => Database(cache[p][k]) = <<k.server, k.db>>
    BY <1>1 DEF Caches
  <2> QED BY <2>1, <2>2, <2>3
<1>2. CASE k \notin DOMAIN cache[p]
  <2>1. /\ k = Key(s) /\ HasPlugin(p, s)
        /\ cache'[p][k] = [open |-> TRUE, server |-> s.server, db |-> s.db]
    BY <1>2, Connected
  <2>2. k.type = s.type /\ k.server = s.server /\ (k.type # "mongo" => k.db = s.db)
    BY <2>1 DEF Key
  <2>3. k.type \in ToSet(config[p].plugins)
    BY <2>1, <2>2 DEF HasPlugin
  <2>4. k.type \in {"mysql", "postgres"} => Database(cache'[p][k]) = <<k.server, k.db>>
    BY <2>1, <2>2 DEF Database
  <2>5. \E b \in BOOLEAN : \E t, d :
            /\ cache'[p][k] = [open |-> b, server |-> t, db |-> d]
            /\ cleans[p] = 0 => b
            /\ phase'[p] = "clean" /\ cleans[p] = 1 => ~b
    BY <2>1
  <2> QED BY <2>3, <2>4, <2>5
<1> QED BY <1>1, <1>2

\* The handles of the last init, once it came to its next endpoint.
Opened(p, h) ==
    /\ h \subseteq (1 .. inits[p]) \X (1 .. Len(Order(p)))
    /\ \A i \in 1 .. Len(Order(p)) :
          <<inits[p], i>> \in h <=> i <= Len(mounted[p]) + 1 /\ OpensFile(p, Order(p)[i])

LEMMA OneMoreHandle ==
    ASSUME NEW p, Process(p), phase[p] = "init", Len(mounted[p]) < Len(Order(p))
    PROVE  Opened(p, AfterOpening(p))
<1> DEFINE n == Len(mounted[p])
           o == OpensFile(p, NextEndpoint(p))
           h == AfterOpening(p)
<1>1. /\ n \in Nat /\ Len(Order(p)) \in Nat /\ n < Len(Order(p))
      /\ inits[p] \in Nat /\ 1 <= inits[p]
  <2>1. n \in Nat /\ Len(Order(p)) \in Nat
    BY Elements, Ordered DEF Process, Mounts
  <2>2. inits[p] \in 0 .. MaxInits /\ cleans[p] \in 0 .. inits[p] /\ cleans[p] < inits[p]
    BY DEF Process, Counts
  <2> QED BY <2>1, <2>2, ServerConstants
<1>2. /\ handles[p] \subseteq (1 .. inits[p]) \X (1 .. Len(Order(p)))
      /\ \A i \in 1 .. Len(Order(p)) :
            <<inits[p], i>> \in handles[p] <=> i <= n /\ OpensFile(p, Order(p)[i])
  BY DEF Process, Handles
<1>3. NextEndpoint(p) = Order(p)[n + 1]
  BY DEF NextEndpoint
<1>4. h = handles[p] \cup (IF o THEN {<<inits[p], n + 1>>} ELSE {})
  BY DEF AfterOpening
<1> HIDE DEF h
<1>5. h \subseteq (1 .. inits[p]) \X (1 .. Len(Order(p)))
  <2>1. <<inits[p], n + 1>> \in (1 .. inits[p]) \X (1 .. Len(Order(p)))
    BY <1>1
  <2> QED BY <1>2, <1>4, <2>1
<1>6. ASSUME NEW i \in 1 .. Len(Order(p))
      PROVE  <<inits[p], i>> \in h <=> i <= n + 1 /\ OpensFile(p, Order(p)[i])
  <2>1. CASE i = n + 1
    <3>1. ~(i <= n)
      BY <1>1, <2>1
    <3>2. <<inits[p], i>> \in h <=> o
      BY <1>2, <1>4, <2>1, <3>1
    <3> QED BY <1>1, <1>3, <2>1, <3>2
  <2>2. CASE i # n + 1
    <3>1. i <= n + 1 <=> i <= n
      BY <1>1, <2>2
    <3>2. <<inits[p], i>> \in h <=> <<inits[p], i>> \in handles[p]
      BY <1>4, <2>2
    <3> QED BY <1>2, <3>1, <3>2
  <2> QED BY <2>1, <2>2
<1> QED BY <1>5, <1>6 DEF Opened, h

\* The next endpoint is set up.
LEMMA MountKeeps ==
    ASSUME Functions, NEW p \in Processes, Process(p), Mount(p)
    PROVE  Functions' /\ Process(p)' /\ \A q \in Processes \ {p} : Spares(q)
<1> USE DEF Mount
<1> DEFINE e == NextEndpoint(p)
           n == Len(mounted[p])
<1>1. Functions' /\ \A q \in Processes \ {p} : Spares(q)
  BY DEF Functions, Spares
<1>2. /\ mounted'[p] = Append(mounted[p], e) /\ cache'[p] = AfterConnecting(p, e)
      /\ handles'[p] = AfterOpening(p)
      /\ UNCHANGED <<config, phase, probe, inits, cleans>> /\ phase[p] = "init"
  BY DEF Functions
<1>3. Configured(p)' /\ Order(p)' = Order(p)
  BY <1>2 DEF Process, Configured, Order
<1>4. Mounts(p)'
  <2>1. /\ IsSequence(mounted'[p]) /\ n \in Nat /\ Len(mounted'[p]) = n + 1
        /\ \A i \in 1 .. n : mounted'[p][i] = mounted[p][i]
        /\ mounted'[p][n + 1] = e
    BY <1>2, Appended DEF Process, Mounts
  <2>2. n < Len(Order(p)) /\ Len(Order(p)) \in Nat
    BY Ordered DEF Process
  <2>3. ASSUME NEW i \in 1 .. n + 1
        PROVE  /\ mounted'[p][i] = Order(p)[i]
               /\ Pooled(mounted'[p][i].storage) => Key(mounted'[p][i].storage) \in DOMAIN cache'[p]
    <3>1. CASE i \in 1 .. n
      <4>1. mounted'[p][i] = mounted[p][i] /\ mounted[p][i] = Order(p)[i]
        BY <2>1, <3>1 DEF Process, Mounts
      <4>2. Pooled(mounted[p][i].storage) => Key(mounted[p][i].storage) \in DOMAIN cache[p]
        BY <1>2, <3>1 DEF Process, Mounts, Cached
      <4>3. DOMAIN cache[p] \subseteq DOMAIN cache'[p]
        BY <1>2, Connected
      <4> QED BY <4>1, <4>2, <4>3
    <3>2. CASE i = n + 1
      <4>1. mounted'[p][i] = e /\ e = Order(p)[i]
        BY <2>1, <3>2 DEF NextEndpoint
      <4>2. HasPlugin(p, e.storage)
        BY DEF Mountable
      <4>3. Pooled(e.storage) => Key(e.storage) \in DOMAIN cache'[p]
        BY <1>2, <4>2, Connected
      <4> QED BY <4>1, <4>3
    <3> QED BY <2>1, <3>1, <3>2
  <2> QED BY <1>2, <1>3, <2>1, <2>2, <2>3 DEF Mounts, Cached
<1>5. Caches(p)'
  BY <1>2, CachesGrow DEF Process
<1>6. Probes(p)' /\ Counts(p)'
  BY <1>2 DEF Process, Probes, Counts
<1>7. Handles(p)'
  <2>1. Opened(p, handles'[p])
    BY <1>2, OneMoreHandle DEF Mount
  <2>2. Len(mounted'[p]) = n + 1
    BY <1>2, Appended DEF Process, Mounts
  <2>3. \A x : OpensFile(p, x)' <=> OpensFile(p, x)
    BY <1>2 DEF OpensFile, HasPlugin, FileOpens
  <2> QED BY <1>2, <1>3, <2>1, <2>2, <2>3 DEF Opened, Process, Handles
<1> QED BY <1>1, <1>3, <1>4, <1>5, <1>6, <1>7 DEF Process

\* An endpoint fails.
LEMMA RejectKeeps ==
    ASSUME Functions, NEW p \in Processes, NEW exits \in BOOLEAN, Process(p), Reject(p, exits)
    PROVE  Functions' /\ Process(p)' /\ \A q \in Processes \ {p} : Spares(q)
<1> DEFINE e == NextEndpoint(p)
<1>1. /\ phase' = [phase EXCEPT ![p] = IF exits THEN "dead" ELSE "failed"]
      /\ cache' = [cache EXCEPT ![p] = IF exits THEN <<>> ELSE AfterConnecting(p, e)]
      /\ handles' = [handles EXCEPT ![p] = IF exits THEN {} ELSE AfterOpening(p)]
      /\ UNCHANGED <<config, mounted, probe, inits, cleans>> /\ phase[p] = "init"
  BY DEF Reject
<1>2. Functions' /\ \A q \in Processes \ {p} : Spares(q)
  BY <1>1 DEF Functions, Spares
<1>3. Configured(p)' /\ Order(p)' = Order(p) /\ Probes(p)'
  BY <1>1 DEF Process, Configured, Order, Probes
<1>4. Counts(p)'
  BY <1>1 DEF Process, Counts, Functions
<1>5. CASE exits
  <2>1. phase'[p] = "dead" /\ cache'[p] = <<>>
    BY <1>1, <1>5 DEF Functions
  <2>2. Mounts(p)'
    BY <1>1, <1>3, <2>1 DEF Process, Mounts
  <2>3. Caches(p)'
    BY <2>1 DEF Caches
  <2>4. Handles(p)'
    <3>1. handles'[p] = {}
      BY <1>1, <1>5 DEF Functions
    <3> QED BY <2>1, <3>1 DEF Handles
  <2> QED BY <1>2, <1>3, <1>4, <2>2, <2>3, <2>4 DEF Process
<1>6. CASE ~exits
  <2>1. phase'[p] = "failed" /\ cache'[p] = AfterConnecting(p, e)
    BY <1>1, <1>6 DEF Functions
  <2>2. \A s : Cached(p, s) => Cached(p, s)'
    BY <2>1, Connected DEF Cached
  <2>3. Mounts(p)'
    BY <1>1, <1>3, <2>1, <2>2 DEF Process, Mounts
  <2>4. Caches(p)'
    BY <1>1, <2>1, CachesGrow DEF Process
  <2>5. Handles(p)'
    <3>1. handles'[p] = AfterOpening(p)
      BY <1>1, <1>6 DEF Functions
    <3>2. Opened(p, handles'[p])
      BY <1>1, <3>1, OneMoreHandle DEF Reject
    <3>3. config[p].policy
      BY <1>1 DEF Process, Handles
    <3>4. \A i \in 1 .. Len(Order(p)) : i \in Attempted(p)' <=> i <= Len(mounted[p]) + 1
      BY <1>1, <1>3, <3>3 DEF Attempted
    <3>5. \A x : OpensFile(p, x)' <=> OpensFile(p, x)
      BY <1>1 DEF OpensFile, HasPlugin, FileOpens
    <3> QED BY <1>1, <1>3, <2>1, <3>2, <3>4, <3>5 DEF Opened, Handles
  <2> QED BY <1>2, <1>3, <1>4, <2>3, <2>4, <2>5 DEF Process
<1> QED BY <1>5, <1>6

\* The application listens.
LEMMA ListenKeeps ==
    ASSUME Functions, NEW p \in Processes, Process(p), Listen(p)
    PROVE  Functions' /\ Process(p)' /\ \A q \in Processes \ {p} : Spares(q)
<1> USE DEF Listen
<1>1. Functions' /\ \A q \in Processes \ {p} : Spares(q)
  BY DEF Functions, Spares
<1>2. /\ phase'[p] = "up" /\ phase[p] = "init" /\ Len(mounted[p]) = Len(Order(p))
      /\ UNCHANGED <<config, mounted, cache, handles, probe, inits, cleans>>
  BY DEF Functions
<1>3. Configured(p)' /\ Order(p)' = Order(p) /\ Probes(p)' /\ Counts(p)'
  BY <1>2 DEF Process, Configured, Order, Probes, Counts
<1>4. \A s : Cached(p, s)' <=> Cached(p, s)
  BY <1>2 DEF Cached
<1>5. Mounts(p)'
  BY <1>2, <1>3, <1>4 DEF Process, Mounts
<1>6. Caches(p)'
  BY <1>2, CachesKept DEF Process
<1>7. Handles(p)'
  <2>1. config[p].policy /\ Len(Order(p)) \in Nat
    BY <1>2, Ordered DEF Process, Handles
  <2>2. \A i \in 1 .. Len(Order(p)) : i <= Len(mounted[p]) /\ i <= Len(mounted[p]) + 1
    BY <1>2, <2>1
  <2>3. \A i \in 1 .. Len(Order(p)) : i \in Attempted(p)'
    BY <1>2, <1>3, <2>1, <2>2 DEF Attempted
  <2>4. \A x : OpensFile(p, x)' <=> OpensFile(p, x)
    BY <1>2 DEF OpensFile, HasPlugin, FileOpens
  <2> QED BY <1>2, <1>3, <2>1, <2>2, <2>3, <2>4 DEF Process, Handles
<1> QED BY <1>1, <1>3, <1>5, <1>6, <1>7 DEF Process

\* No plugin throws the first time, so every connection is closed.
LEMMA AllClosed ==
    ASSUME NEW p, Process(p), IsSequence(config[p].plugins), cleans[p] = 0,
           NEW k \in DOMAIN cache[p]
    PROVE  Cleans(p, k)
<1>1. /\ Len(config[p].plugins) \in Nat
      /\ ToSet(config[p].plugins) = {config[p].plugins[i] : i \in 1 .. Len(config[p].plugins)}
  BY Elements
<1>2. PICK i \in 1 .. Len(config[p].plugins) : k.type = config[p].plugins[i]
  BY <1>1 DEF Process, Caches
<1>3. \A j : ~Throws(p, j)
  <2> SUFFICES ASSUME NEW j, NEW l \in DOMAIN cache[p] PROVE cache[p][l].open
    BY DEF Throws
  <2>1. PICK s, d : cache[p][l] = [open |-> TRUE, server |-> s, db |-> d]
    BY DEF Process, Caches
  <2> QED BY <2>1
<1> QED BY <1>2, <1>3 DEF Cleans

\* The connections are closed.
LEMMA CleanServerKeeps ==
    ASSUME Functions, NEW p \in Processes, Process(p), CleanServer(p),
           IsSequence(config[p].plugins)
    PROVE  Functions' /\ Process(p)' /\ \A q \in Processes \ {p} : Spares(q)
<1> USE DEF CleanServer
<1>1. Functions' /\ \A q \in Processes \ {p} : Spares(q)
  BY DEF Functions, Spares
<1>2. /\ phase'[p] = "clean" /\ phase[p] \in {"up", "failed"}
      /\ cache'[p] = [k \in DOMAIN cache[p] |->
                        IF Cleans(p, k) THEN [cache[p][k] EXCEPT !.open = FALSE]
                        ELSE cache[p][k]]
      /\ cleans'[p] = cleans[p] + 1
      /\ UNCHANGED <<config, mounted, handles, probe, inits>>
  BY DEF Functions
<1>3. Configured(p)' /\ Order(p)' = Order(p) /\ Probes(p)'
  BY <1>2 DEF Process, Configured, Order, Probes
<1>4. Counts(p)'
  BY <1>2, ServerConstants DEF Process, Counts
<1>5. \A s : Cached(p, s)' <=> Cached(p, s)
  BY <1>2 DEF Cached
<1>6. Mounts(p)'
  BY <1>2, <1>3, <1>5 DEF Process, Mounts
<1>7. Caches(p)'
  <2> SUFFICES ASSUME NEW k \in DOMAIN cache'[p]
               PROVE  /\ k.type \in ToSet(config'[p].plugins)
                      /\ k.type \in {"mysql", "postgres"} =>
                            Database(cache'[p][k]) = <<k.server, k.db>>
                      /\ \E b \in BOOLEAN : \E s, d :
                            /\ cache'[p][k] = [open |-> b, server |-> s, db |-> d]
                            /\ cleans'[p] = 0 => b
                            /\ phase'[p] = "clean" /\ cleans'[p] = 1 => ~b
    BY Zenon DEF Caches, Database
  <2>1. k \in DOMAIN cache[p]
    BY <1>2
  <2>2. PICK b \in BOOLEAN : \E s, d : cache[p][k] = [open |-> b, server |-> s, db |-> d]
    BY <2>1 DEF Process, Caches
  <2>3. PICK s, d : cache[p][k] = [open |-> b, server |-> s, db |-> d]
    BY <2>2
  <2>4. /\ k.type \in ToSet(config[p].plugins)
        /\ k.type \in {"mysql", "postgres"} => <<s, d>> = <<k.server, k.db>>
    BY <2>1, <2>3 DEF Process, Caches, Database
  <2>5. cleans[p] \in Nat /\ cleans'[p] # 0
    BY <1>2, ServerConstants DEF Process, Counts
  <2>6. CASE Cleans(p, k)
    <3>1. cache'[p][k] = [open |-> FALSE, server |-> s, db |-> d]
      <4>1. [cache[p][k] EXCEPT !.open = FALSE] = [open |-> FALSE, server |-> s, db |-> d]
        BY <2>3, Closed
      <4>2. cache'[p][k] = [cache[p][k] EXCEPT !.open = FALSE]
        BY <1>2, <2>1, <2>6
      <4> QED BY <4>1, <4>2
    <3>2. \E c \in BOOLEAN : \E t, e :
            /\ cache'[p][k] = [open |-> c, server |-> t, db |-> e]
            /\ cleans'[p] = 0 => c
            /\ phase'[p] = "clean" /\ cleans'[p] = 1 => ~c
      BY <2>5, <3>1
    <3>3. Database(cache'[p][k]) = <<s, d>>
      BY <3>1 DEF Database
    <3> QED BY <1>2, <2>4, <3>2, <3>3
  <2>7. CASE ~Cleans(p, k)
    <3>1. cache'[p][k] = [open |-> b, server |-> s, db |-> d]
      BY <1>2, <2>1, <2>3, <2>7
    <3>2. cleans'[p] # 1
      BY <1>2, <2>1, <2>5, <2>7, AllClosed
    <3>3. \E c \in BOOLEAN : \E t, e :
            /\ cache'[p][k] = [open |-> c, server |-> t, db |-> e]
            /\ cleans'[p] = 0 => c
            /\ phase'[p] = "clean" /\ cleans'[p] = 1 => ~c
      BY <2>5, <3>1, <3>2
    <3>4. Database(cache'[p][k]) = <<s, d>>
      BY <3>1 DEF Database
    <3> QED BY <1>2, <2>4, <3>3, <3>4
  <2> QED BY <2>6, <2>7
<1>8. Handles(p)'
  BY <1>2, HandlesKept DEF Process
<1> QED BY <1>1, <1>3, <1>4, <1>6, <1>7, <1>8 DEF Process

\* GET /ready.
LEMMA CheckReadyKeeps ==
    ASSUME Functions, NEW p \in Processes, Process(p), CheckReady(p)
    PROVE  Functions' /\ Process(p)' /\ \A q \in Processes \ {p} : Spares(q)
<1> USE DEF CheckReady
<1>1. Functions' /\ \A q \in Processes \ {p} : Spares(q)
  BY DEF Functions, Spares
<1>2. /\ probe'[p] = [asked |-> 0, status |-> "ok", heard |-> {}]
      /\ UNCHANGED <<config, phase, mounted, cache, handles, inits, cleans>>
  BY DEF Functions, NoProbe
<1>3. Configured(p)' /\ Order(p)' = Order(p) /\ Counts(p)'
  BY <1>2 DEF Process, Configured, Order, Counts
<1>4. \A s : Cached(p, s)' <=> Cached(p, s)
  BY <1>2 DEF Cached
<1>5. Mounts(p)'
  BY <1>2, <1>3, <1>4 DEF Process, Mounts
<1>6. Caches(p)'
  BY <1>2, CachesKept DEF Process
<1>7. Probes(p)'
  <2>1. Len(config[p].graphlettes) \in Nat
    BY Ordered DEF Process
  <2> QED BY <1>2, <2>1 DEF Probes
<1>8. Handles(p)'
  BY <1>2, HandlesKept DEF Process
<1> QED BY <1>1, <1>3, <1>5, <1>6, <1>7, <1>8 DEF Process

\* When the i-th graphlette's check is answered "ok" it is that graphlette that
\* answered: none before it takes the path, and none after it is asked.
LEMMA AnswerHeard ==
    ASSUME NEW p, Process(p), phase[p] = "up",
           NEW i \in 1 .. Len(config[p].graphlettes)
    PROVE  /\ ReadyAnswer(p, i).status \in {"ok", "error"}
           /\ ReadyAnswer(p, i).status = "ok" /\ DistinctPaths(config[p].graphlettes) =>
                 Database(config[p].graphlettes[i].storage) \in ReadyAnswer(p, i).heard
<1> DEFINE g == config[p].graphlettes
           path == Append(g[i].path, "ready")
           t == Taker(p, path)
           e == mounted[p][t]
           T == {n \in 1 .. Len(mounted[p]) : Takes(mounted[p][n], path)}
<1>1. /\ Len(g) \in Nat /\ Len(g) <= Len(mounted[p]) /\ Len(mounted[p]) \in Nat
      /\ \A n \in 1 .. Len(g) : mounted[p][n] = g[n]
  <2>1. Len(mounted[p]) = Len(Order(p))
    BY DEF Process, Mounts
  <2>2. /\ Len(g) \in Nat /\ Len(Order(p)) \in Nat /\ Len(g) <= Len(Order(p))
        /\ \A n \in 1 .. Len(g) : Order(p)[n] = g[n]
    BY Ordered DEF Process
  <2>3. \A n \in 1 .. Len(g) : n \in 1 .. Len(mounted[p])
    BY <2>1, <2>2
  <2>4. \A n \in 1 .. Len(mounted[p]) : mounted[p][n] = Order(p)[n]
    BY DEF Process, Mounts
  <2> QED BY <2>1, <2>2, <2>3, <2>4
<1>2. g[i].kind = "graph" /\ g[i].path \in Seq(STRING)
  BY DEF Process, Configured
<1>3. i \in T
  <2>1. Takes(g[i], path)
    <3>1. IsPrefix(g[i].path, path)
      BY <1>2, ReadyPath
    <3> QED BY <1>2, <3>1 DEF Takes
  <2> QED BY <1>1, <2>1
<1>4. t \in T /\ t <= i
  <2>1. T \subseteq Nat /\ T # {}
    BY <1>1, <1>3
  <2>2. PICK n \in T : \A m \in T : n <= m
    BY <2>1, Least
  <2>3. /\ n \in 1 .. Len(mounted[p]) /\ Takes(mounted[p][n], path)
        /\ \A j \in 1 .. n - 1 : ~Takes(mounted[p][j], path)
    BY <1>1, <2>2
  <2>4. /\ t \in 1 .. Len(mounted[p]) /\ Takes(mounted[p][t], path)
        /\ \A j \in 1 .. t - 1 : ~Takes(mounted[p][j], path)
    BY <2>3 DEF Taker
  <2>5. t \in T /\ \A j \in 1 .. t - 1 : j \notin T
    BY <2>4
  <2>6. i \in Nat /\ i >= 1 /\ t \in Nat
    BY <1>1, <2>4
  <2> QED BY <1>3, <2>5, <2>6
<1>5. t \in 1 .. Len(g) /\ e = g[t] /\ g[t].path \in Seq(STRING)
  <2>1. t \in 1 .. Len(g)
    BY <1>1, <1>4
  <2> QED BY <1>1, <2>1 DEF Process, Configured
<1> DEFINE answered == Append(e.path, "ready") = path /\ Answers(p, e.storage)
<1>6. ReadyAnswer(p, i) =
        IF answered THEN [status |-> "ok", heard |-> {Database(e.storage)}]
        ELSE [status |-> "error", heard |-> {}]
  BY DEF ReadyAnswer
<1>7. answered /\ DistinctPaths(g) => t = i
  <2> SUFFICES ASSUME answered, DistinctPaths(g) PROVE t = i
    OBVIOUS
  <2>1. g[t].path = g[i].path
    <3>1. Append(g[t].path, "ready") = Append(g[i].path, "ready")
      BY <1>5
    <3>2. \A s, u \in Seq(STRING) : Append(u, "ready") = Append(s, "ready") => u = s
      BY ReadyPath
    <3> HIDE DEF t
    <3> QED BY <1>2, <1>5, <3>1, <3>2
  <2> QED BY <1>5, <2>1 DEF DistinctPaths
<1> HIDE DEF answered, t
<1>8. CASE answered
  <2>1. ReadyAnswer(p, i) = [status |-> "ok", heard |-> {Database(e.storage)}]
    BY <1>6, <1>8
  <2>2. DistinctPaths(g) => e = g[i]
    BY <1>5, <1>7, <1>8
  <2> QED BY <2>1, <2>2
<1>9. CASE ~answered
  BY <1>6, <1>9
<1> QED BY <1>8, <1>9

\* The check asks the next graphlette.
LEMMA AskNextKeeps ==
    ASSUME Functions, NEW p \in Processes, Process(p), AskNext(p)
    PROVE  Functions' /\ Process(p)' /\ \A q \in Processes \ {p} : Spares(q)
<1> DEFINE g == config[p].graphlettes
           i == probe[p].asked + 1
           answer == ReadyAnswer(p, i)
<1>1. /\ probe' = [probe EXCEPT ![p] = [asked |-> i,
                                       status |-> Overall(probe[p].status, answer.status),
                                       heard |-> probe[p].heard \cup answer.heard]]
      /\ phase[p] = "up" /\ probe[p].status # "none" /\ ~Checked(p)
      /\ UNCHANGED <<config, phase, mounted, cache, handles, inits, cleans>>
  BY DEF AskNext
<1>2. Functions' /\ \A q \in Processes \ {p} : Spares(q)
  BY <1>1 DEF Functions, Spares
<1>3. Configured(p)' /\ Order(p)' = Order(p) /\ Counts(p)'
  BY <1>1 DEF Process, Configured, Order, Counts
<1>4. \A s : Cached(p, s)' <=> Cached(p, s)
  BY <1>1 DEF Cached
<1>5. Mounts(p)'
  BY <1>1, <1>3, <1>4 DEF Process, Mounts
<1>6. Caches(p)'
  BY <1>1, CachesKept DEF Process
<1>7. Probes(p)'
  <2>1. i \in 1 .. Len(g) /\ Len(g) \in Nat /\ probe[p].asked \in Nat
    <3>1. Len(g) \in Nat
      BY Ordered DEF Process
    <3>2. probe[p].asked \in 0 .. Len(g) /\ probe[p].asked # Len(g)
      BY <1>1 DEF Process, Probes, Checked
    <3> QED BY <3>1, <3>2
  <2>2. /\ answer.status \in {"ok", "error"}
        /\ answer.status = "ok" /\ DistinctPaths(g) => Database(g[i].storage) \in answer.heard
    BY <1>1, <2>1, AnswerHeard
  <2> HIDE DEF answer
  <2>3. /\ probe'[p].asked = i
        /\ probe'[p].status = Overall(probe[p].status, answer.status)
        /\ probe'[p].heard = probe[p].heard \cup answer.heard
    BY <1>1 DEF Functions
  <2>4. probe'[p].status = "ok" => probe[p].status = "ok" /\ answer.status = "ok"
    BY <2>2, <2>3 DEF Overall
  <2>5. probe'[p].status \in {"none", "ok", "error"}
    BY <2>2, <2>3 DEF Overall, Process, Probes
  <2>6. ASSUME probe'[p].status = "ok", DistinctPaths(g), NEW j \in 1 .. i
        PROVE  Database(g[j].storage) \in probe'[p].heard
    <3>1. CASE j = i
      BY <2>2, <2>3, <2>4, <2>6, <3>1
    <3>2. CASE j # i
      <4>1. j \in 1 .. probe[p].asked
        BY <2>1, <3>2
      <4> QED BY <2>3, <2>4, <2>6, <4>1 DEF Process, Probes
    <3> QED BY <3>1, <3>2
  <2> QED BY <1>1, <2>1, <2>3, <2>5, <2>6 DEF Probes
<1>8. Handles(p)'
  BY <1>1, HandlesKept DEF Process
<1> QED BY <1>2, <1>3, <1>5, <1>6, <1>7, <1>8 DEF Process

(***************************************************************************)
(* The invariant of a deployment.                                          *)
(***************************************************************************)

Urls == [host : Names, port : Ports]
GraphEndpoints == [endpoint : {e \in Endpoints : e.kind = "graph"}, database : Databases,
           resolvers : SUBSET Urls]
RestEndpoints == [endpoint : Endpoints, database : Databases, resolvers : SUBSET Urls]
Service == [name : Names, port : Ports, listens : Ports, prefix : Names,
            graphlettes : Seq(GraphEndpoints), restlettes : Seq(RestEndpoints)]

\* The Service objects, and what the Deployment was given.
Objects ==
    /\ script \in {"services", "deployment", "refused", "generated", "invalid", "running",
                   "embedded"}
    /\ services \in Seq(Service) /\ Len(services) <= Len(Declarations)
    /\ given \subseteq Declared /\ added \subseteq Databases

\* A url is the one of a declared service.
Targets ==
    \A i \in Declared : \A x \in ToSet(services[i].graphlettes) :
        \A url \in x.resolvers : \E t \in Declared : url = Url(t)

\* What validate let through.
Valid ==
    script \in {"generated", "invalid", "running"} =>
        \A i \in Deployed : \A url \in Resolvers(i) : Known(url)

\* A Mongo endpoint of service i keeps its collection, and takes the prefix of i
\* for its database.
Prefixed(i, e) ==
    OnMongo(e) =>
        /\ e.storage.type = "mongo" /\ e.storage.db = services[i].prefix
        /\ HasMongo => e.storage.server = "mongodb"
        /\ e.storage.collection = e.source.collection

Generated ==
    script \in {"generated", "invalid", "running"} =>
        \A p \in Containers : \A e \in ToSet(Order(p)) : Prefixed(ServiceOf(p), e)

\* Nothing runs before docker compose does, unless a program embeds the server.
Idle(p) ==
    /\ phase[p] = "off" /\ mounted[p] = <<>> /\ cache[p] = <<>> /\ handles[p] = {}
    /\ probe[p] = NoProbe
    /\ inits[p] = 0 /\ cleans[p] = 0

Quiet == script \notin {"running", "embedded"} => \A p \in Processes : Idle(p)

Embedded == script = "embedded" => IsSequence(config[Program].plugins)

Script == Objects /\ Targets /\ Valid /\ Generated /\ Quiet /\ Embedded

Outages == up \subseteq DatabaseServers /\ outages \in 0 .. MaxOutages

Servers == Functions /\ (\A p \in Processes : Process(p)) /\ Outages

DeploymentInv == Servers /\ Script

(***************************************************************************)
(* The script.                                                             *)
(***************************************************************************)

\* While the script runs nothing else does.
LEMMA Scripted ==
    ASSUME Script, script \in {"services", "deployment"}, UNCHANGED server,
           script' \in {"services", "deployment", "refused"}, Objects', Targets'
    PROVE  Script'
<1>1. Valid' /\ Generated' /\ Embedded'
  BY DEF Valid, Generated, Embedded
<1>2. \A p \in Processes : Idle(p)'
  BY DEF Script, Quiet, Idle, server
<1> QED BY <1>1, <1>2 DEF Script, Quiet

\* new Service.
LEMMA NewServiceKeeps ==
    ASSUME Script, NEW name \in Names, NEW port \in Ports, NewService(name, port)
    PROVE  Script'
<1> DEFINE n == Len(services)
           s == [name |-> name, port |-> port, listens |-> port, prefix |-> name,
                 graphlettes |-> <<>>, restlettes |-> <<>>]
<1>1. /\ script = "services" /\ n < Len(Declarations) /\ services' = Append(services, s)
      /\ UNCHANGED <<script, given, added, server>>
  BY DEF NewService
<1>2. services \in Seq(Service) /\ n \in Nat /\ Len(Declarations) \in Nat
  BY DeploymentConstants DEF Script, Objects
<1>3. s \in Service
  BY DEF Service
<1>4. /\ services' \in Seq(Service) /\ Len(services') = n + 1
      /\ \A i \in 1 .. n : services'[i] = services[i]
      /\ services'[n + 1] = s
  BY <1>1, <1>2, <1>3
<1>5. Objects'
  <2>1. n + 1 <= Len(Declarations) /\ 1 .. n \subseteq 1 .. n + 1
    BY <1>1, <1>2
  <2> QED BY <1>1, <1>4, <2>1 DEF Script, Objects, Declared
<1>6. Targets'
  <2> SUFFICES ASSUME NEW i \in 1 .. n + 1, NEW x \in ToSet(services'[i].graphlettes),
                      NEW url \in x.resolvers
               PROVE  \E t \in 1 .. n + 1 :
                          url = [host |-> services'[t].name, port |-> services'[t].port]
    BY <1>4 DEF Targets, Declared, Url
  <2>1. i \in 1 .. n
    <3>1. ToSet(s.graphlettes) = {}
      BY DEF ToSet
    <3> QED BY <1>2, <1>4, <3>1
  <2>2. PICK t \in 1 .. n : url = [host |-> services[t].name, port |-> services[t].port]
    BY <1>4, <2>1 DEF Script, Targets, Declared, Url
  <2> QED BY <1>2, <1>4, <2>2
<1> QED BY <1>1, <1>5, <1>6, Scripted

\* graphql and rest.
LEMMA AddEndpointKeeps ==
    ASSUME Script, NEW i \in Declared, NEW e \in Endpoints, NEW d \in Databases,
           NEW targets \in SUBSET Declared, AddEndpoint(i, e, d, targets)
    PROVE  Script'
<1> DEFINE n == Len(services)
           x == [endpoint |-> e, database |-> d, resolvers |-> {Url(t) : t \in targets}]
<1>1. /\ script = "services" /\ UNCHANGED <<script, given, added, server>>
      /\ services' = IF e.kind = "graph"
                     THEN [services EXCEPT ![i].graphlettes = Append(services[i].graphlettes, x)]
                     ELSE [services EXCEPT ![i].restlettes = Append(services[i].restlettes, x)]
  BY DEF AddEndpoint
<1>2. services \in Seq(Service) /\ n \in Nat /\ i \in 1 .. n
  BY DEF Script, Objects, Declared
<1>3. \A t \in targets : Url(t) \in Urls
  <2> SUFFICES ASSUME NEW t \in 1 .. n
               PROVE  [host |-> services[t].name, port |-> services[t].port] \in Urls
    BY DEF Url, Declared
  <2>1. services[t] \in Service
    BY <1>2
  <2> QED BY <2>1 DEF Service, Urls
<1>4. x \in RestEndpoints /\ (e.kind = "graph" => x \in GraphEndpoints)
  BY <1>3 DEF RestEndpoints, GraphEndpoints
<1>5. services[i] \in Service
  BY <1>2
<1> HIDE DEF x
<1>6. PICK s \in Service :
          /\ services' = [services EXCEPT ![i] = s]
          /\ s.name = services[i].name /\ s.port = services[i].port
          /\ ToSet(s.graphlettes) \subseteq ToSet(services[i].graphlettes) \cup {x}
  <2>1. CASE e.kind = "graph"
    <3> DEFINE s == [services[i] EXCEPT !.graphlettes = Append(services[i].graphlettes, x)]
    <3>1. Append(services[i].graphlettes, x) \in Seq(GraphEndpoints)
      BY <1>4, <1>5, <2>1 DEF Service
    <3>2. /\ s \in Service /\ s.name = services[i].name /\ s.port = services[i].port
          /\ s.graphlettes = Append(services[i].graphlettes, x)
      BY <1>5, <3>1 DEF Service
    <3>3. services' = [services EXCEPT ![i] = s]
      BY <1>1, <2>1
    <3>4. ToSet(Append(services[i].graphlettes, x)) = ToSet(services[i].graphlettes) \cup {x}
      <4>1. services[i].graphlettes \in Seq(GraphEndpoints)
        BY <1>5 DEF Service
      <4> QED BY <4>1, Sequence, Appended
    <3> QED BY <3>2, <3>3, <3>4
  <2>2. CASE e.kind # "graph"
    <3> DEFINE s == [services[i] EXCEPT !.restlettes = Append(services[i].restlettes, x)]
    <3>1. Append(services[i].restlettes, x) \in Seq(RestEndpoints)
      BY <1>4, <1>5 DEF Service
    <3>2. /\ s \in Service /\ s.name = services[i].name /\ s.port = services[i].port
          /\ s.graphlettes = services[i].graphlettes
      BY <1>5, <3>1 DEF Service
    <3>3. services' = [services EXCEPT ![i] = s]
      BY <1>1, <2>2
    <3> QED BY <3>2, <3>3
  <2> QED BY <2>1, <2>2
<1>7. /\ services' \in Seq(Service) /\ Len(services') = n
      /\ services'[i] = s
      /\ \A j \in 1 .. n : /\ j # i => services'[j] = services[j]
                           /\ services'[j].name = services[j].name
                           /\ services'[j].port = services[j].port
  BY <1>2, <1>6
<1>8. Objects'
  BY <1>1, <1>7 DEF Script, Objects, Declared
<1>9. Targets'
  <2> SUFFICES ASSUME NEW j \in 1 .. n, NEW y \in ToSet(services'[j].graphlettes),
                      NEW url \in y.resolvers
               PROVE  \E t \in 1 .. n :
                          url = [host |-> services'[t].name, port |-> services'[t].port]
    BY <1>7 DEF Targets, Declared, Url
  <2>1. y \in ToSet(services[j].graphlettes) \/ y = x
    BY <1>6, <1>7
  <2>2. PICK t \in 1 .. n : url = Url(t)
    <3>1. CASE y \in ToSet(services[j].graphlettes)
      BY <3>1 DEF Script, Targets, Declared
    <3>2. CASE y = x
      BY <3>2 DEF x, Declared
    <3> QED BY <2>1, <3>1, <3>2
  <2> QED BY <1>7, <2>2 DEF Url
<1> QED BY <1>1, <1>8, <1>9, Scripted

\* withEnv.
LEMMA WithEnvKeeps ==
    ASSUME Script, NEW i \in Declared, WithEnv(i)
    PROVE  Script'
<1> DEFINE n == Len(services)
<1>1. script = "services" /\ UNCHANGED <<script, given, added, server>>
  BY DEF WithEnv
<1>2. services \in Seq(Service) /\ n \in Nat /\ i \in 1 .. n /\ services[i] \in Service
  BY DEF Script, Objects, Declared
<1>3. PICK s \in Service :
          /\ services' = [services EXCEPT ![i] = s]
          /\ s.name = services[i].name /\ s.port = services[i].port
          /\ s.graphlettes = services[i].graphlettes
  <2>1. CASE \E port \in Ports : services' = [services EXCEPT ![i].listens = port]
    <3>1. PICK port \in Ports : services' = [services EXCEPT ![i].listens = port]
      BY <2>1
    <3> DEFINE s == [services[i] EXCEPT !.listens = port]
    <3>2. /\ s \in Service /\ s.name = services[i].name /\ s.port = services[i].port
          /\ s.graphlettes = services[i].graphlettes
      BY <1>2 DEF Service
    <3> QED BY <3>1, <3>2
  <2>2. CASE \E name \in Names : services' = [services EXCEPT ![i].prefix = name]
    <3>1. PICK name \in Names : services' = [services EXCEPT ![i].prefix = name]
      BY <2>2
    <3> DEFINE s == [services[i] EXCEPT !.prefix = name]
    <3>2. /\ s \in Service /\ s.name = services[i].name /\ s.port = services[i].port
          /\ s.graphlettes = services[i].graphlettes
      BY <1>2 DEF Service
    <3> QED BY <3>1, <3>2
  <2> QED BY <2>1, <2>2 DEF WithEnv
<1>4. /\ services' \in Seq(Service) /\ Len(services') = n
      /\ \A j \in 1 .. n : /\ services'[j].graphlettes = services[j].graphlettes
                           /\ services'[j].name = services[j].name
                           /\ services'[j].port = services[j].port
  BY <1>2, <1>3
<1>5. Objects'
  BY <1>1, <1>4 DEF Script, Objects, Declared
<1>6. Targets'
  <2> SUFFICES ASSUME NEW j \in 1 .. n, NEW y \in ToSet(services[j].graphlettes),
                      NEW url \in y.resolvers
               PROVE  \E t \in 1 .. n :
                          url = [host |-> services'[t].name, port |-> services'[t].port]
    BY <1>4 DEF Targets, Declared, Url
  <2>1. PICK t \in 1 .. n : url = Url(t)
    BY DEF Script, Targets, Declared
  <2> QED BY <1>4, <2>1 DEF Url
<1> QED BY <1>1, <1>5, <1>6, Scripted

\* new Deployment, withDatabase, and a deployment that is refused.
LEMMA PlanKeeps ==
    ASSUME Script,
           \/ \E objects \in SUBSET Declared : NewDeployment(objects)
           \/ \E d \in Addable : WithDatabase(d)
           \/ Refuse
    PROVE  Script'
<1>1. /\ script \in {"services", "deployment"} /\ script' \in {"deployment", "refused"}
      /\ UNCHANGED <<services, server>>
      /\ given' \subseteq Declared /\ added' \subseteq Databases
  <2>1. given \subseteq Declared /\ added \subseteq Databases
    BY DEF Script, Objects
  <2>2. ASSUME NEW objects \in SUBSET Declared, NewDeployment(objects) PROVE <1>1
    BY <2>1, <2>2 DEF NewDeployment
  <2>3. ASSUME NEW d \in Addable, WithDatabase(d) PROVE <1>1
    BY <2>1, <2>3, DeploymentConstants DEF WithDatabase
  <2>4. CASE Refuse
    BY <2>1, <2>4 DEF Refuse
  <2> QED BY <2>2, <2>3, <2>4
<1>2. Objects'
  BY <1>1 DEF Script, Objects, Declared
<1>3. Targets'
  BY <1>1 DEF Script, Targets, Declared, Url
<1> QED BY <1>1, <1>2, <1>3, Scripted

\* What the Deployment says stays while its services and databases do.
LEMMA DeploymentKept ==
    ASSUME UNCHANGED <<services, given>>
    PROVE  /\ Deployed' = Deployed /\ Declared' = Declared /\ Containers' = Containers
           /\ \A p : ServiceOf(p)' = ServiceOf(p)
           /\ \A i : Resolvers(i)' = Resolvers(i)
           /\ \A url : Known(url)' <=> Known(url)
<1>1. Deployed' = Deployed /\ Declared' = Declared
  BY DEF Deployed, Declared
<1>2. Containers' = Containers
  BY <1>1 DEF Containers
<1>3. \A i : Resolvers(i)' = Resolvers(i)
  BY DEF Resolvers
<1>4. \A url : Known(url)' <=> Known(url)
  BY <1>2 DEF Known
<1>5. \A p : ServiceOf(p)' = ServiceOf(p)
  BY <1>1 DEF ServiceOf
<1> QED BY <1>1, <1>2, <1>3, <1>4, <1>5

\* A container runs a service that was declared, under its name.
LEMMA Named ==
    ASSUME Objects
    PROVE  /\ Containers \subseteq Processes
           /\ \A p \in Containers : ServiceOf(p) \in Declared
<1>1. Deployed \subseteq Declared
  BY DEF Deployed, Objects
<1>2. ASSUME NEW p \in Containers PROVE p \in Processes /\ ServiceOf(p) \in Declared
  <2>1. PICK n \in Deployed : services[n].name = p
    BY DEF Containers
  <2>2. ServiceOf(p) \in Deployed
    BY <2>1 DEF ServiceOf
  <2>3. services[n] \in Service
    BY <1>1, <2>1 DEF Objects, Declared
  <2> QED BY <1>1, <2>1, <2>2, <2>3, DeploymentConstants DEF Service
<1> QED BY <1>2

\* Both copies of the code give a Mongo endpoint the prefix and its collection.
LEMMA BothCopies ==
    ASSUME NEW i, NEW x
    PROVE  Prefixed(i, Endpoint(i, x))
<1> DEFINE e == Endpoint(i, x)
           s == StorageOf(x)
<1> SUFFICES ASSUME OnMongo(e)
             PROVE  /\ e.storage.type = "mongo" /\ e.storage.db = services[i].prefix
                    /\ HasMongo => e.storage.server = "mongodb"
                    /\ e.storage.collection = e.source.collection
  BY DEF Prefixed
<1>1. e.source.database = x.database /\ e.source.collection = x.endpoint.collection
  BY DEF Endpoint
<1>2. x.database.type = "mongo" /\ x.database.db # "none"
  BY <1>1 DEF OnMongo
<1>3. s.type = "mongo" /\ s.db # "none" /\ s.collection = x.endpoint.collection /\ ~Pooled(s)
  BY <1>2 DEF StorageOf, Pooled
<1>4. /\ Uri(s) = (IF HasMongo THEN "mongodb" ELSE s.server)
      /\ Db(i, s) = services[i].prefix /\ Table(s) = s.collection
  BY <1>3 DEF Uri, Db, Table
<1>5. CASE x.endpoint.kind = "graph"
  <2>1. e.storage = [type |-> s.type, server |-> Uri(s), db |-> Db(i, s), collection |-> Table(s)]
    BY <1>5 DEF Endpoint, EmittedForGraph
  <2> QED BY <1>1, <1>3, <1>4, <2>1
<1>6. CASE x.endpoint.kind # "graph"
  <2>1. e.storage = [type |-> s.type, server |-> Uri(s), db |-> Db(i, s), collection |-> Table(s)]
    BY <1>6 DEF Endpoint, EmittedForRest
  <2> QED BY <1>1, <1>3, <1>4, <2>1
<1> QED BY <1>5, <1>6

\* A generated server is configured with sequences, of prefixed endpoints.
LEMMA GeneratedConfig ==
    ASSUME Script, NEW i \in Declared, NEW c, c = Entrypoint(i)
    PROVE  /\ IsSequence(c.graphlettes) /\ IsSequence(c.restlettes)
           /\ \A n \in 1 .. Len(c.graphlettes) :
                 c.graphlettes[n].kind = "graph" /\ c.graphlettes[n].path \in Seq(STRING)
           /\ \A e \in ToSet(c.graphlettes \o c.restlettes) : Prefixed(i, e)
<1> DEFINE gs == services[i].graphlettes
           rs == services[i].restlettes
<1>1. gs \in Seq(GraphEndpoints) /\ rs \in Seq(RestEndpoints)
  <2>1. services[i] \in Service
    BY DEF Script, Objects, Declared
  <2> QED BY <2>1 DEF Service
<1>2. c.graphlettes = Written(i, gs) /\ c.restlettes = Written(i, rs)
  BY DEF Entrypoint
<1> HIDE DEF gs, rs
<1>3. /\ Len(gs) \in Nat /\ Len(rs) \in Nat
      /\ DOMAIN Written(i, gs) = 1 .. Len(gs) /\ DOMAIN Written(i, rs) = 1 .. Len(rs)
      /\ Len(Written(i, gs)) = Len(gs) /\ Len(Written(i, rs)) = Len(rs)
      /\ \A n \in 1 .. Len(gs) : Written(i, gs)[n] = Endpoint(i, gs[n])
      /\ \A n \in 1 .. Len(rs) : Written(i, rs)[n] = Endpoint(i, rs[n])
  BY <1>1 DEF Written
<1>4. IsSequence(Written(i, gs)) /\ IsSequence(Written(i, rs))
  <2>1. \A n \in 1 .. Len(gs) : Written(i, gs)[n] \in ToSet(Written(i, gs))
    BY <1>3 DEF ToSet
  <2>2. \A n \in 1 .. Len(rs) : Written(i, rs)[n] \in ToSet(Written(i, rs))
    BY <1>3 DEF ToSet
  <2>3. Written(i, gs) = [n \in 1 .. Len(gs) |-> Written(i, gs)[n]]
    BY <1>3 DEF Written
  <2>4. Written(i, rs) = [n \in 1 .. Len(rs) |-> Written(i, rs)[n]]
    BY <1>3 DEF Written
  <2> QED BY <1>3, <2>1, <2>2, <2>3, <2>4 DEF IsSequence
<1>5. ASSUME NEW n \in 1 .. Len(gs)
      PROVE  Written(i, gs)[n].kind = "graph" /\ Written(i, gs)[n].path \in Seq(STRING)
  <2>1. gs[n] \in GraphEndpoints
    BY <1>1
  <2>2. /\ gs[n].endpoint \in Endpoints /\ gs[n].endpoint.kind = "graph"
        /\ gs[n].endpoint.path \in Seq(STRING)
    BY <2>1, DeploymentConstants DEF GraphEndpoints
  <2>3. Endpoint(i, gs[n]).kind = gs[n].endpoint.kind /\ Endpoint(i, gs[n]).path = gs[n].endpoint.path
    BY DEF Endpoint
  <2> QED BY <1>3, <2>2, <2>3
<1>6. \A e \in ToSet(c.graphlettes \o c.restlettes) : \E x : e = Endpoint(i, x)
  <2> SUFFICES ASSUME NEW e \in ToSet(Written(i, gs) \o Written(i, rs))
               PROVE  \E x : e = Endpoint(i, x)
    BY <1>2
  <2> DEFINE all == Written(i, gs) \o Written(i, rs)
  <2>1. /\ all \in Seq(ToSet(Written(i, gs)) \cup ToSet(Written(i, rs)))
        /\ Len(all) = Len(gs) + Len(rs)
        /\ \A n \in 1 .. Len(gs) : all[n] = Endpoint(i, gs[n])
        /\ \A n \in Len(gs) + 1 .. Len(gs) + Len(rs) : all[n] = Endpoint(i, rs[n - Len(gs)])
    <3>1. /\ all \in Seq(ToSet(Written(i, gs)) \cup ToSet(Written(i, rs)))
          /\ Len(all) = Len(gs) + Len(rs)
          /\ \A n \in 1 .. Len(gs) : all[n] = Written(i, gs)[n]
          /\ \A n \in Len(gs) + 1 .. Len(gs) + Len(rs) : all[n] = Written(i, rs)[n - Len(gs)]
      BY <1>3, <1>4, Joined
    <3>2. \A n \in Len(gs) + 1 .. Len(gs) + Len(rs) : n - Len(gs) \in 1 .. Len(rs)
      BY <1>3
    <3> QED BY <1>3, <3>1, <3>2
  <2> HIDE DEF all
  <2>2. PICK n \in 1 .. Len(gs) + Len(rs) : e = all[n]
    <3>1. DOMAIN all = 1 .. Len(gs) + Len(rs)
      BY <2>1
    <3> QED BY <3>1 DEF all, ToSet
  <2>3. n \in 1 .. Len(gs) \/ n \in Len(gs) + 1 .. Len(gs) + Len(rs)
    BY <1>3
  <2> QED BY <2>1, <2>2, <2>3
<1>7. \A e \in ToSet(c.graphlettes \o c.restlettes) : Prefixed(i, e)
  BY <1>6, BothCopies
<1> QED BY <1>2, <1>3, <1>4, <1>5, <1>7

\* A process that has not run.
LEMMA IdleIsRight ==
    ASSUME NEW p, Idle(p), Configured(p)
    PROVE  Process(p)
<1>1. IsSequence(<<>>) /\ Len(<<>>) = 0 /\ DOMAIN <<>> = {}
  BY DEF IsSequence
<1>2. Len(Order(p)) \in Nat /\ Len(config[p].graphlettes) \in Nat
  BY Ordered
<1>3. Mounts(p)
  BY <1>1, <1>2 DEF Idle, Mounts
<1>4. Caches(p)
  BY <1>1 DEF Idle, Caches
<1>5. Probes(p)
  BY <1>2 DEF Idle, Probes, NoProbe
<1>6. Counts(p)
  BY ServerConstants DEF Idle, Counts
<1>7. Handles(p)
  BY DEF Idle, Handles
<1> QED BY <1>3, <1>4, <1>5, <1>6, <1>7 DEF Process

\* No endpoints and no plugins.
LEMMA NoConfigIsRight ==
    /\ IsSequence(NoConfig.graphlettes) /\ IsSequence(NoConfig.restlettes)
    /\ IsSequence(NoConfig.plugins) /\ Len(NoConfig.graphlettes) = 0
<1>1. IsSequence(<<>>) /\ Len(<<>>) = 0
  BY DEF IsSequence
<1> QED BY <1>1 DEF NoConfig

\* generate, of a deployment that is accepted.
LEMMA GenerateKeeps == ASSUME DeploymentInv, Generate PROVE DeploymentInv'
<1> USE DEF DeploymentInv, Servers
<1>1. /\ script = "deployment" /\ script' = "generated" /\ Accepted
      /\ UNCHANGED <<services, given, added, phase, mounted, cache, handles, probe, inits,
                     cleans, up, outages>>
      /\ DOMAIN config' = Processes
  BY DEF Generate
<1>2. ASSUME NEW p \in Processes
      PROVE  \/ p \notin Containers /\ config'[p] = NoConfig
             \/ ServiceOf(p) \in Declared /\ config'[p] = Entrypoint(ServiceOf(p))
  <2>1. config'[p] = IF p \in Containers THEN Entrypoint(ServiceOf(p)) ELSE NoConfig
    BY DEF Generate
  <2>2. CASE p \in Containers
    BY <2>1, <2>2, Named DEF Script
  <2> QED BY <2>1, <2>2
<1>3. ASSUME NEW p \in Processes
      PROVE  /\ Configured(p)'
             /\ p \in Containers =>
                   \A e \in ToSet(config'[p].graphlettes \o config'[p].restlettes) :
                       Prefixed(ServiceOf(p), e)
  <2>1. CASE p \notin Containers /\ config'[p] = NoConfig
    BY <2>1, NoConfigIsRight DEF Configured
  <2>2. CASE ServiceOf(p) \in Declared /\ config'[p] = Entrypoint(ServiceOf(p))
    BY <2>2, GeneratedConfig DEF Configured
  <2> QED BY <1>2, <2>1, <2>2
<1>4. ASSUME NEW p \in Processes PROVE Process(p)' /\ Idle(p)'
  <2>1. Idle(p)'
    BY <1>1 DEF Script, Quiet, Idle
  <2>2. IsSequence(<<>>) /\ Len(<<>>) = 0 /\ DOMAIN <<>> = {}
    BY DEF IsSequence
  <2>3. Len(Order(p))' \in Nat /\ Len(config'[p].graphlettes) \in Nat
    <3>1. IsSequence(config'[p].graphlettes) /\ IsSequence(config'[p].restlettes)
      BY <1>3 DEF Configured
    <3>2. /\ Len(config'[p].graphlettes) \in Nat /\ Len(config'[p].restlettes) \in Nat
          /\ Len(config'[p].graphlettes \o config'[p].restlettes)
                = Len(config'[p].graphlettes) + Len(config'[p].restlettes)
      BY <3>1, Joined
    <3>3. Order(p)' = config'[p].graphlettes \o config'[p].restlettes
      BY DEF Order
    <3>4. \A a, b \in Nat : a + b \in Nat
      OBVIOUS
    <3> QED BY <3>2, <3>3, <3>4
  <2>4. Mounts(p)'
    BY <2>1, <2>2, <2>3 DEF Idle, Mounts
  <2>5. Caches(p)'
    BY <2>1, <2>2 DEF Idle, Caches
  <2>6. Probes(p)'
    BY <2>1, <2>3 DEF Idle, Probes, NoProbe
  <2>7. Counts(p)'
    BY <2>1, ServerConstants DEF Idle, Counts
  <2>8. Handles(p)'
    BY <2>1 DEF Idle, Handles
  <2> QED BY <1>3, <2>1, <2>4, <2>5, <2>6, <2>7, <2>8 DEF Process
<1>5. Functions' /\ Outages'
  BY <1>1 DEF Functions, Outages
<1>6. Script'
  <2>1. Objects' /\ Targets'
    BY <1>1 DEF Script, Objects, Targets, Declared, Url
  <2>2. Valid'
    BY <1>1, DeploymentKept DEF Valid, Accepted
  <2>3. Generated'
    <3>1. \A i, e : Prefixed(i, e) => Prefixed(i, e)'
      BY <1>1 DEF Prefixed, OnMongo, HasMongo
    <3>2. \A p : Order(p)' = config'[p].graphlettes \o config'[p].restlettes
      BY DEF Order
    <3>3. Containers \subseteq Processes
      BY Named DEF Script
    <3> QED BY <1>1, <1>3, <3>1, <3>2, <3>3, DeploymentKept DEF Generated
  <2>4. Quiet' /\ Embedded'
    BY <1>1, <1>4 DEF Quiet, Embedded
  <2> QED BY <2>1, <2>2, <2>3, <2>4 DEF Script
<1> QED BY <1>4, <1>5, <1>6

(***************************************************************************)
(* The other steps.                                                        *)
(***************************************************************************)

\* The script has ended, and the configurations with it.
LEMMA ScriptKept ==
    ASSUME Script, UNCHANGED <<services, given, added, config>>,
           \/ script' = script
           \/ script = "generated" /\ script' \in {"invalid", "running"},
           Quiet'
    PROVE  Script'
<1>1. Objects' /\ Targets'
  BY DEF Script, Objects, Targets, Declared, Url
<1>2. Valid'
  BY DeploymentKept DEF Script, Valid
<1>3. Generated'
  <2>1. \A i, e : Prefixed(i, e) => Prefixed(i, e)'
    BY DEF Prefixed, OnMongo, HasMongo
  <2>2. \A p : Order(p)' = Order(p)
    BY DEF Order
  <2> QED BY <2>1, <2>2, DeploymentKept DEF Script, Generated
<1>4. Embedded'
  BY DEF Script, Embedded
<1> QED BY <1>1, <1>2, <1>3, <1>4 DEF Script

\* Nothing moves in an idle process but by a call of init.
LEMMA IdleRests ==
    ASSUME NEW p, Idle(p)
    PROVE  ~(Mount(p) \/ (\E exits : Reject(p, exits)) \/ Listen(p) \/ CheckReady(p) \/ AskNext(p))
BY DEF Idle, Mount, Reject, Listen, CheckReady, AskNext

\* docker compose up.
LEMMA UpKeeps == ASSUME DeploymentInv, Up PROVE DeploymentInv'
<1> USE DEF DeploymentInv, Servers
<1>1. /\ script = "generated" /\ script' \in {"invalid", "running"}
      /\ UNCHANGED <<services, given, added>>
  BY DEF Up
<1>2. UNCHANGED <<config, phase, mounted, cache, handles, probe, inits, cleans, up, outages>>
  BY DEF Up, server
<1>3. ASSUME NEW p \in Processes PROVE Process(p)'
  BY <1>2, Spared DEF Spares
<1>4. Functions' /\ Outages'
  BY <1>2 DEF Functions, Outages
<1>5. Quiet'
  BY <1>1, <1>2 DEF Script, Quiet, Idle
<1> QED BY <1>1, <1>2, <1>3, <1>4, <1>5, ScriptKept DEF server

\* A database server goes down or comes back.
LEMMA OutageKeeps ==
    ASSUME DeploymentInv, UNCHANGED deployment,
           NEW d \in DatabaseServers, GoDown(d) \/ ComeBack(d)
    PROVE  DeploymentInv'
<1> USE DEF DeploymentInv, Servers
<1>1. /\ UNCHANGED <<config, phase, mounted, cache, handles, probe, inits, cleans>>
      /\ UNCHANGED <<script, services, given, added>>
  BY DEF GoDown, ComeBack, deployment
<1>2. ASSUME NEW p \in Processes PROVE Process(p)'
  BY <1>1, Spared DEF Spares
<1>3. Functions'
  BY <1>1 DEF Functions
<1>4. Outages'
  BY ServerConstants DEF Outages, GoDown, ComeBack
<1>5. Quiet'
  BY <1>1 DEF Script, Quiet, Idle
<1> QED BY <1>1, <1>2, <1>3, <1>4, <1>5, ScriptKept

\* A process takes a step, under docker compose or by the embedding program.
LEMMA ProcessKeeps ==
    ASSUME DeploymentInv, UNCHANGED deployment, NEW p \in Processes,
           \/ script \in {"running", "embedded"} /\ CallInit(p)
           \/ script = "embedded" /\ p = Program /\ CleanServer(p)
           \/ Mount(p) \/ (\E exits \in BOOLEAN : Reject(p, exits)) \/ Listen(p)
           \/ CheckReady(p) \/ AskNext(p)
    PROVE  DeploymentInv'
<1> USE DEF DeploymentInv, Servers
<1>1. Functions' /\ Process(p)' /\ \A q \in Processes \ {p} : Spares(q)
  <2>1. CASE CallInit(p)
    BY <2>1, CallInitKeeps
  <2>2. CASE script = "embedded" /\ p = Program /\ CleanServer(p)
    BY <2>2, CleanServerKeeps DEF Script, Embedded
  <2>3. CASE Mount(p)
    BY <2>3, MountKeeps
  <2>4. CASE \E exits \in BOOLEAN : Reject(p, exits)
    BY <2>4, RejectKeeps
  <2>5. CASE Listen(p)
    BY <2>5, ListenKeeps
  <2>6. CASE CheckReady(p)
    BY <2>6, CheckReadyKeeps
  <2>7. CASE AskNext(p)
    BY <2>7, AskNextKeeps
  <2> QED BY <2>1, <2>2, <2>3, <2>4, <2>5, <2>6, <2>7
<1>2. \A q \in Processes : Process(q)'
  <2> SUFFICES ASSUME NEW q \in Processes, q # p PROVE Process(q)'
    BY <1>1
  <2> QED BY <1>1, Spared
<1>3. UNCHANGED <<config, up, outages>> /\ script \in {"running", "embedded"}
  <2>1. UNCHANGED <<config, up, outages>>
    BY DEF CallInit, CleanServer, Mount, Reject, Listen, CheckReady, AskNext
  <2>2. script \notin {"running", "embedded"} => FALSE
    <3> SUFFICES ASSUME script \notin {"running", "embedded"} PROVE FALSE
      OBVIOUS
    <3>1. Idle(p)
      BY DEF Script, Quiet
    <3> QED BY <3>1, IdleRests
  <2> QED BY <2>1, <2>2
<1>4. Outages' /\ UNCHANGED <<script, services, given, added>>
  BY <1>3 DEF Outages, deployment
<1>5. Quiet'
  BY <1>3, <1>4 DEF Quiet
<1> QED BY <1>1, <1>2, <1>3, <1>4, <1>5, ScriptKept

(***************************************************************************)
(* The theorems.                                                           *)
(***************************************************************************)

\* Before the script, and before the embedding program calls init.
LEMMA InitDeploymentInv == Init => DeploymentInv
<1> SUFFICES ASSUME Init PROVE DeploymentInv
  OBVIOUS
<1>1. PICK configs, down : ServerInit(configs, down) /\
        \/ configs = Nothing /\ script = "services"
        \/ \E c \in EmbeddedConfigs : configs = [Nothing EXCEPT ![Program] = c] /\ script = "embedded"
  BY DEF Init
<1>2. services = <<>> /\ given = {} /\ added = {} /\ config = configs
  BY <1>1 DEF Init, ServerInit
<1>3. Program \in Processes
  BY DeploymentConstants
<1>4. \A p \in Processes :
          \/ config[p] = NoConfig
          \/ p = Program /\ script = "embedded" /\ config[p] \in EmbeddedConfigs
  BY <1>1, <1>2 DEF Nothing
<1>5. DOMAIN config = Processes
  BY <1>1, <1>2 DEF Nothing
<1>6. ASSUME NEW p \in Processes PROVE Configured(p) /\ IsSequence(config[p].plugins)
  <2>1. CASE config[p] = NoConfig
    BY <2>1, NoConfigIsRight DEF Configured
  <2>2. CASE config[p] \in EmbeddedConfigs
    <3>1. PICK c \in EmbeddedConfigs : c = config[p]
      BY <2>2
    <3>2. /\ c.graphlettes \in Seq(ToSet(c.graphlettes)) /\ c.restlettes \in Seq(ToSet(c.restlettes))
          /\ c.plugins \in Seq(STRING)
          /\ \A e \in ToSet(c.graphlettes) : e.kind = "graph" /\ e.path \in Seq(STRING)
      BY DeploymentConstants
    <3>3. IsSequence(c.plugins)
      BY <3>2, Sequence
    <3>4. \A i \in 1 .. Len(c.graphlettes) : c.graphlettes[i] \in ToSet(c.graphlettes)
      BY <3>2
    <3> QED BY <3>1, <3>2, <3>3, <3>4 DEF Configured, IsSequence
  <2> QED BY <1>4, <2>1, <2>2
<1>7. ASSUME NEW p \in Processes PROVE Idle(p) /\ Process(p)
  <2>1. Idle(p)
    BY <1>1 DEF ServerInit, Idle
  <2> QED BY <1>6, <2>1, IdleIsRight
<1>8. Functions /\ Outages
  BY <1>1, <1>5, ServerConstants DEF ServerInit, Functions, Outages
<1>9. Objects /\ Targets
  <2>1. services \in Seq(Service) /\ Len(services) = 0 /\ Len(Declarations) \in Nat
    BY <1>2, DeploymentConstants
  <2> QED BY <1>1, <1>2, <2>1 DEF Objects, Targets, Declared
<1>10. Valid /\ Generated /\ Quiet /\ Embedded
  BY <1>1, <1>3, <1>6, <1>7 DEF Valid, Generated, Quiet, Embedded
<1> QED BY <1>7, <1>8, <1>9, <1>10 DEF DeploymentInv, Servers, Script

\* Every step keeps the invariant.
LEMMA NextDeploymentInv == DeploymentInv /\ [Next]_vars => DeploymentInv'
<1> SUFFICES ASSUME DeploymentInv, [Next]_vars PROVE DeploymentInv'
  OBVIOUS
<1>1. ASSUME UNCHANGED server, Script' PROVE DeploymentInv'
  <2>1. ASSUME NEW p \in Processes PROVE Process(p)'
    BY <1>1, Spared DEF Spares, server, DeploymentInv, Servers
  <2>2. Functions' /\ Outages'
    BY <1>1 DEF Functions, Outages, server, DeploymentInv, Servers
  <2> QED BY <1>1, <2>1, <2>2 DEF DeploymentInv, Servers
<1>2. ASSUME NEW name \in Names, NEW port \in Ports, NewService(name, port) PROVE DeploymentInv'
  <2>1. UNCHANGED server
    BY <1>2 DEF NewService
  <2> QED BY <1>1, <1>2, <2>1, NewServiceKeeps DEF DeploymentInv
<1>3. ASSUME NEW i \in Declared, NEW e \in Endpoints, NEW d \in Databases,
             NEW targets \in {{}} \cup {{t} : t \in Declared \ {i}}, AddEndpoint(i, e, d, targets)
      PROVE  DeploymentInv'
  <2>1. UNCHANGED server /\ targets \in SUBSET Declared
    BY <1>3 DEF AddEndpoint
  <2> QED BY <1>1, <1>3, <2>1, AddEndpointKeeps DEF DeploymentInv
<1>4. ASSUME NEW i \in Declared, WithEnv(i) PROVE DeploymentInv'
  <2>1. UNCHANGED server
    BY <1>4 DEF WithEnv
  <2> QED BY <1>1, <1>4, <2>1, WithEnvKeeps DEF DeploymentInv
<1>5. ASSUME \/ \E objects \in SUBSET Declared : NewDeployment(objects)
             \/ \E d \in Addable : WithDatabase(d)
             \/ Refuse
      PROVE  DeploymentInv'
  <2>1. UNCHANGED server
    BY <1>5 DEF NewDeployment, WithDatabase, Refuse
  <2> QED BY <1>1, <1>5, <2>1, PlanKeeps DEF DeploymentInv
<1>6. CASE Generate
  BY <1>6, GenerateKeeps
<1>7. CASE Up
  BY <1>7, UpKeeps
<1>8. CASE MongoStarts \/ Fails
  <2>1. UNCHANGED deployment
    BY <1>8 DEF MongoStarts, Fails
  <2>2. \E d \in DatabaseServers : GoDown(d) \/ ComeBack(d)
    BY <1>8, DeploymentConstants DEF MongoStarts, Fails
  <2> QED BY <2>1, <2>2, OutageKeeps
<1>9. ASSUME NEW p \in Processes, Starts(p) \/ Runs(p) \/ Asked(p) PROVE DeploymentInv'
  <2>1. CASE Starts(p)
    BY <2>1, ProcessKeeps DEF Starts
  <2>2. CASE Runs(p)
    <3>1. UNCHANGED deployment /\ (script = "running") \in BOOLEAN
      BY <2>2 DEF Runs
    <3>2. \/ Mount(p) \/ (\E exits \in BOOLEAN : Reject(p, exits)) \/ Listen(p)
          \/ AskNext(p)
      BY <2>2, <3>1 DEF Runs
    <3> QED BY <3>1, <3>2, ProcessKeeps
  <2>3. CASE Asked(p)
    BY <2>3, ProcessKeeps DEF Asked
  <2> QED BY <1>9, <2>1, <2>2, <2>3
<1>10. CASE Embeds
  <2>1. Program \in Processes
    BY DeploymentConstants
  <2> QED BY <1>10, <2>1, ProcessKeeps DEF Embeds
<1>11. CASE UNCHANGED vars
  <2>1. UNCHANGED <<deployment, server>>
    BY <1>11 DEF vars
  <2>2. Quiet'
    BY <2>1 DEF Script, Quiet, Idle, deployment, server, DeploymentInv
  <2>3. Script'
    BY <2>1, <2>2, ScriptKept DEF deployment, server, DeploymentInv
  <2> QED BY <1>1, <2>1, <2>3
<1> QED BY <1>2, <1>3, <1>4, <1>5, <1>6, <1>7, <1>8, <1>9, <1>10, <1>11 DEF Next

\* The invariant holds of every deployment and every embedding program.
THEOREM Invariance == Spec => []DeploymentInv
<1>1. DeploymentInv /\ [Next]_vars => DeploymentInv'
  BY NextDeploymentInv
<1> QED BY <1>1, InitDeploymentInv, PTL DEF Spec

\* A sequence that agrees with the beginning of another is a prefix of it.
LEMMA Prefix ==
    ASSUME NEW s, NEW t, IsSequence(s), IsSequence(t), Len(s) <= Len(t),
           \A i \in 1 .. Len(s) : s[i] = t[i]
    PROVE  IsPrefix(s, t) /\ (Len(s) = Len(t) => s = t)
<1>1. /\ Len(s) \in Nat /\ Len(t) \in Nat
      /\ s = [i \in 1 .. Len(s) |-> s[i]] /\ t = [i \in 1 .. Len(t) |-> t[i]]
  BY DEF IsSequence
<1>2. Len(s) = Len(t) => s = t
  <2> SUFFICES ASSUME Len(s) = Len(t) PROVE [i \in 1 .. Len(s) |-> s[i]] = [i \in 1 .. Len(s) |-> t[i]]
    BY <1>1
  <2> QED OBVIOUS
<1>3. /\ SubSeq(s, 1, Len(s)) = [i \in 1 .. Len(s) |-> s[i]]
      /\ SubSeq(t, 1, Len(s)) = [i \in 1 .. Len(s) |-> t[i]]
  BY <1>1 DEF IsSequence
<1>4. [i \in 1 .. Len(s) |-> s[i]] = [i \in 1 .. Len(s) |-> t[i]]
  OBVIOUS
<1> QED BY <1>2, <1>3, <1>4 DEF IsPrefix

\* Type correctness: the endpoints are set up in their order, a server that
\* listens has set up all of them, and the script declares what it may.
THEOREM TypeCorrect == Spec => []TypeOK
<1>1. DeploymentInv => TypeOK
  <2> SUFFICES ASSUME DeploymentInv PROVE TypeOK
    OBVIOUS
  <2>1. ASSUME NEW p \in Processes
        PROVE  /\ IsPrefix(mounted[p], Order(p))
               /\ phase[p] = "up" => mounted[p] = Order(p)
    <3>1. Process(p)
      BY DEF DeploymentInv, Servers
    <3>2. IsSequence(Order(p))
      <4>1. IsSequence(config[p].graphlettes) /\ IsSequence(config[p].restlettes)
        BY <3>1 DEF Process, Configured
      <4> QED BY <4>1, Joined, Sequence DEF Order
    <3>3. /\ IsSequence(mounted[p]) /\ Len(mounted[p]) <= Len(Order(p))
          /\ \A i \in 1 .. Len(mounted[p]) : mounted[p][i] = Order(p)[i]
          /\ phase[p] = "up" => Len(mounted[p]) = Len(Order(p))
      BY <3>1 DEF Process, Mounts
    <3> QED BY <3>2, <3>3, Prefix
  <2>2. ServerTypeOK
    BY <2>1 DEF DeploymentInv, Servers, Functions, Outages, Process, Probes, Counts, Handles,
                ServerTypeOK, Order
  <2>3. ASSUME NEW i \in Declared
        PROVE  services[i].name \in Names /\ services[i].port \in Ports /\ services[i].listens \in Ports
    <3>1. services[i] \in Service
      BY DEF DeploymentInv, Script, Objects, Declared
    <3> QED BY <3>1 DEF Service
  <2> QED BY <2>2, <2>3 DEF DeploymentInv, Script, Objects, TypeOK
<1> QED BY <1>1, Invariance, PTL

\* Whatever endpoints share cached clients and pools, each works on the database
\* its storage names, also after inits that failed and after cleanServer.
LEMMA TheirDatabase ==
    ASSUME DeploymentInv, NEW p \in Processes, phase[p] # "dead",
           NEW i \in 1 .. Len(mounted[p])
    PROVE  Reached(p, mounted[p][i].storage) = Database(mounted[p][i].storage)
<1> DEFINE s == mounted[p][i].storage
<1>1. Process(p)
  BY DEF DeploymentInv, Servers
<1>2. CASE Pooled(s)
  <2>1. Key(s) \in DOMAIN cache[p]
    BY <1>1, <1>2 DEF Process, Mounts, Cached
  <2>2. Key(s).type = s.type /\ Key(s).server = s.server /\ Key(s).db = s.db
    BY <1>2 DEF Key, Pooled
  <2>3. Key(s).type \in {"mysql", "postgres"}
    BY <1>2, <2>2 DEF Pooled
  <2>4. Database(cache[p][Key(s)]) = <<Key(s).server, Key(s).db>>
    BY <1>1, <2>1, <2>3 DEF Process, Caches
  <2> QED BY <1>2, <2>2, <2>4 DEF Reached, Database
<1>3. CASE ~Pooled(s)
  BY <1>3 DEF Reached
<1> QED BY <1>2, <1>3

THEOREM OnTheirDatabase == Spec => []EndpointsOnTheirDatabase
<1>1. DeploymentInv => EndpointsOnTheirDatabase
  BY TheirDatabase DEF EndpointsOnTheirDatabase
<1> QED BY <1>1, Invariance, PTL

\* The first cleanServer closes all clients and pools, also those of an init that
\* failed halfway: no plugin throws, and every key is of a plugin it cleans.  It
\* leaves SQLite's handles open, one for each endpoint on a file the init came to.
THEOREM OnlyFilesOpen == Spec => []CleanedLeavesOnlyFilesOpen
<1>1. DeploymentInv => CleanedLeavesOnlyFilesOpen
  <2> SUFFICES ASSUME DeploymentInv, NEW p \in Processes, phase[p] = "clean", cleans[p] = 1
               PROVE  /\ \A k \in DOMAIN cache[p] : ~cache[p][k].open
                      /\ \A i \in 1 .. Len(Order(p)) :
                            <<inits[p], i>> \in handles[p]
                               <=> i \in Attempted(p) /\ OpensFile(p, Order(p)[i])
    BY DEF CleanedLeavesOnlyFilesOpen
  <2>1. Process(p)
    BY DEF DeploymentInv, Servers
  <2>2. ASSUME NEW k \in DOMAIN cache[p] PROVE ~cache[p][k].open
    <3>1. PICK b \in BOOLEAN : \E s, d : cache[p][k] = [open |-> b, server |-> s, db |-> d] /\ ~b
      BY <2>1 DEF Process, Caches
    <3>2. cache[p][k].open = b
      BY <3>1
    <3> QED BY <3>1, <3>2
  <2>3. \A i \in 1 .. Len(Order(p)) :
            <<inits[p], i>> \in handles[p] <=> i \in Attempted(p) /\ OpensFile(p, Order(p)[i])
    BY <2>1 DEF Process, Handles
  <2> QED BY <2>2, <2>3
<1> QED BY <1>1, Invariance, PTL

\* A server that answers ready has heard from the database of every graphlette,
\* as long as no two of them have one path.
THEOREM ReadyMeans == Spec => []ReadyMeansEachAnswered
<1>1. DeploymentInv => ReadyMeansEachAnswered
  <2> SUFFICES ASSUME DeploymentInv, NEW p \in Processes, Checked(p), probe[p].status = "ok",
                      DistinctPaths(config[p].graphlettes),
                      NEW i \in 1 .. Len(config[p].graphlettes)
               PROVE  Database(config[p].graphlettes[i].storage) \in probe[p].heard
    BY DEF ReadyMeansEachAnswered
  <2> QED BY DEF DeploymentInv, Servers, Process, Probes, Checked
<1> QED BY <1>1, Invariance, PTL

\* The urls of an accepted deployment reach a service that listens there.
THEOREM ResolversReach == Spec => []ResolversReachAService
<1>1. DeploymentInv => ResolversReachAService
  <2> SUFFICES ASSUME DeploymentInv, script \in {"generated", "running"},
                      \A i \in Declared : services[i].listens = services[i].port,
                      \A i, j \in Declared : services[i].name = services[j].name => i = j,
                      NEW i \in given, NEW url \in Resolvers(i)
               PROVE  \E j \in given :
                          services[j].name = url.host /\ services[j].listens = url.port
    BY DEF ResolversReachAService
  <2>1. given \subseteq Declared /\ Len(services) \in Nat
    BY DEF DeploymentInv, Script, Objects
  <2>2. Deployed = given
    <3>1. \A k, j \in given : j > k => j # k
      BY <2>1 DEF Declared
    <3> QED BY <2>1, <3>1 DEF Deployed
  <2>3. PICK j \in given : services[j].name = url.host
    BY <2>2 DEF DeploymentInv, Script, Valid, Known, Containers
  <2>4. PICK t \in Declared : url = Url(t)
    BY <2>1 DEF DeploymentInv, Script, Targets, Resolvers
  <2>5. url.host = services[t].name /\ url.port = services[t].port
    BY <2>4 DEF Url
  <2>6. t = j
    BY <2>1, <2>3, <2>5
  <2> QED BY <2>3, <2>5, <2>6
<1> QED BY <1>1, Invariance, PTL

\* An endpoint that is set up is one of its server's configuration.
LEMMA OfItsServer ==
    ASSUME DeploymentInv, NEW p \in Processes, NEW i \in 1 .. Len(mounted[p])
    PROVE  mounted[p][i] \in ToSet(Order(p))
<1>1. Process(p)
  BY DEF DeploymentInv, Servers
<1>2. /\ Len(mounted[p]) \in Nat /\ Len(mounted[p]) <= Len(Order(p)) /\ Len(Order(p)) \in Nat
      /\ mounted[p][i] = Order(p)[i]
  BY <1>1, Elements, Ordered DEF Process, Mounts
<1>3. DOMAIN Order(p) = 1 .. Len(Order(p))
  <2>1. IsSequence(config[p].graphlettes) /\ IsSequence(config[p].restlettes)
    BY <1>1 DEF Process, Configured
  <2> QED BY <2>1, Joined DEF Order
<1> QED BY <1>2, <1>3 DEF ToSet

\* Mongo endpoints of a running deployment share their documents exactly if their
\* services have one PREFIX and their collections one name.
THEOREM Shared == Spec => []MongoSharedByPrefixAndName
<1>1. DeploymentInv => MongoSharedByPrefixAndName
  <2> SUFFICES ASSUME DeploymentInv, script = "running", HasMongo,
                      NEW p \in Containers, NEW q \in Containers,
                      NEW i \in 1 .. Len(mounted[p]), NEW j \in 1 .. Len(mounted[q]),
                      phase[p] # "dead", phase[q] # "dead",
                      OnMongo(mounted[p][i]), OnMongo(mounted[q][j])
               PROVE  Share(p, mounted[p][i], q, mounted[q][j]) <=>
                        /\ services[ServiceOf(p)].prefix = services[ServiceOf(q)].prefix
                        /\ mounted[p][i].source.collection = mounted[q][j].source.collection
    BY DEF MongoSharedByPrefixAndName
  <2> DEFINE e == mounted[p][i]
             f == mounted[q][j]
  <2>1. p \in Processes /\ q \in Processes
    BY Named DEF DeploymentInv, Script
  <2>2. Prefixed(ServiceOf(p), e) /\ Prefixed(ServiceOf(q), f)
    BY <2>1, OfItsServer DEF DeploymentInv, Script, Generated
  <2>3. /\ Database(e.storage) = <<"mongodb", services[ServiceOf(p)].prefix>>
        /\ Database(f.storage) = <<"mongodb", services[ServiceOf(q)].prefix>>
        /\ e.storage.collection = e.source.collection
        /\ f.storage.collection = f.source.collection
    BY <2>2 DEF Prefixed, Database
  <2>4. Reached(p, e.storage) = Database(e.storage) /\ Reached(q, f.storage) = Database(f.storage)
    BY <2>1, TheirDatabase
  <2> HIDE DEF e, f
  <2>5. Share(p, e, q, f) <=>
          /\ services[ServiceOf(p)].prefix = services[ServiceOf(q)].prefix
          /\ e.source.collection = f.source.collection
    BY <2>3, <2>4 DEF Share
  <2> QED BY <2>5 DEF e, f
<1> QED BY <1>1, Invariance, PTL

=============================================================================
