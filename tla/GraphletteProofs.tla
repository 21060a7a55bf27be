--------------------------- MODULE GraphletteProofs ---------------------------
(***************************************************************************)
(* Proofs about Graphlette, for any operation and any size of a batch: the *)
(* types, that an id is asked for once, and that the data loader changes   *)
(* no answer where the top level fields have one time and one selection.   *)
(***************************************************************************)
EXTENDS Graphlette, SequenceTheorems, TLAPS

Loader == [at : Nat \cap Times, sel : {Selection[r] : r \in Roots}]

Batch ==
    [loader : {1}, keys : Seq(Keys),
     state : {"open", "sent", "answered", "failed", "rejected"},
     data : Seq(Document \cup {Empty})]

\* What of the types concerns the resolvers.
FieldInv ==
    /\ now \in 0 .. MaxTime
    /\ pc \in [Roots -> {"start", "find", "resolve", "done"}]
    /\ at \in [Roots -> Nat \cap Times]
    /\ key \in [Fields -> Keys \cup {NoKey, Absent}]
    /\ promise \in [Fields -> {<<>>} \cup (Nat \X Nat)]
    /\ value \in [Fields -> {Pending, Empty, Failed} \cup Document]

\* The operation has at most one loader for the field, the one of its map.
LoaderInv ==
    /\ loaders \in Seq(Loader)
    /\ current \in {0, 1} /\ current = Len(loaders)

\* A batch is never empty nor too large, and what answers it are the items its
\* ids name, or nothing.
BatchInv ==
    /\ batches \in Seq(Batch)
    /\ \A b \in 1 .. Len(batches) :
          /\ current = 1
          /\ Len(batches[b].keys) \in 1 .. MaxBatch
          /\ batches[b].state = "answered" =>
                /\ Len(batches[b].data) = Len(batches[b].keys)
                /\ \A n \in 1 .. Len(batches[b].keys) : batches[b].data[n] \in {Item(b, n), Empty}

\* Place p of the batches holds id k.
Holds(p, k) ==
    /\ p \in Nat \X Nat
    /\ p[1] \in 1 .. Len(batches)
    /\ p[2] \in 1 .. Len(batches[p[1]].keys)
    /\ batches[p[1]].keys[p[2]] = k

\* A resolver that ran waits for the place of its object's id.
PromiseInv ==
    \A f \in Fields :
        IF promise[f] = <<>> THEN value[f] = Pending
        ELSE /\ pc[Root[f]] \in {"resolve", "done"}
             /\ current = 1
             /\ \/ key[f] = NoKey /\ value[f] = Failed
                \/ key[f] \in Keys /\ Holds(promise[f], key[f])

IInv == FieldInv /\ LoaderInv /\ BatchInv /\ PromiseInv /\ AskedOncePerOperation

\* What the invariant says of the types is TypeOK.
LEMMA InvTypes == IInv => TypeOK
<1> SUFFICES ASSUME IInv PROVE TypeOK
  OBVIOUS
<1>1. /\ now \in Nat
      /\ pc \in [Roots -> {"start", "find", "resolve", "done"}]
      /\ at \in [Roots -> Nat]
      /\ key \in [Fields -> Keys \cup {NoKey, Absent}]
  BY GraphletteConstants DEF IInv, FieldInv
<1>2. \A l \in DOMAIN loaders : loaders[l].at \in Nat
  <2> SUFFICES ASSUME NEW l \in DOMAIN loaders PROVE loaders[l].at \in Nat
    OBVIOUS
  <2>1. loaders \in Seq(Loader)
    BY DEF IInv, LoaderInv
  <2>2. loaders[l] \in Loader
    BY <2>1
  <2> QED BY <2>2 DEF Loader
<1>3. current \in 0 .. Len(loaders)
  BY DEF IInv, LoaderInv
<1>4. ASSUME NEW b \in DOMAIN batches
      PROVE  /\ batches[b].loader \in DOMAIN loaders
             /\ Len(batches[b].keys) \in 1 .. MaxBatch
             /\ batches[b].state \in {"open", "sent", "answered", "failed", "rejected"}
  <2>1. b \in 1 .. Len(batches) /\ batches[b] \in Batch
    BY <1>4 DEF IInv, BatchInv
  <2>2. DOMAIN loaders = 1 .. 1
    BY <2>1 DEF IInv, BatchInv, LoaderInv
  <2> QED BY <2>1, <2>2 DEF IInv, BatchInv, Batch
<1>5. \A f \in Fields : promise[f] # <<>> => promise[f] \in Nat \X Nat
  BY DEF IInv, FieldInv
<1>6. \A f \in Fields : value[f] \in {Pending, Empty, Failed} \/ value[f] \in Document
  BY DEF IInv, FieldInv
<1> QED BY <1>1, <1>2, <1>3, <1>4, <1>5, <1>6 DEF TypeOK

\* It holds at the start.
LEMMA InvInit == Init => IInv
<1> SUFFICES ASSUME Init PROVE IInv
  OBVIOUS
<1> USE DEF Init
<1>1. FieldInv
  <2>1. 0 \in 0 .. MaxTime /\ 0 \in Nat \cap Times
    BY GraphletteConstants DEF Times
  <2> QED BY <2>1 DEF FieldInv
<1>2. LoaderInv
  BY DEF LoaderInv
<1>3. BatchInv /\ AskedOncePerOperation
  BY DEF BatchInv, AskedOncePerOperation
<1>4. PromiseInv
  BY DEF PromiseInv
<1> QED BY <1>1, <1>2, <1>3, <1>4 DEF IInv

(***************************************************************************)
(* The data loader.                                                        *)
(***************************************************************************)

\* What batch b becomes when ids are added: only an open batch grows, at its end.
Grows(b, c) ==
    /\ c \in Batch
    /\ c.state = b.state /\ c.data = b.data
    /\ b.state # "open" => c = b
    /\ Len(b.keys) <= Len(c.keys)
    /\ \A n \in 1 .. Len(b.keys) : c.keys[n] = b.keys[n]

\* The batches after an id is loaded hold it where the promise says, and what
\* they held before where it was; no id is in two of them.
LoadedRight(k, p, bs) ==
    /\ bs \in Seq(Batch)
    /\ Len(batches) <= Len(bs)
    /\ \A b \in 1 .. Len(batches) : Grows(batches[b], bs[b])
    /\ \A b \in 1 .. Len(bs) :
          /\ Len(bs[b].keys) \in 1 .. MaxBatch
          /\ b > Len(batches) => bs[b].state = "open"
    /\ p \in Nat \X Nat
    /\ p[1] \in 1 .. Len(bs) /\ p[2] \in 1 .. Len(bs[p[1]].keys)
    /\ bs[p[1]].keys[p[2]] = k
    /\ \A b, c \in 1 .. Len(bs) :
          b < c /\ bs[b].state # "rejected" =>
            \A m \in 1 .. Len(bs[b].keys), n \in 1 .. Len(bs[c].keys) :
                bs[b].keys[m] # bs[c].keys[n]

\* No id is in two batches, over the positions of sequences.
LEMMA OncePlaces ==
    ASSUME batches \in Seq(Batch)
    PROVE  AskedOncePerOperation <=>
             \A b, c \in 1 .. Len(batches) :
                b < c /\ batches[b].state # "rejected" =>
                  \A m \in 1 .. Len(batches[b].keys), n \in 1 .. Len(batches[c].keys) :
                      batches[b].keys[m] # batches[c].keys[n]
<1>1. DOMAIN batches = 1 .. Len(batches)
  OBVIOUS
<1>2. ASSUME NEW b \in 1 .. Len(batches) PROVE DOMAIN batches[b].keys = 1 .. Len(batches[b].keys)
  BY <1>2 DEF Batch
<1> QED BY <1>1, <1>2 DEF AskedOncePerOperation

\* dataLoader.load keeps the batches right.
LEMMA LoadRight ==
    ASSUME BatchInv, AskedOncePerOperation, NEW k \in Keys
    PROVE  LoadedRight(k, Loaded(1, k)[1], Loaded(1, k)[2])
<1> USE GraphletteConstants
<1>1. /\ batches \in Seq(Batch)
      /\ Len(batches) \in Nat
      /\ \A b \in 1 .. Len(batches) :
            /\ batches[b] \in Batch
            /\ batches[b].keys \in Seq(Keys)
            /\ batches[b].loader = 1
            /\ Len(batches[b].keys) \in 1 .. MaxBatch
  <2>1. batches \in Seq(Batch) /\ Len(batches) \in Nat
    BY DEF BatchInv
  <2> SUFFICES ASSUME NEW b \in 1 .. Len(batches)
               PROVE  /\ batches[b] \in Batch
                      /\ batches[b].keys \in Seq(Keys)
                      /\ batches[b].loader = 1
                      /\ Len(batches[b].keys) \in 1 .. MaxBatch
    BY <2>1
  <2>2. batches[b] \in Batch
    BY <2>1
  <2>3. batches[b].keys \in Seq(Keys) /\ batches[b].loader = 1
    BY <2>2 DEF Batch
  <2> QED BY <2>2, <2>3 DEF BatchInv
<1>2. \A b, c \in 1 .. Len(batches) :
        b < c /\ batches[b].state # "rejected" =>
          \A m \in 1 .. Len(batches[b].keys), n \in 1 .. Len(batches[c].keys) :
              batches[b].keys[m] # batches[c].keys[n]
  BY <1>1, OncePlaces
<1>3. \A b \in 1 .. Len(batches) : Grows(batches[b], batches[b])
  BY <1>1 DEF Grows
<1>4. CASE Cached(1, k) # {}
  <2>1. PICK p \in Cached(1, k) : Loaded(1, k) = <<p, batches>>
    BY <1>4 DEF Loaded
  <2>2. p \in Nat \X Nat /\ p[1] \in 1 .. Len(batches) /\ p[2] \in 1 .. MaxBatch
    BY <1>1 DEF Cached
  <2>3. p[2] \in 1 .. Len(batches[p[1]].keys) /\ batches[p[1]].keys[p[2]] = k
    BY <1>1, <2>2 DEF Cached
  <2> QED BY <1>1, <1>2, <1>3, <2>1, <2>2, <2>3 DEF LoadedRight
<1>5. ASSUME Cached(1, k) = {}, NEW b \in 1 .. Len(batches), batches[b].state # "rejected",
             NEW m \in 1 .. Len(batches[b].keys)
      PROVE  batches[b].keys[m] # k
  <2>1. <<b, m>> \in (1 .. Len(batches)) \X (1 .. MaxBatch)
    BY <1>1
  <2> QED BY <1>1, <1>5, <2>1 DEF Cached
<1>6. CASE Cached(1, k) = {} /\ Open(1) # {}
  <2>1. PICK b \in Open(1) :
            Loaded(1, k) = <<<<b, Len(batches[b].keys) + 1>>,
                             [batches EXCEPT ![b].keys = Append(@, k)]>>
    BY <1>6 DEF Loaded
  <2>2. /\ b \in 1 .. Len(batches) /\ batches[b].state = "open"
        /\ Len(batches[b].keys) < MaxBatch
        /\ \A c \in 1 .. Len(batches) : c <= b
    BY <1>1 DEF Open, Collecting
  <2> DEFINE bs == [batches EXCEPT ![b].keys = Append(@, k)]
             p == <<b, Len(batches[b].keys) + 1>>
             ks == Append(batches[b].keys, k)
  <2>3. /\ ks \in Seq(Keys) /\ Len(ks) = Len(batches[b].keys) + 1
        /\ \A n \in 1 .. Len(batches[b].keys) : ks[n] = batches[b].keys[n]
        /\ ks[Len(batches[b].keys) + 1] = k
    BY <1>1, <2>2
  <2> HIDE DEF ks
  <2>4. /\ bs \in Seq(Batch) /\ Len(bs) = Len(batches)
        /\ bs[b] = [batches[b] EXCEPT !.keys = ks]
        /\ \A c \in 1 .. Len(batches) : c # b => bs[c] = batches[c]
    <3>1. [batches[b] EXCEPT !.keys = ks] \in Batch
      BY <1>1, <2>2, <2>3 DEF Batch
    <3>2. bs = [batches EXCEPT ![b] = [batches[b] EXCEPT !.keys = ks]]
      BY DEF ks
    <3> DEFINE nb == [batches[b] EXCEPT !.keys = ks]
    <3> HIDE DEF nb, bs
    <3>3. bs = [batches EXCEPT ![b] = nb] /\ nb \in Batch
      BY <3>1, <3>2 DEF nb
    <3>4. /\ [batches EXCEPT ![b] = nb] \in Seq(Batch)
          /\ Len([batches EXCEPT ![b] = nb]) = Len(batches)
          /\ \A j \in 1 .. Len(batches) :
                [batches EXCEPT ![b] = nb][j] = IF j = b THEN nb ELSE batches[j]
      BY <1>1, <2>2, <3>3, ExceptSeq
    <3>5. bs[b] = nb
      BY <2>2, <3>3, <3>4
    <3> QED BY <3>3, <3>4, <3>5 DEF nb
  <2>5. /\ bs[b].keys = ks /\ bs[b].state = "open" /\ bs[b].data = batches[b].data
        /\ bs[b] \in Batch
    BY <1>1, <2>2, <2>4 DEF Batch
  <2> HIDE DEF bs
  <2>6. \A c \in 1 .. Len(batches) : Grows(batches[c], bs[c])
    <3>1. Len(batches[b].keys) <= Len(ks)
      BY <1>1, <2>2, <2>3
    <3>2. Grows(batches[b], bs[b])
      BY <2>2, <2>3, <2>5, <3>1 DEF Grows
    <3> QED BY <1>3, <2>4, <3>2
  <2>7. \A c \in 1 .. Len(bs) : Len(bs[c].keys) \in 1 .. MaxBatch
    <3>1. Len(batches[b].keys) \in Nat /\ Len(bs[b].keys) = Len(batches[b].keys) + 1
      BY <1>1, <2>2, <2>3, <2>5
    <3>2. Len(bs[b].keys) \in 1 .. MaxBatch
      BY <2>2, <3>1
    <3> QED BY <1>1, <2>4, <3>2
  <2>8. p \in Nat \X Nat /\ p[1] = b /\ p[2] = Len(ks) /\ p[2] \in 1 .. Len(ks)
    BY <1>1, <2>2, <2>3
  <2>9. ASSUME NEW c \in 1 .. Len(bs), NEW d \in 1 .. Len(bs), c < d,
               bs[c].state # "rejected",
               NEW m \in 1 .. Len(bs[c].keys), NEW n \in 1 .. Len(bs[d].keys)
        PROVE  bs[c].keys[m] # bs[d].keys[n]
    <3>1. c # b /\ bs[c] = batches[c] /\ c \in 1 .. Len(batches) /\ d \in 1 .. Len(batches)
      BY <2>2, <2>4, <2>9
    <3>2. CASE d # b
      BY <1>2, <2>4, <2>9, <3>1, <3>2
    <3>3. CASE d = b /\ n = Len(ks)
      BY <1>5, <1>6, <2>3, <2>5, <2>9, <3>1, <3>3
    <3>4. CASE d = b /\ n # Len(ks)
      <4>1. n \in 1 .. Len(batches[b].keys) /\ ks[n] = batches[b].keys[n]
        <5>1. n \in 1 .. (Len(batches[b].keys) + 1) /\ n # Len(batches[b].keys) + 1
          BY <2>3, <2>5, <2>9, <3>4
        <5>2. n \in 1 .. Len(batches[b].keys)
          BY <1>1, <2>2, <5>1
        <5> QED BY <2>3, <5>2
      <4> QED BY <1>2, <2>2, <2>5, <2>9, <3>1, <3>4, <4>1
    <3> QED BY <3>2, <3>3, <3>4
  <2>10. bs[p[1]].keys[p[2]] = k /\ p[2] \in 1 .. Len(bs[p[1]].keys) /\ p[1] \in 1 .. Len(bs)
    BY <2>2, <2>3, <2>4, <2>5, <2>8
  <2>11. Loaded(1, k)[1] = p /\ Loaded(1, k)[2] = bs
    <3>1. Loaded(1, k) = <<p, bs>>
      BY <2>1 DEF bs
    <3> QED BY <3>1
  <2> HIDE DEF p
  <2>12. /\ Len(batches) <= Len(bs)
         /\ \A c \in 1 .. Len(bs) : ~(c > Len(batches))
    BY <1>1, <2>4
  <2>13. LoadedRight(k, p, bs)
    BY <2>4, <2>6, <2>7, <2>8, <2>9, <2>10, <2>12 DEF LoadedRight
  <2> QED BY <2>11, <2>13
<1>7. CASE Cached(1, k) = {} /\ Open(1) = {}
  <2> DEFINE new == [loader |-> 1, keys |-> <<k>>, state |-> "open", data |-> <<>>]
             bs == Append(batches, new)
             p == <<Len(batches) + 1, 1>>
  <2>1. Loaded(1, k)[1] = p /\ Loaded(1, k)[2] = bs
    BY <1>7 DEF Loaded
  <2>2. new \in Batch /\ new.keys = <<k>> /\ Len(new.keys) = 1 /\ new.keys[1] = k
        /\ new.state = "open"
    <3>1. <<k>> \in Seq(Keys) /\ <<>> \in Seq(Document \cup {Empty})
      OBVIOUS
    <3> QED BY <3>1 DEF Batch
  <2> HIDE DEF new
  <2>3. /\ bs \in Seq(Batch) /\ Len(bs) = Len(batches) + 1
        /\ bs[Len(batches) + 1] = new
        /\ \A c \in 1 .. Len(batches) : bs[c] = batches[c]
    BY <1>1, <2>2
  <2> HIDE DEF bs
  <2>4. \A c \in 1 .. Len(batches) : Grows(batches[c], bs[c])
    BY <1>3, <2>3
  <2>5. \A c \in 1 .. Len(bs) :
            /\ Len(bs[c].keys) \in 1 .. MaxBatch
            /\ c > Len(batches) => bs[c].state = "open"
    <3> SUFFICES ASSUME NEW c \in 1 .. Len(bs)
                 PROVE  /\ Len(bs[c].keys) \in 1 .. MaxBatch
                        /\ c > Len(batches) => bs[c].state = "open"
      OBVIOUS
    <3>1. c \in 1 .. Len(batches) \/ c = Len(batches) + 1
      BY <1>1, <2>3
    <3>2. CASE c \in 1 .. Len(batches)
      <4>1. ~(c > Len(batches)) /\ Len(batches[c].keys) \in 1 .. MaxBatch /\ bs[c] = batches[c]
        BY <1>1, <2>3, <3>2
      <4> QED BY <4>1
    <3>3. CASE c = Len(batches) + 1
      <4>1. bs[c] = new /\ 1 \in 1 .. MaxBatch
        BY <2>3, <3>3
      <4> QED BY <2>2, <4>1
    <3> QED BY <3>1, <3>2, <3>3
  <2>6. p \in Nat \X Nat /\ p[1] = Len(batches) + 1 /\ p[2] = 1
    BY <1>1
  <2>7. ASSUME NEW c \in 1 .. Len(bs), NEW d \in 1 .. Len(bs), c < d,
               bs[c].state # "rejected",
               NEW m \in 1 .. Len(bs[c].keys), NEW n \in 1 .. Len(bs[d].keys)
        PROVE  bs[c].keys[m] # bs[d].keys[n]
    <3>1. c \in 1 .. Len(batches) /\ bs[c] = batches[c]
      BY <1>1, <2>3, <2>7
    <3>2. CASE d = Len(batches) + 1
      <4>1. bs[d].keys[n] = k
        BY <2>2, <2>3, <2>7, <3>2
      <4> QED BY <1>5, <1>7, <2>7, <3>1, <4>1
    <3>3. CASE d \in 1 .. Len(batches)
      BY <1>2, <2>3, <2>7, <3>1, <3>3
    <3> QED BY <1>1, <2>3, <3>2, <3>3
  <2> HIDE DEF p
  <2>8. bs[p[1]].keys[p[2]] = k /\ p[2] \in 1 .. Len(bs[p[1]].keys) /\ p[1] \in 1 .. Len(bs)
    <3>1. Len(batches) + 1 \in 1 .. Len(bs)
      BY <1>1, <2>3
    <3>2. bs[p[1]] = new /\ p[1] \in 1 .. Len(bs)
      BY <2>3, <2>6, <3>1
    <3>3. Len(new.keys) = 1 /\ new.keys[1] = k /\ p[2] = 1
      BY <2>2, <2>6
    <3> HIDE DEF bs, new, p
    <3>4. new.keys[p[2]] = k /\ p[2] \in 1 .. Len(new.keys)
      BY <3>3
    <3> QED BY <3>2, <3>4
  <2>9. Len(batches) <= Len(bs)
    BY <1>1, <2>3
  <2>10. LoadedRight(k, p, bs)
    BY <2>3, <2>4, <2>5, <2>6, <2>7, <2>8, <2>9 DEF LoadedRight
  <2> QED BY <2>1, <2>10
<1> QED BY <1>4, <1>6, <1>7

(***************************************************************************)
(* Every step keeps the invariant.                                         *)
(***************************************************************************)

\* Steps that change no batch keep what is said of the batches.
LEMMA BatchesKept ==
    ASSUME IInv, batches' = batches, loaders' = loaders, current' = current
    PROVE  LoaderInv' /\ BatchInv' /\ AskedOncePerOperation'
<1>1. LoaderInv' /\ AskedOncePerOperation'
  BY DEF IInv, LoaderInv, AskedOncePerOperation
<1>2. BatchInv'
  BY DEF IInv, BatchInv, Item
<1> QED BY <1>1, <1>2

\* Batches that only grow keep the promises.
LEMMA HoldsGrown ==
    ASSUME NEW p, NEW k, Holds(p, k), batches \in Seq(Batch),
           Len(batches') \in Nat, Len(batches) <= Len(batches'),
           \A b \in 1 .. Len(batches) :
              /\ Len(batches'[b].keys) \in Nat
              /\ Len(batches[b].keys) <= Len(batches'[b].keys)
              /\ \A n \in 1 .. Len(batches[b].keys) : batches'[b].keys[n] = batches[b].keys[n]
    PROVE  Holds(p, k)'
<1>1. p \in Nat \X Nat /\ p[1] \in 1 .. Len(batches)
      /\ p[2] \in 1 .. Len(batches[p[1]].keys) /\ batches[p[1]].keys[p[2]] = k
  BY DEF Holds
<1>2. Len(batches) \in Nat /\ p[1] \in 1 .. Len(batches')
  BY <1>1
<1>3. batches[p[1]].keys \in Seq(Keys)
  <2>1. batches[p[1]] \in Batch
    BY <1>1
  <2> QED BY <2>1 DEF Batch
<1>4. Len(batches[p[1]].keys) \in Nat
  BY <1>3
<1>5. p[2] \in 1 .. Len(batches'[p[1]].keys) /\ batches'[p[1]].keys[p[2]] = k
  BY <1>1, <1>4
<1> QED BY <1>1, <1>2, <1>5 DEF Holds

\* The resolver of r draws its timestamp.
LEMMA SearchKeeps == ASSUME IInv, NEW r \in Roots, Search(r) PROVE IInv'
<1> USE DEF Search
<1>1. FieldInv'
  <2>1. Timestamp(r) \in Nat \cap Times
    <3>1. now \in Nat /\ now \in Times
      BY GraphletteConstants DEF IInv, FieldInv, Times
    <3>2. Asked[r] \in Nat \cup {NoAt} /\ Asked[r] \in Times
      BY GraphletteConstants DEF Times
    <3> QED BY <3>1, <3>2 DEF Timestamp
  <2> QED BY <2>1 DEF IInv, FieldInv
<1>2. LoaderInv' /\ BatchInv' /\ AskedOncePerOperation'
  BY BatchesKept
<1>3. PromiseInv'
  <2> SUFFICES ASSUME NEW f \in Fields
               PROVE  IF promise[f] = <<>> THEN value[f] = Pending
                      ELSE /\ pc'[Root[f]] \in {"resolve", "done"}
                           /\ current = 1
                           /\ \/ key[f] = NoKey /\ value[f] = Failed
                              \/ key[f] \in Keys /\ Holds(promise[f], key[f])
    <3>1. UNCHANGED <<key, current, batches, promise, value>>
      OBVIOUS
    <3> HIDE DEF Search
    <3> QED BY <3>1 DEF PromiseInv, Holds
  <2>1. /\ promise[f] = <<>> => value[f] = Pending
        /\ promise[f] # <<>> =>
              /\ pc[Root[f]] \in {"resolve", "done"} /\ Root[f] \in Roots
              /\ current = 1
              /\ \/ key[f] = NoKey /\ value[f] = Failed
                 \/ key[f] \in Keys /\ Holds(promise[f], key[f])
    BY GraphletteConstants DEF IInv, PromiseInv
  <2> QED BY <2>1 DEF IInv, FieldInv
<1> QED BY <1>1, <1>2, <1>3 DEF IInv

\* The search of r is back.
LEMMA FillKeeps == ASSUME IInv, NEW r \in Roots, Fill(r) PROVE IInv'
<1> PICK F \in SUBSET FieldsOf(r) : \E k \in [F -> Keys \cup {NoKey}] :
            /\ key' = [f \in Fields |-> IF f \in F THEN k[f] ELSE key[f]]
            /\ pc' = [pc EXCEPT ![r] = IF F = {} THEN "done" ELSE "resolve"]
  BY DEF Fill
<1> PICK k \in [F -> Keys \cup {NoKey}] :
            /\ key' = [f \in Fields |-> IF f \in F THEN k[f] ELSE key[f]]
            /\ pc' = [pc EXCEPT ![r] = IF F = {} THEN "done" ELSE "resolve"]
  OBVIOUS
<1> USE DEF Fill
<1>1. FieldInv'
  BY DEF IInv, FieldInv
<1>2. LoaderInv' /\ BatchInv' /\ AskedOncePerOperation'
  BY BatchesKept
<1>3. PromiseInv'
  <2> SUFFICES ASSUME NEW f \in Fields, promise[f] # <<>>
               PROVE  pc'[Root[f]] \in {"resolve", "done"} /\ key'[f] = key[f]
    BY DEF IInv, PromiseInv, Holds
  <2>1. pc[Root[f]] \in {"resolve", "done"} /\ Root[f] \in Roots
    BY GraphletteConstants DEF IInv, PromiseInv
  <2>2. Root[f] # r /\ f \notin F
    BY <2>1 DEF FieldsOf
  <2> QED BY <2>1, <2>2 DEF IInv, FieldInv
<1> QED BY <1>1, <1>2, <1>3 DEF IInv

\* The clock goes on.
LEMMA TickKeeps == ASSUME IInv, Tick PROVE IInv'
<1> USE DEF Tick
<1>1. FieldInv'
  BY GraphletteConstants DEF IInv, FieldInv
<1>2. LoaderInv' /\ BatchInv' /\ AskedOncePerOperation'
  BY BatchesKept
<1>3. PromiseInv'
  BY DEF IInv, PromiseInv, Holds
<1> QED BY <1>1, <1>2, <1>3 DEF IInv

\* The operation is answered, or nothing happens.
LEMMA NothingKeeps == ASSUME IInv, UNCHANGED vars PROVE IInv'
<1> USE DEF vars
<1>1. FieldInv'
  BY DEF IInv, FieldInv
<1>2. LoaderInv' /\ BatchInv' /\ AskedOncePerOperation'
  BY BatchesKept
<1>3. PromiseInv'
  BY DEF IInv, PromiseInv, Holds
<1> QED BY <1>1, <1>2, <1>3 DEF IInv

\* A batch that changes its state, and takes its answer, keeps its ids.
LEMMA BatchKeeps ==
    ASSUME IInv, NEW b \in DOMAIN batches, NEW c,
           batches' = [batches EXCEPT ![b] = c],
           c \in Batch, c.keys = batches[b].keys,
           batches[b].state # "rejected",
           c.state = "answered" =>
              /\ Len(c.data) = Len(c.keys)
              /\ \A n \in 1 .. Len(c.keys) : c.data[n] \in {Item(b, n), Empty},
           UNCHANGED <<now, pc, at, key, loaders, current, promise, value>>
    PROVE  IInv'
<1>1. batches \in Seq(Batch) /\ Len(batches) \in Nat /\ b \in 1 .. Len(batches)
  BY DEF IInv, BatchInv
<1>2. /\ batches' \in Seq(Batch) /\ Len(batches') = Len(batches)
      /\ \A d \in 1 .. Len(batches) : batches'[d] = IF d = b THEN c ELSE batches[d]
  BY <1>1, ExceptSeq
<1>3. \A d \in 1 .. Len(batches) : batches'[d].keys = batches[d].keys
  BY <1>1, <1>2
<1>4. FieldInv' /\ LoaderInv'
  BY DEF IInv, FieldInv, LoaderInv
<1>5. BatchInv'
  <2> SUFFICES ASSUME NEW d \in 1 .. Len(batches)
               PROVE  /\ current' = 1
                      /\ Len(batches'[d].keys) \in 1 .. MaxBatch
                      /\ batches'[d].state = "answered" =>
                            /\ Len(batches'[d].data) = Len(batches'[d].keys)
                            /\ \A n \in 1 .. Len(batches'[d].keys) :
                                  batches'[d].data[n] \in {Item(d, n)', Empty}
    BY <1>2 DEF BatchInv
  <2>1. current = 1 /\ Len(batches[d].keys) \in 1 .. MaxBatch
    BY DEF IInv, BatchInv
  <2>2. \A n : Item(d, n)' = Item(d, n)
    <3>1. batches[d] \in Batch /\ batches'[d] \in Batch
      BY <1>1, <1>2
    <3>2. batches'[d].loader = batches[d].loader
      BY <3>1 DEF Batch
    <3> QED BY <1>3, <3>2 DEF Item
  <2>3. CASE d = b
    BY <1>2, <1>3, <2>1, <2>2, <2>3
  <2>4. CASE d # b
    <3>1. batches'[d] = batches[d]
      BY <1>2, <2>4
    <3> QED BY <2>1, <2>2, <3>1 DEF IInv, BatchInv
  <2> QED BY <2>3, <2>4
<1>6. PromiseInv'
  <2>1. \A p, k : Holds(p, k) => Holds(p, k)'
    BY <1>1, <1>2, <1>3 DEF Holds
  <2> QED BY <2>1 DEF IInv, PromiseInv
<1>7. AskedOncePerOperation'
  <2>1. DOMAIN batches' = DOMAIN batches /\ DOMAIN batches = 1 .. Len(batches)
    BY <1>1, <1>2
  <2>2. \A d \in DOMAIN batches : batches'[d].state # "rejected" => batches[d].state # "rejected"
    BY <1>1, <1>2, <2>1
  <2> QED BY <1>3, <2>1, <2>2 DEF IInv, AskedOncePerOperation
<1> QED BY <1>4, <1>5, <1>6, <1>7 DEF IInv

\* The ids of batch b are sent to the sibling.
LEMMA DispatchKeeps == ASSUME IInv, NEW b \in DOMAIN batches, Dispatch(b) PROVE IInv'
<1>1. batches \in Seq(Batch) /\ b \in 1 .. Len(batches)
  BY DEF IInv, BatchInv
<1>2. batches[b] \in Batch
  BY <1>1
<1> DEFINE c == [batches[b] EXCEPT !.state = "sent"]
<1>3. c \in Batch /\ c.keys = batches[b].keys /\ c.state = "sent"
  BY <1>2 DEF Batch
<1>4. batches' = [batches EXCEPT ![b] = c] /\ batches[b].state = "open"
  BY DEF Dispatch
<1>5. UNCHANGED <<now, pc, at, key, loaders, current, promise, value>>
  BY DEF Dispatch
<1> HIDE DEF c
<1> QED BY <1>3, <1>4, <1>5, BatchKeeps

\* The item a batch may get is a document.
LEMMA ItemIsDocument ==
    ASSUME IInv, NEW b \in 1 .. Len(batches), NEW n \in 1 .. Len(batches[b].keys)
    PROVE  Item(b, n) \in Document
<1>1. batches[b] \in Batch /\ current = 1
  BY DEF IInv, BatchInv
<1>2. batches[b].keys \in Seq(Keys) /\ batches[b].loader = 1
  BY <1>1 DEF Batch
<1>3. batches[b].keys[n] \in Keys
  BY <1>2
<1>4. loaders \in Seq(Loader) /\ Len(loaders) = 1
  BY <1>1 DEF IInv, LoaderInv
<1>5. loaders[1] \in Loader
  <2>1. 1 \in 1 .. Len(loaders)
    BY <1>4
  <2> QED BY <1>4, <2>1, ElementOfSeq
<1>6. loaders[1].at \in Times /\ loaders[1].sel \in {Selection[r] : r \in Roots}
  BY <1>5 DEF Loader
<1> QED BY <1>2, <1>3, <1>6 DEF Item, Document

\* The sibling answers batch b.
LEMMA AnsweredKeeps == ASSUME IInv, NEW b \in DOMAIN batches, Answered(b) PROVE IInv'
<1>1. batches \in Seq(Batch) /\ b \in 1 .. Len(batches)
  BY DEF IInv, BatchInv
<1>2. batches[b] \in Batch /\ batches[b].keys \in Seq(Keys)
  <2>1. batches[b] \in Batch
    BY <1>1
  <2> QED BY <2>1 DEF Batch
<1> DEFINE L == Len(batches[b].keys)
<1>3. L \in Nat
  BY <1>2
<1>4. PICK found \in [1 .. L -> BOOLEAN] :
          batches' = [batches EXCEPT ![b].state = "answered", ![b].data = Results(b, found)]
  BY DEF Answered
<1> DEFINE d == Results(b, found)
           c == [batches[b] EXCEPT !.state = "answered", !.data = d]
<1>5. d = [n \in 1 .. L |-> IF found[n] THEN Item(b, n) ELSE Empty]
  <2>1. Len(found) = L
    BY <1>3, <1>4
  <2> QED BY <2>1 DEF Results
<1>6. /\ d \in Seq(Document \cup {Empty}) /\ Len(d) = L
      /\ \A n \in 1 .. L : d[n] \in {Item(b, n), Empty}
  <2>1. \A n \in 1 .. L : (IF found[n] THEN Item(b, n) ELSE Empty) \in Document \cup {Empty}
    BY <1>1, ItemIsDocument
  <2> HIDE DEF L, d
  <2>2. d \in [1 .. L -> Document \cup {Empty}]
    BY <1>5, <2>1
  <2>3. d \in Seq(Document \cup {Empty}) /\ Len(d) = L
    BY <1>3, <1>5, <2>2
  <2> QED BY <1>5, <2>3
<1> HIDE DEF d
<1>7. batches' = [batches EXCEPT ![b] = c] /\ batches[b].state = "sent"
  <2>1. batches' = [batches EXCEPT ![b].state = "answered", ![b].data = d]
    BY <1>4 DEF d
  <2>2. batches[b].state = "sent"
    BY DEF Answered
  <2>3. [batches EXCEPT ![b].state = "answered", ![b].data = d] = [batches EXCEPT ![b] = c]
    BY <1>1, <1>2 DEF Batch
  <2> QED BY <2>1, <2>2, <2>3
<1>8. c \in Batch /\ c.keys = batches[b].keys /\ c.data = d
  BY <1>2, <1>6 DEF Batch
<1>9. UNCHANGED <<now, pc, at, key, loaders, current, promise, value>>
  BY DEF Answered
<1> HIDE DEF c
<1> QED BY <1>6, <1>7, <1>8, <1>9, BatchKeeps

\* The call of batch b fails.
LEMMA FailsKeeps == ASSUME IInv, NEW b \in DOMAIN batches, Fails(b) PROVE IInv'
<1>1. batches \in Seq(Batch) /\ b \in 1 .. Len(batches)
  BY DEF IInv, BatchInv
<1>2. batches[b] \in Batch
  BY <1>1
<1>3. PICK s \in {"failed", "rejected"} : batches' = [batches EXCEPT ![b].state = s]
  BY DEF Fails
<1> DEFINE c == [batches[b] EXCEPT !.state = s]
<1>4. c \in Batch /\ c.keys = batches[b].keys /\ c.state # "answered"
  BY <1>2 DEF Batch
<1>5. batches' = [batches EXCEPT ![b] = c] /\ batches[b].state = "sent"
  BY <1>3 DEF Fails
<1>6. UNCHANGED <<now, pc, at, key, loaders, current, promise, value>>
  BY DEF Fails
<1> HIDE DEF c
<1> QED BY <1>4, <1>5, <1>6, BatchKeeps

\* The promise of f is settled.
LEMMA DeliverKeeps == ASSUME IInv, NEW f \in Fields, Deliver(f) PROVE IInv'
<1>1. /\ value[f] = Pending /\ promise[f] # <<>>
      /\ UNCHANGED <<now, pc, at, key, loaders, current, batches, promise>>
  BY DEF Deliver
<1>2. key[f] \in Keys /\ Holds(promise[f], key[f])
  BY <1>1, GraphletteConstants DEF IInv, PromiseInv
<1>3. PICK v \in Document \cup {Empty, Failed} : value' = [value EXCEPT ![f] = v]
  <2> DEFINE b == promise[f][1]
             n == promise[f][2]
  <2>1. b \in 1 .. Len(batches) /\ n \in 1 .. Len(batches[b].keys)
    BY <1>2 DEF Holds
  <2>2. CASE batches[b].state = "answered" /\ value' = [value EXCEPT ![f] = batches[b].data[n]]
    <3>1. batches[b].data[n] \in {Item(b, n), Empty}
      BY <2>1, <2>2 DEF IInv, BatchInv
    <3>2. Item(b, n) \in Document
      BY <2>1, ItemIsDocument
    <3> QED BY <2>2, <3>1, <3>2
  <2>3. CASE value' = [value EXCEPT ![f] = Failed]
    BY <2>3
  <2> QED BY <2>2, <2>3 DEF Deliver
<1>4. FieldInv'
  BY <1>1, <1>3 DEF IInv, FieldInv
<1>5. LoaderInv' /\ BatchInv' /\ AskedOncePerOperation'
  BY <1>1, BatchesKept
<1>6. PromiseInv'
  <2> SUFFICES ASSUME NEW g \in Fields
               PROVE  IF promise[g] = <<>> THEN value'[g] = Pending
                      ELSE /\ pc[Root[g]] \in {"resolve", "done"}
                           /\ current = 1
                           /\ \/ key[g] = NoKey /\ value'[g] = Failed
                              \/ key[g] \in Keys /\ Holds(promise[g], key[g])
    BY <1>1 DEF PromiseInv, Holds
  <2>1. CASE g = f
    BY <1>1, <1>2, <2>1 DEF IInv, PromiseInv
  <2>2. CASE g # f
    <3>1. value'[g] = value[g]
      BY <1>3, <2>2 DEF IInv, FieldInv
    <3> QED BY <3>1 DEF IInv, PromiseInv
  <2> QED BY <2>1, <2>2
<1> QED BY <1>4, <1>5, <1>6 DEF IInv

\* The resolver of f has or makes the one loader there is.
LEMMA OneLoader ==
    ASSUME IInv, NEW f \in Fields, Resolve(f)
    PROVE  /\ LoaderFor(Root[f])[1] = 1
           /\ current' = 1 /\ loaders' \in Seq(Loader) /\ Len(loaders') = 1
           /\ current = 1 => loaders' = loaders
           /\ current = 0 => loaders' = <<[at |-> at[Root[f]], sel |-> Selection[Root[f]]]>>
<1> DEFINE new == [at |-> at[Root[f]], sel |-> Selection[Root[f]]]
<1>1. loaders \in Seq(Loader) /\ current \in {0, 1} /\ current = Len(loaders)
  BY DEF IInv, LoaderInv
<1>2. Root[f] \in Roots /\ new \in Loader
  <2>1. Root[f] \in Roots
    BY GraphletteConstants
  <2>2. at[Root[f]] \in Nat \cap Times
    BY <2>1 DEF IInv, FieldInv
  <2> QED BY <2>1, <2>2 DEF Loader
<1>3. loaders' = LoaderFor(Root[f])[2] /\ current' = LoaderFor(Root[f])[1]
  BY DEF Resolve, Keep
<1>4. CASE current = 1
  <2>1. LoaderFor(Root[f]) = <<1, loaders>>
    BY <1>4 DEF LoaderFor
  <2>2. LoaderFor(Root[f])[1] = 1 /\ LoaderFor(Root[f])[2] = loaders
    BY <2>1
  <2>3. current' = 1 /\ loaders' = loaders /\ Len(loaders) = 1 /\ current # 0
    BY <1>1, <1>3, <1>4, <2>2
  <2> HIDE DEF new
  <2> QED BY <1>1, <2>2, <2>3
<1>5. CASE current = 0
  <2>1. LoaderFor(Root[f]) = <<Len(loaders) + 1, Append(loaders, new)>>
    BY <1>5 DEF LoaderFor
  <2>2. loaders = <<>> /\ Len(loaders) = 0
    BY <1>1, <1>5, EmptySeq
  <2> HIDE DEF new
  <2>3. Append(loaders, new) = <<new>>
    BY <2>2
  <2>4. <<new>> \in Seq(Loader) /\ Len(<<new>>) = 1
    BY <1>2
  <2>5. loaders' = <<new>> /\ current' = 1 /\ LoaderFor(Root[f])[1] = 1
    BY <1>3, <2>1, <2>2, <2>3
  <2> QED BY <1>5, <2>4, <2>5 DEF new
<1> QED BY <1>1, <1>4, <1>5

\* Where the batches and the promises stand after the resolver of f ran.
LEMMA ResolveGrows ==
    ASSUME IInv, NEW f \in Fields, Resolve(f)
    PROVE  /\ batches' \in Seq(Batch)
           /\ Len(batches) \in Nat /\ Len(batches') \in Nat /\ Len(batches) <= Len(batches')
           /\ \A b \in 1 .. Len(batches) : Grows(batches[b], batches'[b])
           /\ \A b \in 1 .. Len(batches') :
                 /\ Len(batches'[b].keys) \in 1 .. MaxBatch
                 /\ b > Len(batches) => batches'[b].state = "open"
           /\ AskedOncePerOperation'
           /\ \/ /\ key[f] = NoKey
                 /\ promise' = [promise EXCEPT ![f] = <<0, 0>>]
                 /\ value' = [value EXCEPT ![f] = Failed]
              \/ /\ key[f] \in Keys
                 /\ \E p : promise' = [promise EXCEPT ![f] = p] /\ Holds(p, key[f])'
                 /\ value' = value
<1>1. batches \in Seq(Batch) /\ Len(batches) \in Nat
  BY DEF IInv, BatchInv
<1>2. CASE key[f] = NoKey
  <2>1. /\ batches' = batches /\ promise' = [promise EXCEPT ![f] = <<0, 0>>]
        /\ value' = [value EXCEPT ![f] = Failed]
    BY <1>2 DEF Resolve
  <2>2. ASSUME NEW b \in 1 .. Len(batches) PROVE Grows(batches[b], batches[b])
    <3>1. batches[b] \in Batch
      BY <1>1
    <3>2. Len(batches[b].keys) \in Nat
      BY <3>1 DEF Batch
    <3> QED BY <3>1, <3>2 DEF Grows
  <2>3. AskedOncePerOperation'
    BY <2>1 DEF IInv, AskedOncePerOperation
  <2>4. \A b \in 1 .. Len(batches) :
          Len(batches[b].keys) \in 1 .. MaxBatch /\ ~(b > Len(batches))
    BY <1>1 DEF IInv, BatchInv
  <2> QED BY <1>1, <1>2, <2>1, <2>2, <2>3, <2>4
<1>3. CASE key[f] # NoKey
  <2>1. key[f] \in Keys
    BY <1>3 DEF IInv, FieldInv, Resolve, Unresolved
  <2>0. PICK p, bs : p = Loaded(1, key[f])[1] /\ bs = Loaded(1, key[f])[2]
    OBVIOUS
  <2>2. batches' = bs /\ promise' = [promise EXCEPT ![f] = p] /\ value' = value
    BY <1>3, <2>0, OneLoader DEF Resolve
  <2>3. LoadedRight(key[f], p, bs)
    BY <2>0, <2>1, LoadRight DEF IInv
  <2>4. /\ bs \in Seq(Batch) /\ Len(bs) \in Nat /\ Len(batches) <= Len(bs)
        /\ \A b \in 1 .. Len(batches) : Grows(batches[b], bs[b])
        /\ \A b \in 1 .. Len(bs) :
              /\ Len(bs[b].keys) \in 1 .. MaxBatch
              /\ b > Len(batches) => bs[b].state = "open"
    BY <2>3 DEF LoadedRight
  <2>5. Holds(p, key[f])'
    <3>1. /\ p \in Nat \X Nat
          /\ p[1] \in 1 .. Len(bs) /\ p[2] \in 1 .. Len(bs[p[1]].keys)
          /\ bs[p[1]].keys[p[2]] = key[f]
      BY <2>3 DEF LoadedRight
    <3>2. key' = key
      BY DEF Resolve
    <3> QED BY <2>2, <3>1, <3>2 DEF Holds
  <2>6. AskedOncePerOperation'
    <3>1. DOMAIN bs = 1 .. Len(bs)
      BY <2>4
    <3>2. \A b \in 1 .. Len(bs) : DOMAIN bs[b].keys = 1 .. Len(bs[b].keys)
      BY <2>4 DEF Batch
    <3>3. \A b, c \in 1 .. Len(bs) :
            b < c /\ bs[b].state # "rejected" =>
              \A m \in 1 .. Len(bs[b].keys), n \in 1 .. Len(bs[c].keys) :
                  bs[b].keys[m] # bs[c].keys[n]
      BY <2>3 DEF LoadedRight
    <3> QED BY <2>2, <3>1, <3>2, <3>3 DEF AskedOncePerOperation
  <2> QED BY <1>1, <2>1, <2>2, <2>4, <2>5, <2>6
<1> QED BY <1>2, <1>3

\* The resolver of f runs up to the await of its load.
LEMMA ResolveKeeps == ASSUME IInv, NEW f \in Fields, Resolve(f) PROVE IInv'
<1> USE GraphletteConstants
<1> DEFINE r == Root[f]
<1>1. /\ pc[r] = "resolve" /\ r \in Roots
      /\ pc' = [pc EXCEPT ![r] = IF Unresolved(r) = {f} THEN "done" ELSE @]
      /\ UNCHANGED <<now, at, key>>
  BY DEF Resolve
<1>2. current' = 1 /\ loaders' \in Seq(Loader) /\ Len(loaders') = 1
      /\ (current = 1 => loaders' = loaders)
  BY OneLoader
<1>3. /\ batches' \in Seq(Batch)
      /\ Len(batches) \in Nat /\ Len(batches') \in Nat /\ Len(batches) <= Len(batches')
      /\ \A b \in 1 .. Len(batches) : Grows(batches[b], batches'[b])
      /\ \A b \in 1 .. Len(batches') :
            /\ Len(batches'[b].keys) \in 1 .. MaxBatch
            /\ b > Len(batches) => batches'[b].state = "open"
      /\ AskedOncePerOperation'
  BY ResolveGrows
<1>4. PICK p, v :
        /\ promise' = [promise EXCEPT ![f] = p]
        /\ value' = [value EXCEPT ![f] = v]
        /\ p \in Nat \X Nat
        /\ \/ key[f] = NoKey /\ v = Failed
           \/ key[f] \in Keys /\ Holds(p, key[f])' /\ v = value[f]
  <2>1. CASE /\ key[f] = NoKey
             /\ promise' = [promise EXCEPT ![f] = <<0, 0>>]
             /\ value' = [value EXCEPT ![f] = Failed]
    <3>1. <<0, 0>> \in Nat \X Nat
      OBVIOUS
    <3> QED BY <2>1, <3>1, Zenon
  <2>2. CASE /\ key[f] \in Keys
             /\ \E p : promise' = [promise EXCEPT ![f] = p] /\ Holds(p, key[f])'
             /\ value' = value
    <3>1. PICK p : promise' = [promise EXCEPT ![f] = p] /\ Holds(p, key[f])'
      BY <2>2
    <3>2. p \in Nat \X Nat
      BY <3>1 DEF Holds
    <3>3. value' = [value EXCEPT ![f] = value[f]]
      BY <2>2 DEF IInv, FieldInv
    <3>4. \/ key[f] = NoKey /\ value[f] = Failed
          \/ key[f] \in Keys /\ Holds(p, key[f])' /\ value[f] = value[f]
      BY <2>2, <3>1
    <3> QED BY <3>1, <3>2, <3>3, <3>4
  <2> QED BY <2>1, <2>2, ResolveGrows
<1>5. FieldInv'
  <2>1. v \in {Pending, Empty, Failed} \cup Document
    BY <1>4 DEF IInv, FieldInv
  <2>2. pc' \in [Roots -> {"start", "find", "resolve", "done"}]
    BY <1>1 DEF IInv, FieldInv
  <2> QED BY <1>1, <1>4, <2>1, <2>2 DEF IInv, FieldInv
<1>6. LoaderInv'
  BY <1>2 DEF LoaderInv
<1>7. BatchInv'
  <2> SUFFICES ASSUME NEW b \in 1 .. Len(batches'), batches'[b].state = "answered"
               PROVE  /\ Len(batches'[b].data) = Len(batches'[b].keys)
                      /\ \A n \in 1 .. Len(batches'[b].keys) :
                            batches'[b].data[n] \in {Item(b, n)', Empty}
    BY <1>2, <1>3 DEF BatchInv
  <2>1. b \in 1 .. Len(batches)
    BY <1>3
  <2>2. batches'[b] = batches[b]
    BY <1>3, <2>1 DEF Grows
  <2>3. loaders' = loaders
    BY <1>2, <2>1 DEF IInv, BatchInv
  <2>4. \A n : Item(b, n)' = Item(b, n)
    BY <2>2, <2>3 DEF Item
  <2> QED BY <2>1, <2>2, <2>4 DEF IInv, BatchInv
<1>8. PromiseInv'
  <2> SUFFICES ASSUME NEW g \in Fields
               PROVE  IF promise'[g] = <<>> THEN value'[g] = Pending
                      ELSE /\ pc'[Root[g]] \in {"resolve", "done"}
                           /\ current' = 1
                           /\ \/ key'[g] = NoKey /\ value'[g] = Failed
                              \/ key'[g] \in Keys /\ Holds(promise[g], key[g])'
    BY DEF PromiseInv
  <2>1. pc[Root[g]] \in {"resolve", "done"} => pc'[Root[g]] \in {"resolve", "done"}
    BY <1>1 DEF IInv, FieldInv
  <2>2. CASE g = f
    <3>1. promise'[f] = p /\ value'[f] = v /\ p # <<>>
      <4>1. p # <<>>
        <5>1. PICK a \in Nat, b \in Nat : p = <<a, b>>
          BY <1>4
        <5>2. Len(<<a, b>>) = 2 /\ Len(<<>>) = 0
          OBVIOUS
        <5> QED BY <5>1, <5>2
      <4> QED BY <1>4, <4>1 DEF IInv, FieldInv
    <3>2. key[g] \in Keys => Holds(promise[g], key[g])'
      BY <1>1, <1>4, <2>2, <3>1, GraphletteConstants DEF Holds
    <3>3. pc'[Root[g]] \in {"resolve", "done"} /\ key'[g] = key[g]
      BY <1>1, <2>1, <2>2
    <3>4. promise'[g] # <<>> /\ value'[g] = v
      BY <2>2, <3>1
    <3>5. \/ key'[g] = NoKey /\ value'[g] = Failed
          \/ key'[g] \in Keys /\ Holds(promise[g], key[g])'
      BY <1>4, <2>2, <3>2, <3>3, <3>4
    <3> QED BY <1>2, <3>3, <3>4, <3>5
  <2>3. CASE g # f
    <3>1. promise'[g] = promise[g] /\ value'[g] = value[g] /\ key'[g] = key[g]
      BY <1>1, <1>4, <2>3 DEF IInv, FieldInv
    <3>2. Holds(promise[g], key[g]) => Holds(promise[g], key[g])'
      <4> SUFFICES ASSUME Holds(promise[g], key[g]) PROVE Holds(promise[g], key[g])'
        OBVIOUS
      <4> DEFINE q == promise[g]
      <4>1. /\ q \in Nat \X Nat /\ q[1] \in 1 .. Len(batches)
            /\ q[2] \in 1 .. Len(batches[q[1]].keys)
            /\ batches[q[1]].keys[q[2]] = key[g]
        BY DEF Holds
      <4>2. Grows(batches[q[1]], batches'[q[1]]) /\ q[1] \in 1 .. Len(batches')
        BY <1>3, <4>1
      <4>3. Len(batches[q[1]].keys) \in Nat /\ Len(batches'[q[1]].keys) \in Nat
        <5>1. batches[q[1]] \in Batch /\ batches'[q[1]] \in Batch
          BY <4>1, <4>2 DEF IInv, BatchInv, Grows
        <5> QED BY <5>1 DEF Batch
      <4>4. q[2] \in 1 .. Len(batches'[q[1]].keys) /\ batches'[q[1]].keys[q[2]] = key[g]
        BY <4>1, <4>2, <4>3 DEF Grows
      <4> QED BY <3>1, <4>1, <4>2, <4>4 DEF Holds
    <3> QED BY <1>2, <2>1, <3>1, <3>2 DEF IInv, PromiseInv
  <2> QED BY <2>2, <2>3
<1> QED BY <1>3, <1>5, <1>6, <1>7, <1>8 DEF IInv

(***************************************************************************)
(* The theorems.                                                           *)
(***************************************************************************)

\* Every step keeps the invariant.
LEMMA InvNext == IInv /\ [Next]_vars => IInv'
<1> SUFFICES ASSUME IInv, [Next]_vars PROVE IInv'
  OBVIOUS
<1>1. ASSUME NEW r \in Roots, Search(r) \/ Fill(r) PROVE IInv'
  BY <1>1, SearchKeeps, FillKeeps
<1>2. ASSUME NEW f \in Fields, Resolve(f) \/ Deliver(f) PROVE IInv'
  BY <1>2, ResolveKeeps, DeliverKeeps
<1>3. ASSUME NEW b \in DOMAIN batches, Dispatch(b) \/ Answered(b) \/ Fails(b) PROVE IInv'
  BY <1>3, DispatchKeeps, AnsweredKeeps, FailsKeeps
<1>4. CASE Tick
  BY <1>4, TickKeeps
<1>5. CASE Finished \/ UNCHANGED vars
  BY <1>5, NothingKeeps DEF Finished
<1> QED BY <1>1, <1>2, <1>3, <1>4, <1>5 DEF Next, Run

\* The invariant holds of every state the operation reaches.
THEOREM Invariance == Spec => []IInv
<1>1. Init => IInv
  BY InvInit
<1>2. IInv /\ [Next]_vars => IInv'
  BY InvNext
<1> QED BY <1>1, <1>2, PTL DEF Spec

\* The clock, the resolvers, the data loader and the fields keep their types
\* (root.ts, dto.ts, dataLoaderFactory.ts).
THEOREM TypeCorrect == Spec => []TypeOK
<1>1. IInv => TypeOK
  BY InvTypes
<1> QED BY <1>1, Invariance, PTL

\* The sibling is asked for an id once in an operation, and again only when the
\* call that asked for it broke (createSubgraphDataLoader: cache).
THEOREM AskedOnce == Spec => []AskedOncePerOperation
<1>1. IInv => AskedOncePerOperation
  BY DEF IInv
<1> QED BY <1>1, Invariance, PTL

(***************************************************************************)
(* One time and one selection.                                             *)
(***************************************************************************)

\* All top level fields ask for one time and select the same below.
Uniform ==
    \A r, q \in Roots :
        /\ Asked[r] # NoAt /\ Asked[r] = Asked[q]
        /\ Selection[r] = Selection[q]

\* The loader then stands for every caller.
UniformInv ==
    /\ \A r \in Roots : pc[r] # "start" => at[r] = Asked[r]
    /\ Len(loaders) = 1 =>
          \A r \in Roots : loaders[1].at = Asked[r] /\ loaders[1].sel = Selection[r]

\* Every step keeps that.
LEMMA UniformNext == Uniform /\ IInv /\ UniformInv /\ [Next]_vars => UniformInv'
<1> SUFFICES ASSUME Uniform, IInv, UniformInv, [Next]_vars PROVE UniformInv'
  OBVIOUS
<1>1. CASE loaders' = loaders /\ pc' = pc /\ at' = at
  BY <1>1 DEF UniformInv
<1>2. ASSUME NEW r \in Roots, Search(r) PROVE UniformInv'
  <2>1. Timestamp(r) = Asked[r]
    BY DEF Timestamp, Uniform
  <2> QED BY <1>2, <2>1 DEF Search, UniformInv, IInv, FieldInv
<1>3. ASSUME NEW r \in Roots, Fill(r) PROVE UniformInv'
  <2>1. pc[r] = "find" /\ at' = at /\ loaders' = loaders
    BY <1>3 DEF Fill
  <2>2. \E s : pc' = [pc EXCEPT ![r] = s]
    BY <1>3 DEF Fill
  <2> QED BY <2>1, <2>2 DEF UniformInv, IInv, FieldInv
<1>4. ASSUME NEW f \in Fields, Resolve(f) PROVE UniformInv'
  <2>1. Root[f] \in Roots /\ pc[Root[f]] = "resolve" /\ at' = at
    BY <1>4, GraphletteConstants DEF Resolve
  <2>2. \E s : pc' = [pc EXCEPT ![Root[f]] = s]
    BY <1>4 DEF Resolve
  <2>3. \A r \in Roots : pc'[r] # "start" => at'[r] = Asked[r]
    BY <2>1, <2>2 DEF UniformInv, IInv, FieldInv
  <2>4. CASE current = 1
    <3>1. loaders' = loaders /\ Len(loaders') = 1 /\ Len(loaders) = 1
      BY <1>4, <2>4, OneLoader
    <3> QED BY <2>3, <3>1 DEF UniformInv
  <2>5. CASE current = 0
    <3>1. loaders' = <<[at |-> at[Root[f]], sel |-> Selection[Root[f]]]>>
      BY <1>4, <2>5, OneLoader
    <3>2. loaders'[1].at = Asked[Root[f]] /\ loaders'[1].sel = Selection[Root[f]]
      BY <2>1, <3>1 DEF UniformInv
    <3> QED BY <2>1, <2>3, <3>2 DEF UniformInv, Uniform
  <2> QED BY <2>4, <2>5 DEF IInv, LoaderInv
<1>5. ASSUME NEW f \in Fields, Deliver(f) PROVE UniformInv'
  BY <1>1, <1>5 DEF Deliver
<1>6. ASSUME NEW b \in DOMAIN batches, Dispatch(b) \/ Answered(b) \/ Fails(b) PROVE UniformInv'
  BY <1>1, <1>6 DEF Dispatch, Answered, Fails
<1>7. CASE Tick \/ Finished \/ UNCHANGED vars
  BY <1>1, <1>7 DEF Tick, Finished, vars
<1> QED BY <1>2, <1>3, <1>4, <1>5, <1>6, <1>7 DEF Next, Run

\* What was asked for stays while no resolver runs.
LEMMA CalledKept ==
    ASSUME promise' = promise,
           \A f \in Fields : promise[f] # <<>> =>
              key'[f] = key[f] /\ at'[Root[f]] = at[Root[f]]
    PROVE  Called' = Called
BY DEF Called, OwnCall

\* The item at the place a resolver waits for is what it would have asked for.
LEMMA ItemIsOwnCall ==
    ASSUME IInv, UniformInv, NEW f \in Fields, promise[f] # <<>>, key[f] # NoKey
    PROVE  /\ Holds(promise[f], key[f])
           /\ Item(promise[f][1], promise[f][2]) = OwnCall(f)
           /\ OwnCall(f) \in Document
<1> DEFINE b == promise[f][1]
           n == promise[f][2]
           r == Root[f]
<1>1. /\ Holds(promise[f], key[f]) /\ current = 1
      /\ r \in Roots /\ pc[r] # "start"
  BY GraphletteConstants DEF IInv, PromiseInv
<1>2. /\ b \in 1 .. Len(batches) /\ n \in 1 .. Len(batches[b].keys)
      /\ batches[b].keys[n] = key[f]
  BY <1>1 DEF Holds
<1>3. batches[b].loader = 1
  <2>1. batches[b] \in Batch
    BY <1>2 DEF IInv, BatchInv
  <2> QED BY <2>1 DEF Batch
<1>4. Len(loaders) = 1
  BY <1>1 DEF IInv, LoaderInv
<1>5. loaders[1].at = at[r] /\ loaders[1].sel = Selection[r]
  BY <1>1, <1>4 DEF UniformInv
<1>6. Item(b, n) = OwnCall(f)
  BY <1>2, <1>3, <1>5 DEF Item, OwnCall
<1> QED BY <1>1, <1>2, <1>6, ItemIsDocument

\* Every step is one of a resolver on its own, or shows nothing of one.
LEMMA StepResolves ==
    IInv /\ UniformInv /\ [Next]_vars => [Direct!Next]_(Direct!vars)
<1> SUFFICES ASSUME IInv, UniformInv, [Next]_vars
             PROVE  Direct!Next \/ UNCHANGED <<Called, value>>
  BY DEF Direct!vars
<1>1. CASE UNCHANGED <<promise, key, at, value>>
  BY <1>1, CalledKept
<1>2. ASSUME NEW r \in Roots, Search(r) PROVE UNCHANGED <<Called, value>>
  <2>1. \A f \in Fields : promise[f] # <<>> => at'[Root[f]] = at[Root[f]]
    <3> SUFFICES ASSUME NEW f \in Fields, promise[f] # <<>> PROVE at'[Root[f]] = at[Root[f]]
      OBVIOUS
    <3>1. Root[f] \in Roots /\ Root[f] # r
      BY <1>2, GraphletteConstants DEF IInv, PromiseInv, Search
    <3> QED BY <1>2, <3>1 DEF Search, IInv, FieldInv
  <2>2. promise' = promise /\ key' = key /\ value' = value
    BY <1>2 DEF Search
  <2> QED BY <2>1, <2>2, CalledKept
<1>3. ASSUME NEW r \in Roots, Fill(r) PROVE UNCHANGED <<Called, value>>
  <2>1. \A f \in Fields : promise[f] # <<>> => key'[f] = key[f]
    <3> SUFFICES ASSUME NEW f \in Fields, promise[f] # <<>> PROVE key'[f] = key[f]
      OBVIOUS
    <3>1. f \notin FieldsOf(r)
      BY <1>3, GraphletteConstants DEF IInv, PromiseInv, Fill, FieldsOf
    <3> QED BY <1>3, <3>1 DEF Fill
  <2>2. promise' = promise /\ at' = at /\ value' = value
    BY <1>3 DEF Fill
  <2> QED BY <2>1, <2>2, CalledKept
<1>4. ASSUME NEW f \in Fields, Resolve(f) PROVE Direct!Ask(f)
  <2>1. promise[f] = <<>> /\ key' = key /\ at' = at
    BY <1>4 DEF Resolve, Unresolved
  <2>2. Called[f] = Pending
    BY <2>1 DEF Called
  <2>3. PICK p : promise' = [promise EXCEPT ![f] = p]
    BY <1>4, ResolveGrows
  <2>4. promise'[f] # <<>>
    <3>1. IInv'
      BY <1>4, ResolveKeeps
    <3>2. CASE promise' = [promise EXCEPT ![f] = <<0, 0>>]
      <4>1. promise'[f] = <<0, 0>>
        BY <3>2 DEF IInv, FieldInv
      <4>2. Len(<<0, 0>>) = 2 /\ Len(<<>>) = 0
        OBVIOUS
      <4> QED BY <4>1, <4>2
    <3>3. ASSUME NEW q, promise' = [promise EXCEPT ![f] = q], Holds(q, key[f])'
          PROVE  promise'[f] # <<>>
      <4>1. promise'[f] = q
        BY <3>3 DEF IInv, FieldInv
      <4>2. PICK a \in Nat, b \in Nat : q = <<a, b>>
        BY <3>3 DEF Holds
      <4>3. Len(<<a, b>>) = 2 /\ Len(<<>>) = 0
        OBVIOUS
      <4> QED BY <4>1, <4>2, <4>3
    <3> QED BY <1>4, <3>2, <3>3, ResolveGrows
  <2>5. Called' = [Called EXCEPT ![f] = IF key[f] = NoKey THEN Failed ELSE OwnCall(f)]
    <3>1. \A g \in Fields : g # f => promise'[g] = promise[g]
      BY <2>3 DEF IInv, FieldInv
    <3> QED BY <2>1, <2>4, <3>1 DEF Called, OwnCall
  <2>6. CASE key[f] = NoKey
    <3>1. value' = [value EXCEPT ![f] = Failed]
      BY <1>4, <2>6 DEF Resolve
    <3> QED BY <2>2, <2>5, <2>6, <3>1 DEF Direct!Ask
  <2>7. CASE key[f] # NoKey
    <3>1. value' = value /\ key[f] \in Keys
      BY <1>4, <2>7 DEF Resolve, Unresolved, IInv, FieldInv
    <3>2. OwnCall(f) \in Document
      <4>1. Root[f] \in Roots
        BY GraphletteConstants
      <4>2. at[Root[f]] \in Times
        BY <4>1 DEF IInv, FieldInv
      <4> QED BY <3>1, <4>1, <4>2 DEF OwnCall, Document
    <3> QED BY <2>2, <2>5, <2>7, <3>1, <3>2 DEF Direct!Ask
  <2> QED BY <2>6, <2>7
<1>5. ASSUME NEW f \in Fields, Deliver(f) PROVE Direct!Answer(f)
  <2>1. value[f] = Pending /\ promise[f] # <<>> /\ UNCHANGED <<promise, key, at>>
    BY <1>5 DEF Deliver
  <2>2. key[f] # NoKey
    BY <2>1, GraphletteConstants DEF IInv, PromiseInv
  <2>3. /\ Holds(promise[f], key[f])
        /\ Item(promise[f][1], promise[f][2]) = OwnCall(f)
        /\ OwnCall(f) \in Document
    BY <2>1, <2>2, ItemIsOwnCall
  <2>4. Called[f] = OwnCall(f)
    BY <2>1, <2>2 DEF Called
  <2>5. \E v \in {OwnCall(f), Empty, Failed} : value' = [value EXCEPT ![f] = v]
    <3> DEFINE b == promise[f][1]
               n == promise[f][2]
    <3>1. b \in 1 .. Len(batches) /\ n \in 1 .. Len(batches[b].keys)
      BY <2>3 DEF Holds
    <3>2. CASE batches[b].state = "answered" /\ value' = [value EXCEPT ![f] = batches[b].data[n]]
      <4>1. batches[b].data[n] \in {Item(b, n), Empty}
        BY <3>1, <3>2 DEF IInv, BatchInv
      <4> QED BY <2>3, <3>2, <4>1
    <3>3. CASE value' = [value EXCEPT ![f] = Failed]
      BY <3>3
    <3> QED BY <1>5, <3>2, <3>3 DEF Deliver
  <2>6. Called' = Called
    BY <2>1, CalledKept
  <2> QED BY <2>1, <2>3, <2>4, <2>5, <2>6 DEF Direct!Answer
<1>6. ASSUME NEW b \in DOMAIN batches, Dispatch(b) \/ Answered(b) \/ Fails(b)
      PROVE  Direct!Next \/ UNCHANGED <<Called, value>>
  <2>1. UNCHANGED <<promise, key, at, value>>
    BY <1>6 DEF Dispatch, Answered, Fails
  <2> QED BY <1>1, <2>1
<1>7. CASE Tick \/ Finished \/ UNCHANGED vars
  BY <1>1, <1>7 DEF Tick, Finished, vars
<1> QED BY <1>2, <1>3, <1>4, <1>5, <1>6, <1>7 DEF Next, Run, Direct!Next

\* Where the top level fields have one time and one selection, each resolver
\* gets what a call of its own would have got (assignResolver of dto.ts): the
\* data loader is not to be seen, whatever ids it shares, however it cuts its
\* batches and in whatever order they are answered or fail.
THEOREM ImplementsResolution == Uniform => (Spec => Direct!Safety)
<1> SUFFICES ASSUME Uniform PROVE Spec => Direct!Safety
  OBVIOUS
<1>1. Init => UniformInv /\ Direct!Init
  BY DEF Init, UniformInv, Direct!Init, Called
<1>2. IInv /\ UniformInv /\ [Next]_vars => UniformInv'
  BY UniformNext
<1>3. IInv /\ UniformInv /\ [Next]_vars => [Direct!Next]_(Direct!vars)
  BY StepResolves
<1> QED BY <1>1, <1>2, <1>3, Invariance, PTL DEF Spec, Direct!Safety

\* What a field has become is what its resolver asked for, or no document.
OwnAnswers == \A f \in Fields : value[f] \in {Pending, Empty, Failed, Called[f]}

\* A document below an object is then the one of that object's time: what the
\* shared loader gets wrong (AnswersAtOwnTime) it gets wrong only for top level
\* fields that differ in their time or their selection.
THEOREM OwnTime ==
    Uniform /\ {Pending, Empty, Failed} \cap Document = {} => (Spec => []AnswersAtOwnTime)
<1> SUFFICES ASSUME Uniform, {Pending, Empty, Failed} \cap Document = {}
             PROVE  Spec => []AnswersAtOwnTime
  OBVIOUS
<1>1. Init => UniformInv /\ OwnAnswers
  BY DEF Init, UniformInv, OwnAnswers
<1>2. IInv /\ UniformInv /\ [Next]_vars => UniformInv'
  BY UniformNext
<1>3. IInv /\ UniformInv /\ OwnAnswers /\ [Next]_vars => OwnAnswers'
  <2> SUFFICES ASSUME IInv, UniformInv, OwnAnswers, [Next]_vars PROVE OwnAnswers'
    OBVIOUS
  <2>1. DOMAIN value = Fields /\ DOMAIN Called = Fields
    BY DEF IInv, FieldInv, Called
  <2>2. ASSUME NEW f \in Fields, Direct!Ask(f) PROVE OwnAnswers'
    <3>1. Called[f] = Pending
      BY <2>2 DEF Direct!Ask
    <3>2. \A g \in Fields : g # f => value'[g] = value[g] /\ Called'[g] = Called[g]
      BY <2>1, <2>2 DEF Direct!Ask
    <3>3. value'[f] = value[f] \/ value'[f] = Failed
      BY <2>1, <2>2 DEF Direct!Ask
    <3> QED BY <3>1, <3>2, <3>3 DEF OwnAnswers
  <2>3. ASSUME NEW f \in Fields, Direct!Answer(f) PROVE OwnAnswers'
    <3>1. \A g \in Fields : g # f => value'[g] = value[g]
      BY <2>1, <2>3 DEF Direct!Answer
    <3>2. value'[f] \in {Called[f], Empty, Failed} /\ Called' = Called
      BY <2>1, <2>3 DEF Direct!Answer
    <3> QED BY <3>1, <3>2 DEF OwnAnswers
  <2>4. CASE UNCHANGED <<Called, value>>
    BY <2>4 DEF OwnAnswers
  <2> QED BY <2>2, <2>3, <2>4, StepResolves DEF Direct!Next, Direct!vars
<1>4. OwnAnswers => AnswersAtOwnTime
  <2> SUFFICES ASSUME OwnAnswers, NEW f \in Fields, value[f] \in Document
               PROVE  value[f].at = at[Root[f]]
    BY DEF AnswersAtOwnTime
  <2>1. value[f] = Called[f] /\ Called[f] \notin {Pending, Failed}
    BY DEF OwnAnswers
  <2>2. Called[f] = OwnCall(f)
    BY <2>1 DEF Called
  <2> QED BY <2>1, <2>2 DEF OwnCall
<1> QED BY <1>1, <1>2, <1>3, <1>4, Invariance, PTL DEF Spec
=============================================================================
