---------------------------- MODULE SearcherProofs ----------------------------
(***************************************************************************)
(* Proofs about the searches of a graphlette, for every set of requests    *)
(* and documents, every traits of the repository and of the searcher, and  *)
(* every filter.                                                           *)
(***************************************************************************)
EXTENDS Searcher, RestletteProofs

(***************************************************************************)
(* Searches of the past.                                                   *)
(***************************************************************************)

\* The clause on created_at lets through what is stamped by the time asked for.
LEMMA InTimeBound ==
    ASSUME NEW q \in Row, NEW t \in Nat, InTime(q, t)
    PROVE  q.at <= t
  BY DEF InTime, Row

\* A version stamped later than the time asked for changes no search.
LEMMA LaterRowUnseen ==
    ASSUME NEW S, NEW v \in Row, NEW t \in Nat, v.at > t, NEW F \in SUBSET (S \cup {v})
    PROVE  Find(F, t) = Find(F \cap S, t) /\ FindAll(F, t) = FindAll(F \cap S, t)
<1>1. ~InTime(v, t)
  BY InTimeBound DEF Row
<1>2. FindRows(F, t) = FindRows(F \cap S, t) /\ AllRows(F, t) = AllRows(F \cap S, t)
  BY <1>1 DEF FindRows, AllRows
<1> QED BY <1>2 DEF Find, FindAll

\* A search of a settled time is repeatable whatever it filters by, except for
\* removals (the searchers' clause on created_at).
THEOREM PastSearches == Spec => SearchesOfThePastRepeat
<1>1. ASSUME IInv, [Next]_vars, NEW t \in 0 .. now, Settled(t), rows' # rows
      PROVE  \/ \E i \in Ids : RemovalOf(i)
             \/ \A F \in SUBSET rows' :
                   /\ Find(F, t) = Find(F \cap rows, t)
                   /\ FindAll(F, t) = FindAll(F \cap rows, t)
  <2>1. TypeOK /\ PhaseInv /\ t \in Nat
    BY <1>1 DEF IInv
  <2>2. ASSUME NEW r \in Requests, Mark(r) PROVE \E i \in Ids : RemovalOf(i)
    <3>1. doc[r] \in Ids
      BY <2>1, <2>2 DEF Mark, PhaseInv
    <3> QED BY <2>2, <3>1 DEF RemovalOf
  <2>3. ASSUME NEW r \in Requests, Insert(r)
        PROVE  \A F \in SUBSET rows' : /\ Find(F, t) = Find(F \cap rows, t)
                                       /\ FindAll(F, t) = FindAll(F \cap rows, t)
    <3>1. PICK v \in Row : rows' = rows \cup {v} /\ v.at > t
      BY <1>1, <2>1, <2>3, InsertedAfterSettled
    <3> QED BY <2>1, <3>1, LaterRowUnseen
  <2> QED BY <1>1, <2>2, <2>3, TableStep
<1>2. IInv /\ [Next]_vars => [\A t \in 0 .. now : Settled(t) /\ rows' # rows =>
          \/ \E i \in Ids : RemovalOf(i)
          \/ \A F \in SUBSET rows' :
                /\ Find(F, t) = Find(F \cap rows, t)
                /\ FindAll(F, t) = FindAll(F \cap rows, t)]_vars
  BY <1>1
<1> QED BY <1>2, Invariance, PTL DEF Spec, SearchesOfThePastRepeat

(***************************************************************************)
(* What one search returns.                                                *)
(***************************************************************************)

\* Of one document the choice among its versions is the newest.
LEMMA OneDocument ==
    ASSUME NEW S, NEW i, \A q \in S : q.id = i
    PROVE  OnePerDocument(S) = Newest(S)
<1>1. ASSUME NEW j \in {q.id : q \in S} PROVE {q \in S : q.id = j} = S
  BY <1>1
<1>2. OnePerDocument(S) = UNION {Newest(S) : j \in {q.id : q \in S}}
  BY <1>1 DEF OnePerDocument
<1>3. S = {} => Newest(S) = {}
  BY DEF Newest
<1> QED BY <1>2, <1>3

\* What findAll returns is a newest version of its document among the matches.
LEMMA FoundIsNewest ==
    ASSUME NEW S, NEW c \in OnePerDocument(S)
    PROVE  c \in S /\ \A q \in S : q.id = c.id => q.at <= c.at
<1>1. PICK i \in {q.id : q \in S} : c \in Newest({q \in S : q.id = i})
  BY DEF OnePerDocument
<1> QED BY <1>1 DEF Newest

\* Where a search by id does not differ in its clauses from a read, it matches
\* the rows a read does.
LEMMA SameRows ==
    ASSUME TypeOK, NEW i, NEW t \in Nat, NEW sees \in BOOLEAN,
           ~Differs({q \in rows : q.id = i}, t, sees)
    PROVE  {q \in {q \in rows : q.id = i} : InTime(q, t) /\ (sees \/ ~q.deleted)}
              = {q \in Live(rows, i) : q.at <= t}
<1>1. ASSUME NEW q \in rows, q.id = i
      PROVE  InTime(q, t) /\ (sees \/ ~q.deleted) <=> ~q.deleted /\ q.at <= t
  <2>1. q.at \in Nat /\ (StrictSearch => q.at # t) /\ (sees => ~q.deleted)
    BY <1>1 DEF TypeOK, Row, Differs
  <2>2. InTime(q, t) <=> q.at <= t
    BY <2>1 DEF InTime
  <2> QED BY <2>1, <2>2
<1> QED BY <1>1 DEF Live

\* For every repository and searcher: a search by id and a read of the same
\* moment agree, except where the clauses of the two queries differ (getById
\* through singleton or vector, Crud.read).
THEOREM GraphAgrees == Spec => []GraphAgreesWithRest
<1>1. ASSUME TypeOK PROVE GraphAgreesWithRest
  <2> SUFFICES ASSUME NEW i \in Ids
               PROVE  LET F == {q \in rows : q.id = i}
                      IN  /\ Find(F, appNow) = AsOf(rows, i, appNow)
                             \/ Differs(F, appNow, FindSeesRemoved)
                          /\ FindAll(F, appNow) = AsOf(rows, i, appNow)
                             \/ Differs(F, appNow, AllSeesRemoved)
    BY DEF GraphAgreesWithRest
  <2> DEFINE F == {q \in rows : q.id = i}
             V == {q \in Live(rows, i) : q.at <= appNow}
  <2>1. appNow \in Nat
    BY <1>1 DEF TypeOK
  <2>2. ~Differs(F, appNow, FindSeesRemoved) => FindRows(F, appNow) = V
    BY <1>1, <2>1, SameRows, SearcherConstants DEF FindRows, FindSeen
  <2>3. ~Differs(F, appNow, AllSeesRemoved) => AllRows(F, appNow) = V
    BY <1>1, <2>1, SameRows, SearcherConstants DEF AllRows, AllSeen
  <2>4. OnePerDocument(V) = Newest(V)
    BY OneDocument DEF Live
  <2> QED BY <2>2, <2>3, <2>4 DEF Find, FindAll, AsOf
<1> QED BY <1>1, TypeCorrect, PTL

\* For every filter: findAll returns a superseded version only when the version
\* that was current did not match (find and findAll of the searchers).
THEOREM Superseded == Spec => []SupersededOnlyByMismatch
<1>1. ASSUME TypeOK PROVE SupersededOnlyByMismatch
  <2> SUFFICES ASSUME NEW t \in 0 .. now, NEW F \in SUBSET rows, NEW c \in FindAll(F, t),
                      ~c.deleted, c \notin AsOf(rows, c.id, t),
                      NEW d \in AsOf(rows, c.id, t), d \in F, InTime(d, t)
               PROVE  FALSE
    BY DEF SupersededOnlyByMismatch
  <2>1. t \in Nat /\ \A q \in rows : q \in Row /\ q.at \in Nat
    BY <1>1 DEF TypeOK, Row
  <2>2. d \in Live(rows, c.id) /\ \A q \in Live(rows, c.id) : q.at <= t => q.at <= d.at
    BY DEF AsOf, Newest
  <2>3. c \in AllRows(F, t) /\ \A q \in AllRows(F, t) : q.id = c.id => q.at <= c.at
    BY FoundIsNewest DEF FindAll
  <2>4. c \in rows /\ c.at <= t
    BY <2>1, <2>3, InTimeBound DEF AllRows
  <2>5. d.at <= c.at
    BY <2>2, <2>3 DEF AllRows, AllSeen, Live
  <2>6. c \in {q \in Live(rows, c.id) : q.at <= t}
    BY <2>4 DEF Live
  <2>7. \A q \in {q \in Live(rows, c.id) : q.at <= t} : q.at <= c.at
    BY <2>1, <2>2, <2>4, <2>5 DEF Live
  <2> QED BY <2>6, <2>7 DEF AsOf, Newest
<1> QED BY <1>1, TypeCorrect, PTL

\* Where one clock stamps the versions and bounds the searches: a search by id
\* returns every answered version or a newer one, except, where the bound is
\* strict, a version of the same millisecond (vector, getTimestamp).
THEOREM SearchesFind == MaxLag = 0 => (Spec => []SearchesFindAnsweredWrites)
<1> SUFFICES ASSUME MaxLag = 0 PROVE Spec => []SearchesFindAnsweredWrites
  OBVIOUS
<1>1. ASSUME IInv PROVE SearchesFindAnsweredWrites
  <2> SUFFICES ASSUME NEW q \in rows, ~q.deleted, StrictSearch => q.at < appNow
               PROVE  \E c \in FindAll({p \in rows : p.id = q.id}, appNow) : c.at >= q.at
    BY DEF SearchesFindAnsweredWrites
  <2> DEFINE F == {p \in rows : p.id = q.id}
             S == AllRows(F, appNow)
  <2>1. appNow = now /\ now \in Nat /\ \A p \in rows : p.at \in Nat /\ p.at <= now
    BY <1>1 DEF IInv, ClockInv, TypeOK, Row
  <2>2. q \in S
    BY <2>1 DEF AllRows, AllSeen, InTime
  <2>3. \A p \in S : p \in rows /\ p.id = q.id
    BY DEF AllRows
  <2>4. FindAll(F, appNow) = Newest(S)
    BY <2>3, OneDocument DEF FindAll
  <2> HIDE DEF F, S
  <2>5. Newest(S) # {}
    BY <2>1, <2>2, <2>3, NewestExists
  <2>6. PICK c \in Newest(S) : TRUE
    BY <2>5
  <2>7. c.at >= q.at
    BY <2>1, <2>2, <2>3, <2>6 DEF Newest
  <2> QED BY <2>4, <2>6, <2>7 DEF F
<1> QED BY <1>1, Invariance, PTL
=============================================================================
