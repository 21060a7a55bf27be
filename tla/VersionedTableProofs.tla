------------------------ MODULE VersionedTableProofs ------------------------
(***************************************************************************)
(* Facts about the queries of VersionedTable, for any table.               *)
(***************************************************************************)
EXTENDS VersionedTable, FiniteSetTheorems, TLAPS

\* A query over versions stamped no later than some bound has an answer unless
\* nothing matches, and the answer is stamped no earlier than any match: the
\* first row of ORDER BY created_at DESC exists.
THEOREM NewestExists ==
    ASSUME NEW S, NEW bound \in Nat,
           \A q \in S : q.at \in Nat /\ q.at <= bound,
           S # {}
    PROVE  Newest(S) # {}
<1> DEFINE Above(q) == (q.at + 1) .. bound
           T == {Above(q) : q \in S}
           R == StrictSubsetOrdering(Nat)
<1>1. IsWellFoundedOn(R, FiniteSubsetsOf(Nat))
  BY FS_StrictSubsetOrderingWellFounded
<1>2. T \subseteq FiniteSubsetsOf(Nat) /\ T # {}
  <2> SUFFICES ASSUME NEW q \in S PROVE Above(q) \in FiniteSubsetsOf(Nat)
    OBVIOUS
  <2>1. IsFiniteSet(Above(q))
    BY FS_Interval
  <2> QED BY <2>1 DEF FiniteSubsetsOf
<1>3. PICK x \in T : \A y \in T : ~(<<y, x>> \in R)
  <2> HIDE DEF T, R
  <2> QED BY <1>1, <1>2, WFMin
<1>4. PICK q \in S : x = Above(q)
  OBVIOUS
<1>5. \A p \in S : p.at <= q.at
  <2> SUFFICES ASSUME NEW p \in S, ~(p.at <= q.at) PROVE FALSE
    OBVIOUS
  <2>1. Above(p) \subseteq Above(q) /\ Above(p) # Above(q)
    <3>1. p.at \in Above(q) /\ p.at \notin Above(p)
      OBVIOUS
    <3> QED BY <3>1
  <2>2. <<Above(p), x>> \in R
    BY <1>4, <2>1 DEF StrictSubsetOrdering
  <2> QED BY <1>3, <2>2
<1> QED BY <1>5 DEF Newest
=============================================================================
