----------------------------- MODULE ProofLemmas -----------------------------
(***************************************************************************)
(* Facts about sequences used as queues and about finite sets that the     *)
(* proofs of several components need.                                      *)
(***************************************************************************)
EXTENDS Integers, Sequences, FiniteSetTheorems, SequenceTheorems, TLAPS

(***************************************************************************)
(* Queues.                                                                 *)
(***************************************************************************)

\* The queue q holds the event e.
Holds(q, e) == \E i \in 1 .. Len(q) : q[i] = e

\* The queue q holds the event e at most once.
Unique(q, e) == \A i, j \in 1 .. Len(q) : q[i] = e /\ q[j] = e => i = j

\* Behind every e in q there is an f.
Followed(q, e, f) ==
    \A i \in 1 .. Len(q) : q[i] = e => \E j \in i + 1 .. Len(q) : q[j] = f

\* Every e in q is behind every f in q.
Behind(q, e, f) == \A i, j \in 1 .. Len(q) : q[i] = e /\ q[j] = f => j < i

\* What an empty queue holds.
LEMMA EmptyQueue ==
    ASSUME NEW e, NEW f
    PROVE  /\ ~Holds(<< >>, e)
           /\ Unique(<< >>, e)
           /\ Followed(<< >>, e, f)
BY DEF Holds, Unique, Followed

\* An event is put at the end of a queue.
LEMMA PutFacts ==
    ASSUME NEW T, NEW q \in Seq(T), NEW x \in T
    PROVE  /\ Append(q, x) \in Seq(T)
           /\ \A e : Holds(Append(q, x), e) <=> Holds(q, e) \/ e = x
           /\ \A e : Unique(q, e) /\ (e = x => ~Holds(q, e)) => Unique(Append(q, x), e)
           /\ \A e, f : Followed(q, e, f) /\ e # x => Followed(Append(q, x), e, f)
           /\ \A e : e # x => Followed(Append(q, x), e, x)
<1> DEFINE r == Append(q, x)
<1>1. /\ r \in Seq(T) /\ Len(q) \in Nat /\ Len(r) = Len(q) + 1
      /\ \A i \in 1 .. Len(q) : r[i] = q[i]
      /\ r[Len(q) + 1] = x
  BY AppendProperties, LenProperties
<1> HIDE DEF r
<1>2. \A e : Holds(r, e) <=> Holds(q, e) \/ e = x
  <2> TAKE e
  <2>1. ASSUME Holds(q, e) PROVE Holds(r, e)
    <3>1. PICK i \in 1 .. Len(q) : q[i] = e
      BY <2>1 DEF Holds
    <3>2. i \in 1 .. Len(r) /\ r[i] = e
      BY <3>1, <1>1
    <3>3. QED
      BY <3>2 DEF Holds
  <2>2. ASSUME e = x PROVE Holds(r, e)
    <3>1. Len(q) + 1 \in 1 .. Len(r) /\ r[Len(q) + 1] = e
      BY <2>2, <1>1
    <3>2. QED
      BY <3>1 DEF Holds
  <2>3. ASSUME Holds(r, e) PROVE Holds(q, e) \/ e = x
    <3>1. PICK i \in 1 .. Len(r) : r[i] = e
      BY <2>3 DEF Holds
    <3>2. i \in 1 .. Len(q) \/ i = Len(q) + 1
      BY <3>1, <1>1
    <3>3. QED
      BY <3>1, <3>2, <1>1 DEF Holds
  <2>4. QED
    BY <2>1, <2>2, <2>3
<1>3. ASSUME NEW e, Unique(q, e), e = x => ~Holds(q, e)
      PROVE  Unique(r, e)
  <2> SUFFICES ASSUME NEW i \in 1 .. Len(r), NEW j \in 1 .. Len(r), r[i] = e, r[j] = e
               PROVE  i = j
    BY DEF Unique
  <2>1. (i \in 1 .. Len(q) \/ i = Len(q) + 1) /\ (j \in 1 .. Len(q) \/ j = Len(q) + 1)
    BY <1>1
  <2>2. CASE i \in 1 .. Len(q) /\ j \in 1 .. Len(q)
    BY <2>2, <1>1, <1>3 DEF Unique
  <2>3. CASE i \in 1 .. Len(q) /\ j = Len(q) + 1
    BY <2>3, <1>1, <1>3 DEF Holds
  <2>4. CASE j \in 1 .. Len(q) /\ i = Len(q) + 1
    BY <2>4, <1>1, <1>3 DEF Holds
  <2>5. QED
    BY <2>1, <2>2, <2>3, <2>4
<1>4. ASSUME NEW e, NEW f, Followed(q, e, f), e # x
      PROVE  Followed(r, e, f)
  <2> SUFFICES ASSUME NEW i \in 1 .. Len(r), r[i] = e
               PROVE  \E j \in i + 1 .. Len(r) : r[j] = f
    BY DEF Followed
  <2>1. i \in 1 .. Len(q) /\ q[i] = e
    BY <1>1, <1>4
  <2>2. PICK j \in i + 1 .. Len(q) : q[j] = f
    BY <2>1, <1>4 DEF Followed
  <2>3. j \in i + 1 .. Len(r) /\ r[j] = f
    BY <2>1, <2>2, <1>1
  <2>4. QED
    BY <2>3
<1>5. ASSUME NEW e, e # x
      PROVE  Followed(r, e, x)
  <2> SUFFICES ASSUME NEW i \in 1 .. Len(r), r[i] = e
               PROVE  \E j \in i + 1 .. Len(r) : r[j] = x
    BY DEF Followed
  <2>1. Len(q) + 1 \in i + 1 .. Len(r) /\ r[Len(q) + 1] = x
    BY <1>1, <1>5
  <2>2. QED
    BY <2>1
<1>6. QED
  BY <1>1, <1>2, <1>3, <1>4, <1>5 DEF r

\* The first event of a queue is taken.
LEMMA TakeFacts ==
    ASSUME NEW T, NEW q \in Seq(T), q # << >>
    PROVE  /\ Head(q) \in T /\ Tail(q) \in Seq(T)
           /\ Holds(q, Head(q))
           /\ \A e : Holds(Tail(q), e) => Holds(q, e)
           /\ \A e : Holds(q, e) => Holds(Tail(q), e) \/ e = Head(q)
           /\ \A e : Unique(q, e) => Unique(Tail(q), e)
           /\ Unique(q, Head(q)) => ~Holds(Tail(q), Head(q))
           /\ \A e, f : Followed(q, e, f) => Followed(Tail(q), e, f)
           /\ \A f : Followed(q, Head(q), f) => Holds(Tail(q), f)
<1> DEFINE t == Tail(q)
<1>1. /\ Head(q) \in T /\ Head(q) = q[1] /\ t \in Seq(T)
      /\ Len(q) \in Nat /\ Len(q) > 0 /\ Len(t) = Len(q) - 1
      /\ \A i \in 1 .. Len(t) : t[i] = q[i + 1]
  BY HeadTailProperties, LenProperties
<1> HIDE DEF t
<1>2. Holds(q, Head(q))
  BY <1>1 DEF Holds
<1>3. ASSUME NEW e, Holds(t, e) PROVE Holds(q, e)
  <2>1. PICK i \in 1 .. Len(t) : t[i] = e
    BY <1>3 DEF Holds
  <2>2. i + 1 \in 1 .. Len(q) /\ q[i + 1] = e
    BY <2>1, <1>1
  <2>3. QED
    BY <2>2 DEF Holds
<1>4. ASSUME NEW e, Holds(q, e), e # Head(q) PROVE Holds(t, e)
  <2>1. PICK i \in 1 .. Len(q) : q[i] = e
    BY <1>4 DEF Holds
  <2>2. i - 1 \in 1 .. Len(t) /\ t[i - 1] = q[(i - 1) + 1] /\ (i - 1) + 1 = i
    BY <2>1, <1>1, <1>4
  <2>3. QED
    BY <2>1, <2>2 DEF Holds
<1>5. ASSUME NEW e, Unique(q, e) PROVE Unique(t, e)
  <2> SUFFICES ASSUME NEW i \in 1 .. Len(t), NEW j \in 1 .. Len(t), t[i] = e, t[j] = e
               PROVE  i = j
    BY DEF Unique
  <2>1. i + 1 \in 1 .. Len(q) /\ j + 1 \in 1 .. Len(q) /\ q[i + 1] = e /\ q[j + 1] = e
    BY <1>1
  <2>2. i + 1 = j + 1
    BY <2>1, <1>5 DEF Unique
  <2>3. QED
    BY <2>2
<1>6. ASSUME Unique(q, Head(q)), Holds(t, Head(q)) PROVE FALSE
  <2>1. PICK i \in 1 .. Len(t) : t[i] = Head(q)
    BY <1>6 DEF Holds
  <2>2. i + 1 \in 1 .. Len(q) /\ 1 \in 1 .. Len(q) /\ q[i + 1] = Head(q) /\ q[1] = Head(q)
    BY <2>1, <1>1
  <2>3. i + 1 = 1
    BY <2>2, <1>6 DEF Unique
  <2>4. QED
    BY <2>3, <2>1
<1>7. ASSUME NEW e, NEW f, Followed(q, e, f) PROVE Followed(t, e, f)
  <2> SUFFICES ASSUME NEW i \in 1 .. Len(t), t[i] = e
               PROVE  \E j \in i + 1 .. Len(t) : t[j] = f
    BY DEF Followed
  <2>1. i + 1 \in 1 .. Len(q) /\ q[i + 1] = e
    BY <1>1
  <2>2. PICK j \in (i + 1) + 1 .. Len(q) : q[j] = f
    BY <2>1, <1>7 DEF Followed
  <2>3. j - 1 \in i + 1 .. Len(t) /\ t[j - 1] = q[(j - 1) + 1] /\ (j - 1) + 1 = j
    BY <2>2, <1>1
  <2>4. QED
    BY <2>2, <2>3
<1>8. ASSUME NEW f, Followed(q, Head(q), f) PROVE Holds(t, f)
  <2>1. 1 \in 1 .. Len(q) /\ q[1] = Head(q)
    BY <1>1
  <2>2. PICK j \in 1 + 1 .. Len(q) : q[j] = f
    BY <2>1, <1>8 DEF Followed
  <2>3. j - 1 \in 1 .. Len(t) /\ t[j - 1] = q[(j - 1) + 1] /\ (j - 1) + 1 = j
    BY <2>2, <1>1
  <2>4. QED
    BY <2>2, <2>3 DEF Holds
<1>9. QED
  BY <1>1, <1>2, <1>3, <1>4, <1>5, <1>6, <1>7, <1>8 DEF t

\* The order of events when one is put in or taken from a queue.
LEMMA BehindFacts ==
    ASSUME NEW T, NEW q \in Seq(T), NEW e, NEW f, e # f
    PROVE  /\ \A x \in T : Behind(q, e, f) /\ (x = f => ~Holds(q, e)) => Behind(Append(q, x), e, f)
           /\ q # << >> /\ Behind(q, e, f) => Behind(Tail(q), e, f)
           /\ q # << >> /\ Behind(q, e, f) /\ Head(q) = e => ~Holds(q, f)
<1>1. ASSUME NEW x \in T, Behind(q, e, f), x = f => ~Holds(q, e) PROVE Behind(Append(q, x), e, f)
  <2> DEFINE r == Append(q, x)
  <2>1. /\ Len(q) \in Nat /\ Len(r) = Len(q) + 1
        /\ \A i \in 1 .. Len(q) : r[i] = q[i]
        /\ r[Len(q) + 1] = x
    BY AppendProperties, LenProperties
  <2> HIDE DEF r
  <2>2. SUFFICES ASSUME NEW i \in 1 .. Len(r), NEW j \in 1 .. Len(r), r[i] = e, r[j] = f
                 PROVE  j < i
    BY DEF Behind, r
  <2>3. CASE i = Len(q) + 1
    BY <2>1, <2>2, <2>3
  <2>4. CASE i # Len(q) + 1
    <3>1. i \in 1 .. Len(q) /\ q[i] = e
      BY <2>1, <2>2, <2>4
    <3>2. j \in 1 .. Len(q) /\ q[j] = f
      BY <1>1, <2>1, <2>2, <3>1 DEF Holds
    <3>3. QED
      BY <1>1, <3>1, <3>2 DEF Behind
  <2>5. QED
    BY <2>3, <2>4
<1>2. ASSUME q # << >>, Behind(q, e, f) PROVE Behind(Tail(q), e, f)
  <2> DEFINE t == Tail(q)
  <2>1. /\ Len(q) \in Nat /\ Len(q) > 0 /\ Len(t) = Len(q) - 1
        /\ \A i \in 1 .. Len(t) : t[i] = q[i + 1]
    BY <1>2, HeadTailProperties, LenProperties
  <2> HIDE DEF t
  <2>2. SUFFICES ASSUME NEW i \in 1 .. Len(t), NEW j \in 1 .. Len(t), t[i] = e, t[j] = f
                 PROVE  j < i
    BY DEF Behind, t
  <2>3. i + 1 \in 1 .. Len(q) /\ j + 1 \in 1 .. Len(q) /\ q[i + 1] = e /\ q[j + 1] = f
    BY <2>1, <2>2
  <2>4. j + 1 < i + 1
    BY <1>2, <2>3 DEF Behind
  <2>5. QED
    BY <2>4
<1>3. ASSUME q # << >>, Behind(q, e, f), Head(q) = e, Holds(q, f) PROVE FALSE
  <2>1. PICK j \in 1 .. Len(q) : q[j] = f
    BY <1>3 DEF Holds
  <2>2. 1 \in 1 .. Len(q) /\ q[1] = e
    BY <1>3, HeadTailProperties, LenProperties
  <2>3. j < 1
    BY <1>3, <2>1, <2>2 DEF Behind
  <2>4. QED
    BY <2>1, <2>3
<1>4. QED
  BY <1>1, <1>2, <1>3

-----------------------------------------------------------------------------
(***************************************************************************)
(* Finite sets.  The library's induction theorems cannot be instantiated,  *)
(* so the argument takes a minimal counterexample instead.                 *)
(***************************************************************************)

\* A non-empty finite set of integers has a largest element.
LEMMA MaxExists ==
    ASSUME NEW S \in SUBSET Int, IsFiniteSet(S), S # {}
    PROVE  \E x \in S : \A y \in S : x >= y
<1> DEFINE NoMax == {T \in FiniteSubsetsOf(S) :
                       T # {} /\ \A x \in T : \E y \in T : ~(x >= y)}
<1> SUFFICES ASSUME S \in NoMax PROVE FALSE
  BY DEF FiniteSubsetsOf
<1>1. PICK T \in NoMax : \A U \in NoMax : <<U, T>> \notin StrictSubsetOrdering(S)
  BY FS_StrictSubsetOrderingWellFounded, WFMin
<1>2. T \subseteq S /\ IsFiniteSet(T) /\ T # {} /\ \A x \in T : \E y \in T : ~(x >= y)
  BY DEF FiniteSubsetsOf
<1>3. PICK x \in T : TRUE
  BY <1>2
<1> DEFINE U == T \ {x}
<1>4. IsFiniteSet(U) /\ U \subseteq S
  BY <1>2, FS_RemoveElement
<1>5. <<U, T>> \in StrictSubsetOrdering(S)
  BY <1>2, <1>3 DEF StrictSubsetOrdering
<1>6. U \notin NoMax
  BY <1>1, <1>5
<1>7. CASE U = {}
  BY <1>7, <1>2, <1>3
<1>8. CASE U # {}
  <2>1. PICK m \in U : \A y \in U : m >= y
    BY <1>4, <1>6, <1>8 DEF FiniteSubsetsOf
  <2>2. m \in Int /\ x \in Int /\ T \subseteq Int /\ m \in T /\ \A y \in T : y = x \/ m >= y
    BY <1>2, <1>3, <2>1
  <2>3. PICK z \in T : ~(m >= z)
    BY <1>2, <2>2
  <2>4. PICK y \in T : ~(x >= y)
    BY <1>2, <1>3
  <2>5. z = x /\ m >= y
    BY <2>2, <2>3, <2>4
  <2>6. QED
    BY <2>2, <2>3, <2>4, <2>5
<1>9. QED
  BY <1>7, <1>8

\* A non-empty finite set has a least element in a strict total order R.
LEMMA LeastExists ==
    ASSUME NEW S, IsFiniteSet(S), S # {}, NEW R,
           \A x, y \in S : x # y => <<x, y>> \in R \/ <<y, x>> \in R,
           \A x, y, z \in S : <<x, y>> \in R /\ <<y, z>> \in R => <<x, z>> \in R
    PROVE  \E x \in S : \A y \in S \ {x} : <<x, y>> \in R
<1> DEFINE None == {T \in FiniteSubsetsOf(S) :
                      T # {} /\ \A x \in T : \E y \in T \ {x} : <<x, y>> \notin R}
<1> SUFFICES ASSUME S \in None PROVE FALSE
  BY DEF FiniteSubsetsOf
<1>1. PICK T \in None : \A U \in None : <<U, T>> \notin StrictSubsetOrdering(S)
  <2>1. None \subseteq FiniteSubsetsOf(S) /\ None # {}
    OBVIOUS
  <2>2. IsWellFoundedOn(StrictSubsetOrdering(S), FiniteSubsetsOf(S))
    BY FS_StrictSubsetOrderingWellFounded
  <2> HIDE DEF None
  <2>3. QED
    BY <2>1, <2>2, WFMin
<1>2. T \subseteq S /\ IsFiniteSet(T) /\ T # {} /\ \A x \in T : \E y \in T \ {x} : <<x, y>> \notin R
  BY DEF FiniteSubsetsOf
<1>3. PICK x \in T : TRUE
  BY <1>2
<1> DEFINE U == T \ {x}
<1>4. IsFiniteSet(U) /\ U \subseteq S
  BY <1>2, FS_RemoveElement
<1>5. <<U, T>> \in StrictSubsetOrdering(S)
  BY <1>2, <1>3 DEF StrictSubsetOrdering
<1>6. U \notin None
  BY <1>1, <1>5
<1>7. CASE U = {}
  BY <1>7, <1>2, <1>3
<1>8. CASE U # {}
  <2>1. PICK m \in U : \A y \in U \ {m} : <<m, y>> \in R
    BY <1>4, <1>6, <1>8 DEF FiniteSubsetsOf
  <2>2. m \in S /\ x \in S /\ m # x /\ m \in T
    BY <1>2, <1>3, <2>1
  <2>3. CASE <<m, x>> \in R
    BY <1>2, <2>1, <2>2, <2>3
  <2>4. CASE <<x, m>> \in R
    <3>1. \A y \in T \ {x} : <<x, y>> \in R
      BY <1>2, <2>1, <2>2, <2>4
    <3>2. QED
      BY <1>2, <1>3, <3>1
  <2>5. QED
    BY <2>2, <2>3, <2>4
<1>9. QED
  BY <1>7, <1>8

\* Sets that a bijection relates have the same size.
LEMMA SameSize ==
    ASSUME NEW S, NEW T, IsFiniteSet(S), NEW f \in [S -> T],
           \A x, y \in S : f[x] = f[y] => x = y, \A y \in T : \E x \in S : f[x] = y
    PROVE  IsFiniteSet(T) /\ Cardinality(T) = Cardinality(S)
<1>1. f \in Injection(S, T) /\ f \in Surjection(S, T)
  BY DEF Injection, Surjection, IsInjective
<1>2. QED
  BY <1>1, FS_Surjection

=============================================================================
