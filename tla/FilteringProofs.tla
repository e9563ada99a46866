--------------------------- MODULE FilteringProofs ----------------------------
(***************************************************************************)
(* What Filtering's AllBut() returns, for sequences of any length.         *)
(*                                                                         *)
(* The provers cannot use an induction rule, which has a predicate for its *)
(* parameter.  They can use that the order of the naturals is well         *)
(* founded: every nonempty set of naturals has a least member, and that    *)
(* gives induction for sets of naturals (Induct).                          *)
(***************************************************************************)
EXTENDS Filtering, Functions, SequenceTheorems, WellFoundedInduction, TLAPS

\* The order of the naturals is well founded.
LEMMA Least ==
  ASSUME NEW T \in SUBSET Nat, T # {}
  PROVE  \E x \in T : \A y \in T : x <= y
<1> DEFINE R == {ss \in Nat \X Nat : ss[1] < ss[2]}
<1>0. R = OpToRel(<, Nat)
  BY DEF OpToRel
<1>1. IsWellFoundedOn(R, Nat)
  BY <1>0, NatLessThanWellFounded
<1> HIDE DEF R
<1>2. PICK x \in T : \A y \in T : <<y, x>> \notin R
  BY <1>1, WFMin
<1>3. ASSUME NEW y \in T PROVE x <= y
  <2>1. <<y, x>> \notin R
    BY <1>2
  <2>2. ~(y < x)
    BY <2>1 DEF R
  <2> QED
    BY <2>2
<1> QED
  BY <1>2, <1>3

\* Otherwise the set has a least natural that it lacks.
LEMMA Induct ==
  ASSUME NEW T, 0 \in T, \A n \in Nat : n \in T => n + 1 \in T
  PROVE  Nat \subseteq T
<1> DEFINE C == Nat \ T
<1>1. CASE C # {}
  <2>1. PICK x \in C : \A y \in C : x <= y
    BY <1>1, Least
  <2>2. x # 0 /\ x - 1 \in Nat
    OBVIOUS
  <2>3. x - 1 \notin C
    BY <2>1, <2>2
  <2>4. x - 1 \in T /\ (x - 1) + 1 = x
    BY <2>2, <2>3
  <2> QED
    BY <2>2, <2>4
<1> QED
  BY <1>1

\* What AllBut() puts at i, given what it put before.
Step(f, s, S, i) == IF i = 0 THEN << >>
                    ELSE IF s[i] \in S THEN f[i - 1] ELSE Append(f[i - 1], s[i])

\* The function that AllBut() is defined by exists.
LEMMA LeftExists ==
  ASSUME NEW s, NEW S, NEW n \in Nat
  PROVE  \E f : f = [i \in 0..n |-> Step(f, s, S, i)]
<1> DEFINE T == {m \in Nat : \E f : f = [i \in 0..m |-> Step(f, s, S, i)]}
<1>1. 0 \in T
  <2> DEFINE f == [i \in 0..0 |-> << >>]
  <2>1. f = [i \in 0..0 |-> Step(f, s, S, i)]
    BY DEF Step
  <2> QED
    BY <2>1
<1>2. ASSUME NEW m \in Nat, m \in T
      PROVE  m + 1 \in T
  <2>1. PICK f : f = [i \in 0..m |-> Step(f, s, S, i)]
    BY <1>2
  <2> DEFINE g == [i \in 0..(m + 1) |-> Step(f, s, S, i)]
  <2>2. ASSUME NEW i \in 0..(m + 1)
        PROVE  Step(f, s, S, i) = Step(g, s, S, i)
    <3>1. CASE i = 0
      BY <3>1 DEF Step
    <3>2. CASE i # 0
      <4>1. i - 1 \in 0..m /\ i - 1 \in 0..(m + 1)
        BY <3>2
      <4>2. f[i - 1] = Step(f, s, S, i - 1)
        BY <2>1, <4>1
      <4>3. g[i - 1] = f[i - 1]
        BY <4>1, <4>2
      <4> HIDE DEF g
      <4> QED
        BY <4>3 DEF Step
    <3> QED
      BY <3>1, <3>2
  <2>3. g = [i \in 0..(m + 1) |-> Step(g, s, S, i)]
    BY <2>2
  <2>4. \E h : h = [i \in 0..(m + 1) |-> Step(h, s, S, i)]
    <3> HIDE DEF g
    <3> QED
      BY <2>3
  <2> QED
    BY <2>4
<1> HIDE DEF T
<1>3. Nat \subseteq T
  BY <1>1, <1>2, Induct
<1> QED
  BY <1>3 DEF T

\* So it is there to reason about, position by position.
LEMMA AllButBy ==
  ASSUME NEW A, NEW s \in Seq(A), NEW S
  PROVE  \E f : /\ AllBut(s, S) = f[Len(s)]
                /\ \A i \in 0..Len(s) : f[i] = Step(f, s, S, i)
<1> DEFINE left == CHOOSE f : f = [i \in 0..Len(s) |-> Step(f, s, S, i)]
<1>1. AllBut(s, S) = left[Len(s)]
  BY DEF AllBut, Step
<1>2. left = [i \in 0..Len(s) |-> Step(left, s, S, i)]
  <2>1. Len(s) \in Nat
    OBVIOUS
  <2> QED
    BY <2>1, LeftExists
<1> HIDE DEF left
<1>3. \A i \in 0..Len(s) : left[i] = Step(left, s, S, i)
  BY <1>2
<1> QED
  BY <1>1, <1>3

LEMMA RangeAppend ==
  ASSUME NEW A, NEW s \in Seq(A), NEW x \in A
  PROVE  Range(Append(s, x)) = Range(s) \cup {x}
<1>1. /\ DOMAIN s = 1..Len(s) /\ Len(s) \in Nat
      /\ DOMAIN Append(s, x) = 1..(Len(s) + 1)
      /\ \A i \in 1..Len(s) : Append(s, x)[i] = s[i]
      /\ Append(s, x)[Len(s) + 1] = x
  OBVIOUS
<1>2. 1..(Len(s) + 1) = 1..Len(s) \cup {Len(s) + 1}
  BY <1>1
<1> DEFINE t == Append(s, x)
<1> HIDE DEF t
<1>3. {t[i] : i \in 1..Len(s) \cup {Len(s) + 1}} = {t[i] : i \in 1..Len(s)} \cup {t[Len(s) + 1]}
  OBVIOUS
<1>4. {t[i] : i \in 1..Len(s)} = {s[i] : i \in 1..Len(s)}
  BY <1>1 DEF t
<1> QED
  BY <1>1, <1>2, <1>3, <1>4 DEF Range, t

\* Taking members out keeps the type and leaves all the others.
\* No member of the sequence s comes twice.
Once(s) == \A i, j \in 1..Len(s) : s[i] = s[j] => i = j

LEMMA AppendOnce ==
  ASSUME NEW A, NEW s \in Seq(A), NEW x \in A, Once(s), x \notin Range(s)
  PROVE  Once(Append(s, x))
<1> DEFINE t == Append(s, x)
<1>1. /\ Len(s) \in Nat /\ Len(t) = Len(s) + 1
      /\ \A i \in 1..Len(s) : t[i] = s[i] /\ s[i] # x
      /\ t[Len(s) + 1] = x
  BY DEF Range
<1> HIDE DEF t
<1>2. ASSUME NEW i \in 1..Len(t), NEW j \in 1..Len(t), t[i] = t[j]
      PROVE  i = j
  BY <1>1, <1>2 DEF Once
<1> QED
  BY <1>2 DEF Once, t

LEMMA AllButIs ==
  ASSUME NEW A, NEW s \in Seq(A), NEW S
  PROVE  /\ AllBut(s, S) \in Seq(A)
         /\ Range(AllBut(s, S)) = Range(s) \ S
         /\ Once(s) => Once(AllBut(s, S))
<1>1. PICK left : /\ AllBut(s, S) = left[Len(s)]
                  /\ \A i \in 0..Len(s) : left[i] = Step(left, s, S, i)
  BY AllButBy
<1> DEFINE Done(i) == /\ left[i] \in Seq(A)
                      /\ Range(left[i]) = {s[j] : j \in 1..i} \ S
                      /\ Once(s) => Once(left[i])
           T == {i \in Nat : i <= Len(s) => Done(i)}
<1>2. 0 \in T
  <2>1. left[0] = << >>
    BY <1>1 DEF Step
  <2>2. left[0] \in Seq(A) /\ Range(left[0]) = {}
    BY <2>1 DEF Range
  <2>3. {s[j] : j \in 1..0} = {}
    OBVIOUS
  <2>4. Once(left[0])
    BY <2>1 DEF Once
  <2> QED
    BY <2>2, <2>3, <2>4
<1>3. ASSUME NEW i \in Nat, i \in T
      PROVE  i + 1 \in T
  <2> SUFFICES ASSUME i + 1 <= Len(s)
               PROVE  Done(i + 1)
    OBVIOUS
  <2>1. Done(i)
    BY <1>3
  <2>2. left[i + 1] = IF s[i + 1] \in S THEN left[i] ELSE Append(left[i], s[i + 1])
    <3>1. i + 1 \in 0..Len(s) /\ i + 1 # 0 /\ (i + 1) - 1 = i
      OBVIOUS
    <3>2. left[i + 1] = Step(left, s, S, i + 1)
      BY <1>1, <3>1
    <3> QED
      BY <3>1, <3>2 DEF Step
  <2>3. {s[j] : j \in 1..(i + 1)} = {s[j] : j \in 1..i} \cup {s[i + 1]}
    OBVIOUS
  <2>4. CASE s[i + 1] \in S
    BY <2>1, <2>2, <2>3, <2>4
  <2>5. CASE s[i + 1] \notin S
    <3>1. s[i + 1] \in A
      OBVIOUS
    <3>2. Range(Append(left[i], s[i + 1])) = Range(left[i]) \cup {s[i + 1]}
      BY <2>1, <3>1, RangeAppend
    <3>3. ASSUME Once(s) PROVE Once(left[i + 1])
      <4>1. s[i + 1] \notin {s[j] : j \in 1..i}
        BY <3>3 DEF Once
      <4>2. s[i + 1] \notin Range(left[i])
        BY <2>1, <4>1
      <4> QED
        BY <2>1, <2>2, <2>5, <3>1, <3>3, <4>2, AppendOnce
    <3> HIDE DEF T
    <3>4. left[i + 1] = Append(left[i], s[i + 1])
      BY <2>2, <2>5
    <3>5. left[i + 1] \in Seq(A)
      BY <2>1, <3>1, <3>4
    <3>6. Range(left[i + 1]) = {s[j] : j \in 1..(i + 1)} \ S
      BY <2>1, <2>3, <2>5, <3>2, <3>4
    <3> QED
      BY <3>3, <3>5, <3>6
  <2> QED
    BY <2>4, <2>5
<1>4. Nat \subseteq T
  <2> HIDE DEF T
  <2> QED
    BY <1>2, <1>3, Induct
<1>5. Done(Len(s)) /\ Len(s) \in Nat
  <2>1. Len(s) \in Nat
    OBVIOUS
  <2> HIDE DEF Done
  <2> QED
    BY <1>4, <2>1
<1>6. Range(s) = {s[j] : j \in 1..Len(s)}
  BY DEF Range
<1> QED
  BY <1>1, <1>5, <1>6

LEMMA EmptyRange ==
  ASSUME NEW A, NEW s \in Seq(A)
  PROVE  Len(s) = 0 <=> Range(s) = {}
<1>1. Len(s) # 0 => 1 \in DOMAIN s
  OBVIOUS
<1>2. Len(s) = 0 => DOMAIN s = {}
  OBVIOUS
<1> QED
  BY <1>1, <1>2 DEF Range

\* A sequence without its last element.
LEMMA FrontIs ==
  ASSUME NEW A, NEW s \in Seq(A), s # << >>
  PROVE  LET front == SubSeq(s, 1, Len(s) - 1)
         IN /\ front \in Seq(A)
            /\ Len(front) = Len(s) - 1
            /\ \A i \in 1..(Len(s) - 1) : front[i] = s[i]
<1> DEFINE n == Len(s) - 1
<1>1. Len(s) \in Nat /\ n \in Nat /\ 1 \in Int /\ n \in Int
  OBVIOUS
<1>2. \A i \in 1..n : s[i] \in A
  BY <1>1
<1>3. /\ SubSeq(s, 1, n) \in Seq(A)
      /\ Len(SubSeq(s, 1, n)) = IF 1 <= n THEN n - 1 + 1 ELSE 0
      /\ \A i \in 1..(n - 1 + 1) : SubSeq(s, 1, n)[i] = s[1 + i - 1]
  BY <1>1, <1>2, SubSeqProperties
<1>4. n - 1 + 1 = n /\ \A i \in 1..n : 1 + i - 1 = i
  BY <1>1
<1> HIDE DEF n
<1> QED
  BY <1>1, <1>3, <1>4 DEF n

\* The last element is left out, or comes after what is left of those before it.
LEMMA AllButLast ==
  ASSUME NEW A, NEW s \in Seq(A), s # << >>, NEW S
  PROVE  LET front == SubSeq(s, 1, Len(s) - 1)
             last  == s[Len(s)]
         IN AllBut(s, S) = IF last \in S THEN AllBut(front, S)
                           ELSE Append(AllBut(front, S), last)
<1> DEFINE n == Len(s) - 1
           t == SubSeq(s, 1, n)
<1>1. /\ Len(s) \in Nat /\ n \in Nat /\ n + 1 = Len(s)
      /\ t \in Seq(A) /\ Len(t) = n
      /\ \A i \in 1..n : t[i] = s[i]
  BY SMTT(30)
<1> HIDE DEF t
<1>2. PICK f : /\ AllBut(t, S) = f[n]
               /\ \A i \in 0..n : f[i] = Step(f, t, S, i)
  BY <1>1, AllButBy
<1>3. PICK g : /\ AllBut(s, S) = g[Len(s)]
               /\ \A i \in 0..Len(s) : g[i] = Step(g, s, S, i)
  BY AllButBy
<1> HIDE DEF n
<1> DEFINE T == {i \in Nat : i <= n => f[i] = g[i]}
<1>4. 0 \in T
  BY <1>1, <1>2, <1>3 DEF Step
<1>5. ASSUME NEW i \in Nat, i \in T
      PROVE  i + 1 \in T
  <2> SUFFICES ASSUME i + 1 <= n
               PROVE  f[i + 1] = g[i + 1]
    OBVIOUS
  <2>1. /\ i + 1 \in 0..n /\ i + 1 \in 1..n /\ i + 1 \in 0..Len(s)
        /\ i + 1 # 0 /\ (i + 1) - 1 = i /\ i <= n
    BY <1>1
  <2>2. f[i] = g[i] /\ t[i + 1] = s[i + 1]
    BY <1>1, <1>5, <2>1
  <2>3. f[i + 1] = Step(f, t, S, i + 1) /\ g[i + 1] = Step(g, s, S, i + 1)
    BY <1>2, <1>3, <2>1
  <2> QED
    BY <2>1, <2>2, <2>3 DEF Step
<1>6. Nat \subseteq T
  <2> HIDE DEF T
  <2> QED
    BY <1>4, <1>5, Induct
<1>7. f[n] = g[n]
  BY <1>1, <1>6
<1>8. g[Len(s)] = IF s[Len(s)] \in S THEN g[n] ELSE Append(g[n], s[Len(s)])
  <2>1. Len(s) \in 0..Len(s) /\ Len(s) # 0 /\ Len(s) - 1 = n
    BY <1>1
  <2>2. g[Len(s)] = Step(g, s, S, Len(s))
    BY <1>3, <2>1
  <2> QED
    BY <2>1, <2>2 DEF Step
<1> QED
  BY <1>2, <1>3, <1>7, <1>8 DEF t, n

\* If the last element stays it is the last of the rest.
LEMMA LastStays ==
  ASSUME NEW A, NEW s \in Seq(A), s # << >>, NEW S, s[Len(s)] \notin S
  PROVE  /\ Len(AllBut(s, S)) >= 1
         /\ AllBut(s, S)[Len(AllBut(s, S))] = s[Len(s)]
         /\ Len(AllBut(s, S)) = Len(AllBut(SubSeq(s, 1, Len(s) - 1), S)) + 1
<1> DEFINE front == SubSeq(s, 1, Len(s) - 1)
<1>1. front \in Seq(A)
  OBVIOUS
<1>2. AllBut(front, S) \in Seq(A) /\ AllBut(s, S) = Append(AllBut(front, S), s[Len(s)])
  BY <1>1, AllButIs, AllButLast
<1> QED
  BY <1>2

\* If the last two stay they are the last two of the rest.
LEMMA LastTwoStay ==
  ASSUME NEW A, NEW s \in Seq(A), Len(s) >= 2, NEW S,
         s[Len(s)] \notin S, s[Len(s) - 1] \notin S
  PROVE  /\ Len(AllBut(s, S)) >= 2
         /\ AllBut(s, S)[Len(AllBut(s, S))] = s[Len(s)]
         /\ AllBut(s, S)[Len(AllBut(s, S)) - 1] = s[Len(s) - 1]
<1> DEFINE front == SubSeq(s, 1, Len(s) - 1)
<1>1. /\ front \in Seq(A) /\ front # << >> /\ Len(front) = Len(s) - 1
      /\ front[Len(front)] = s[Len(s) - 1]
  <2>1. front \in Seq(A) /\ Len(front) = Len(s) - 1
    OBVIOUS
  <2>2. Len(s) - 1 \in 1..(Len(s) - 1)
    OBVIOUS
  <2>3. front[Len(s) - 1] = s[Len(s) - 1]
    BY <2>2
  <2> HIDE DEF front
  <2> QED
    BY <2>1, <2>3
<1>2. AllBut(front, S) \in Seq(A) /\ AllBut(s, S) = Append(AllBut(front, S), s[Len(s)])
  <2>1. s # << >>
    OBVIOUS
  <2>2. AllBut(s, S) = Append(AllBut(front, S), s[Len(s)])
    BY <2>1, AllButLast
  <2> HIDE DEF front
  <2> QED
    BY <1>1, <2>2, AllButIs
<1>3. /\ Len(AllBut(front, S)) >= 1
      /\ AllBut(front, S)[Len(AllBut(front, S))] = s[Len(s) - 1]
  <2> HIDE DEF front
  <2> QED
    BY <1>1, LastStays
<1> QED
  BY <1>2, <1>3

\* If no other stays it is alone.
LEMMA LastAlone ==
  ASSUME NEW A, NEW s \in Seq(A), s # << >>, NEW S, s[Len(s)] \notin S,
         \A i \in 1..(Len(s) - 1) : s[i] \in S
  PROVE  Len(AllBut(s, S)) = 1
<1> DEFINE front == SubSeq(s, 1, Len(s) - 1)
<1>1. /\ front \in Seq(A)
      /\ \A i \in DOMAIN front : front[i] \in S
  OBVIOUS
<1>2. AllBut(front, S) \in Seq(A) /\ Range(AllBut(front, S)) = {}
  <2>1. Range(front) \ S = {}
    BY <1>1 DEF Range
  <2> HIDE DEF front
  <2> QED
    BY <1>1, <2>1, AllButIs
<1>3. Len(AllBut(front, S)) = 0
  BY <1>2, EmptyRange
<1>4. Len(AllBut(s, S)) = Len(AllBut(front, S)) + 1
  BY LastStays
<1> QED
  BY <1>3, <1>4
=============================================================================
