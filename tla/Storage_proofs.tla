---------------------------- MODULE Storage_proofs ----------------------------
(* What keeps a session file: the lease that lets one process write it, for*)
(* every set of processes and of acquire() calls, and the writer, for every*)
(* number of flushes, lines, rewrites and faults.                          *)
EXTENDS
  WriteLease, DurableWriter, FiniteSetTheorems, SequenceTheorems, WellFoundedInduction, TLAPS

USE BoundsAssumption

-----------------------------------------------------------------------------
(* Induction over numbers, without a predicate as a parameter: a set of    *)
(* numbers that is not empty has a least one.                              *)
LEMMA LeastNumber ==
  ASSUME NEW S, S \subseteq Nat, S # {}
  PROVE  \E x \in S : \A y \in S : x <= y
<1> DEFINE R == {p \in Nat \X Nat : p[1] < p[2]}
<1>1. IsWellFoundedOn(R, Nat)
  BY NatLessThanWellFounded DEF OpToRel
<1>2. PICK x \in S : \A y \in S : <<y, x>> \notin R
  <2> HIDE DEF R
  <2> QED  BY <1>1, WFMin
<1>3. ASSUME NEW y \in S PROVE x <= y
  <2>1. x \in Nat /\ y \in Nat  OBVIOUS
  <2>2. y < x => <<y, x>> \in R  BY <2>1
  <2> HIDE DEF R
  <2> QED  BY <1>2, <2>1, <2>2
<1> QED  BY <1>3

(* The lines in a sequence, however it is made.                            *)
LEMMA LinesOf ==
  ASSUME NEW T, NEW s \in Seq(T)
  PROVE  /\ ToSet(s) = {s[i] : i \in 1..Len(s)} /\ ToSet(s) \subseteq T
         /\ \A t \in Seq(T) : s \o t \in Seq(T) /\ ToSet(s \o t) = ToSet(s) \cup ToSet(t)
         /\ \A e \in T : Append(s, e) \in Seq(T) /\ ToSet(Append(s, e)) = ToSet(s) \cup {e}
         /\ ToSet(<<>>) = {}
         /\ s # <<>> => ToSet(Tail(s)) \subseteq ToSet(s)
<1>1. DOMAIN s = 1..Len(s) /\ Len(s) \in Nat  BY LenProperties
<1>2. ToSet(s) = {s[i] : i \in 1..Len(s)} /\ ToSet(s) \subseteq T
  BY <1>1 DEF ToSet
<1>3. ASSUME NEW t \in Seq(T)
      PROVE  s \o t \in Seq(T) /\ ToSet(s \o t) = ToSet(s) \cup ToSet(t)
  <2>1. DOMAIN t = 1..Len(t) /\ Len(t) \in Nat  BY LenProperties
  <2>2. /\ s \o t \in Seq(T) /\ Len(s \o t) = Len(s) + Len(t)
        /\ \A i \in 1..Len(s) + Len(t) : (s \o t)[i] = IF i <= Len(s) THEN s[i] ELSE t[i - Len(s)]
    BY ConcatProperties
  <2>3. DOMAIN (s \o t) = 1..Len(s) + Len(t)  BY <2>2, LenProperties
  <2>4. ASSUME NEW i \in 1..Len(s) + Len(t) PROVE (s \o t)[i] \in ToSet(s) \cup ToSet(t)
    BY <1>1, <2>1, <2>2 DEF ToSet
  <2>5. ASSUME NEW i \in 1..Len(s) PROVE s[i] \in ToSet(s \o t)
    BY <1>1, <2>1, <2>2, <2>3 DEF ToSet
  <2>6. ASSUME NEW i \in 1..Len(t) PROVE t[i] \in ToSet(s \o t)
    <3>1. Len(s) + i \in 1..Len(s) + Len(t) /\ (s \o t)[Len(s) + i] = t[i]
      BY <1>1, <2>1, <2>2
    <3> QED  BY <2>3, <3>1 DEF ToSet
  <2> QED  BY <1>1, <2>1, <2>2, <2>3, <2>4, <2>5, <2>6 DEF ToSet
<1>4. ASSUME NEW e \in T
      PROVE  Append(s, e) \in Seq(T) /\ ToSet(Append(s, e)) = ToSet(s) \cup {e}
  <2>1. /\ Append(s, e) \in Seq(T) /\ Len(Append(s, e)) = Len(s) + 1
        /\ \A i \in 1..Len(s) : Append(s, e)[i] = s[i]
        /\ Append(s, e)[Len(s) + 1] = e
    BY AppendProperties
  <2>2. DOMAIN Append(s, e) = 1..Len(s) + 1  BY <2>1, LenProperties
  <2> QED  BY <1>1, <2>1, <2>2 DEF ToSet
<1>5. ToSet(<<>>) = {}  BY DEF ToSet
<1>6. s # <<>> => ToSet(Tail(s)) \subseteq ToSet(s)
  <2> SUFFICES ASSUME s # <<>> PROVE ToSet(Tail(s)) \subseteq ToSet(s)  OBVIOUS
  <2>1. /\ Tail(s) \in Seq(T) /\ Len(Tail(s)) = Len(s) - 1
        /\ \A i \in 1..Len(Tail(s)) : Tail(s)[i] = s[i + 1]
    BY HeadTailProperties
  <2>2. DOMAIN Tail(s) = 1..Len(s) - 1  BY <2>1, LenProperties
  <2> QED  BY <1>1, <2>1, <2>2 DEF ToSet
<1> QED  BY <1>2, <1>3, <1>4, <1>5, <1>6

LEMMA ConcatLines ==
  ASSUME NEW T, NEW s \in Seq(T), NEW t \in Seq(T)
  PROVE  s \o t \in Seq(T) /\ ToSet(s \o t) = ToSet(s) \cup ToSet(t)
BY LinesOf

-----------------------------------------------------------------------------
(* What the file comes to hold: Contents is the one function that follows  *)
(* the chain from the file on.                                             *)
Follows(w, s, c) ==
  w = [i \in 0..Len(c) |-> IF i = 0 THEN s ELSE After(w[i - 1], c[i])]

LEMMA ContentsExist ==
  ASSUME NEW s, NEW c, Len(c) \in Nat
  PROVE  Follows(Contents(s, c), s, c)
<1> DEFINE Upto(n) == \E w : w = [i \in 0..n |-> IF i = 0 THEN s ELSE After(w[i - 1], c[i])]
           Bad == {n \in Nat : ~Upto(n)}
<1>1. Bad = {}
  <2> SUFFICES ASSUME Bad # {} PROVE FALSE  OBVIOUS
  <2>1. Bad \subseteq Nat  OBVIOUS
  <2> HIDE DEF Bad
  <2>2. PICK n \in Bad : \A m \in Bad : n <= m  BY <2>1, LeastNumber
  <2> USE DEF Bad
  <2>3. CASE n = 0
    <3> DEFINE w == [i \in 0..0 |-> s]
    <3>1. w = [i \in 0..0 |-> IF i = 0 THEN s ELSE After(w[i - 1], c[i])]  OBVIOUS
    <3> HIDE DEF w
    <3> QED  BY <2>3, <3>1
  <2>4. CASE n # 0
    <3>1. n - 1 \in Nat /\ n \in Nat  BY <2>4
    <3>2. n - 1 \notin Bad  BY <2>2, <3>1
    <3>3. Upto(n - 1)  BY <3>1, <3>2
    <3>4. PICK w : w = [i \in 0..n - 1 |-> IF i = 0 THEN s ELSE After(w[i - 1], c[i])]
      BY <3>3
    <3> DEFINE v == [i \in 0..n |-> IF i = n THEN After(w[n - 1], c[n]) ELSE w[i]]
    <3>5. \A i \in 0..n : v[i] = IF i = 0 THEN s ELSE After(v[i - 1], c[i])
      <4> SUFFICES ASSUME NEW i \in 0..n PROVE v[i] = IF i = 0 THEN s ELSE After(v[i - 1], c[i])
        OBVIOUS
      <4>1. CASE i = n
        <5>1. i # 0 /\ i - 1 \in 0..n /\ i - 1 # n  BY <2>4, <3>1, <4>1
        <5>2. v[i] = After(w[n - 1], c[n]) /\ v[i - 1] = w[n - 1]  BY <4>1, <5>1
        <5> QED  BY <4>1, <5>1, <5>2
      <4>2. CASE i # n
        <5>1. i \in 0..n - 1 /\ v[i] = w[i]  BY <3>1, <4>2
        <5>2. w[i] = IF i = 0 THEN s ELSE After(w[i - 1], c[i])  BY <3>4, <5>1
        <5>3. i # 0 => i - 1 \in 0..n /\ i - 1 # n /\ v[i - 1] = w[i - 1]  BY <3>1, <5>1
        <5> QED  BY <5>1, <5>2, <5>3
      <4> QED  BY <4>1, <4>2
    <3>6. v = [i \in 0..n |-> v[i]]  OBVIOUS
    <3> HIDE DEF v
    <3>7. v = [i \in 0..n |-> IF i = 0 THEN s ELSE After(v[i - 1], c[i])]  BY <3>5, <3>6
    <3>8. Upto(n)  BY <3>7
    <3> QED  BY <3>8
  <2> QED  BY <2>3, <2>4
<1>2. Upto(Len(c))  BY <1>1
<1> QED  BY <1>2 DEF Contents, Follows

LEMMA FollowsOnce ==
  ASSUME NEW s, NEW c, Len(c) \in Nat, NEW v, NEW w, Follows(v, s, c), Follows(w, s, c)
  PROVE  \A i \in 0..Len(c) : v[i] = w[i]
<1> DEFINE Bad == {i \in 0..Len(c) : v[i] # w[i]}
<1> SUFFICES ASSUME Bad # {} PROVE FALSE  OBVIOUS
<1>1. Bad \subseteq Nat  OBVIOUS
<1> HIDE DEF Bad
<1>2. PICK n \in Bad : \A m \in Bad : n <= m  BY <1>1, LeastNumber
<1> USE DEF Bad
<1>3. /\ \A i \in 0..Len(c) : v[i] = IF i = 0 THEN s ELSE After(v[i - 1], c[i])
      /\ \A i \in 0..Len(c) : w[i] = IF i = 0 THEN s ELSE After(w[i - 1], c[i])
  BY DEF Follows
<1>4. n \in 0..Len(c) /\ v[n] # w[n]  OBVIOUS
<1>5. n # 0  BY <1>3, <1>4
<1>6. n - 1 \in 0..Len(c) /\ n - 1 \notin Bad  BY <1>2, <1>4, <1>5
<1>7. v[n - 1] = w[n - 1]  BY <1>6
<1>8. v[n] = After(v[n - 1], c[n]) /\ w[n] = After(w[n - 1], c[n])  BY <1>3, <1>4, <1>5
<1> QED  BY <1>4, <1>7, <1>8

Op == [op : {"batch", "rewrite"}, lines : Lines] \cup [op : {"flush"}, call : Flush]

(* An operation more, at the end of the chain, ...                         *)
LEMMA ContentsAppend ==
  ASSUME NEW s, NEW c \in Seq(Op), NEW o \in Op
  PROVE  Contents(s, Append(c, o))[Len(c) + 1] = After(Contents(s, c)[Len(c)], o)
<1> DEFINE d == Append(c, o)
           v == Contents(s, d)
           w == Contents(s, c)
           u == [i \in 0..Len(c) |-> v[i]]
<1>1. /\ Len(c) \in Nat /\ Len(d) = Len(c) + 1
      /\ \A i \in 1..Len(c) : d[i] = c[i]
      /\ d[Len(c) + 1] = o
  BY AppendProperties, LenProperties
<1>2. Follows(v, s, d) /\ Follows(w, s, c)  BY <1>1, ContentsExist
<1> HIDE DEF d, v, w
<1>3. \A i \in 0..Len(c) + 1 : v[i] = IF i = 0 THEN s ELSE After(v[i - 1], d[i])
  BY <1>1, <1>2 DEF Follows
<1>4. \A i \in 0..Len(c) : u[i] = IF i = 0 THEN s ELSE After(u[i - 1], c[i])
  <2> SUFFICES ASSUME NEW i \in 0..Len(c) PROVE u[i] = IF i = 0 THEN s ELSE After(u[i - 1], c[i])
    OBVIOUS
  <2>1. v[i] = IF i = 0 THEN s ELSE After(v[i - 1], d[i])  BY <1>1, <1>3
  <2>2. i # 0 => i - 1 \in 0..Len(c) /\ d[i] = c[i]  BY <1>1
  <2> QED  BY <2>1, <2>2
<1>5. u = [i \in 0..Len(c) |-> u[i]]  OBVIOUS
<1> HIDE DEF u
<1>6. Follows(u, s, c)  BY <1>4, <1>5 DEF Follows
<1>7. u[Len(c)] = w[Len(c)]  BY <1>1, <1>2, <1>6, FollowsOnce
<1>8. v[Len(c) + 1] = After(v[Len(c)], o)
  <2>1. Len(c) + 1 \in 0..Len(c) + 1 /\ Len(c) + 1 # 0 /\ (Len(c) + 1) - 1 = Len(c)  BY <1>1
  <2> QED  BY <1>1, <1>3, <2>1
<1>9. u[Len(c)] = v[Len(c)]  BY <1>1 DEF u
<1> QED  BY <1>7, <1>8, <1>9 DEF v, w, d

(* ... and one less, done to the file.                                     *)
LEMMA ContentsTail ==
  ASSUME NEW s, NEW c \in Seq(Op), c # <<>>
  PROVE  Contents(s, c)[Len(c)] = Contents(After(s, Head(c)), Tail(c))[Len(Tail(c))]
<1> DEFINE d == Tail(c)
           t == After(s, Head(c))
           v == Contents(s, c)
           w == Contents(t, d)
           u == [i \in 0..Len(d) |-> v[i + 1]]
<1>1. /\ Len(c) \in Nat /\ Len(c) > 0 /\ Len(d) = Len(c) - 1 /\ Len(d) \in Nat
      /\ \A i \in 1..Len(d) : d[i] = c[i + 1]
      /\ Head(c) = c[1]
  BY HeadTailProperties, LenProperties, EmptySeq
<1>2. Follows(v, s, c) /\ Follows(w, t, d)  BY <1>1, ContentsExist
<1> HIDE DEF d, v, w
<1>3. \A i \in 0..Len(c) : v[i] = IF i = 0 THEN s ELSE After(v[i - 1], c[i])
  BY <1>2 DEF Follows
<1>4. \A i \in 0..Len(d) : u[i] = IF i = 0 THEN t ELSE After(u[i - 1], d[i])
  <2> SUFFICES ASSUME NEW i \in 0..Len(d) PROVE u[i] = IF i = 0 THEN t ELSE After(u[i - 1], d[i])
    OBVIOUS
  <2>1. i + 1 \in 0..Len(c) /\ i + 1 # 0 /\ (i + 1) - 1 = i  BY <1>1
  <2>2. v[i + 1] = After(v[i], c[i + 1])  BY <1>3, <2>1
  <2>3. CASE i = 0
    <3>1. v[0] = s /\ 0 \in 0..Len(d)  BY <1>1, <1>3
    <3>2. v[0 + 1] = After(s, c[0 + 1]) /\ 0 + 1 = 1  BY <2>2, <2>3, <3>1
    <3>3. u[0] = After(s, c[1])  BY <3>1, <3>2
    <3>4. After(s, c[1]) = t  BY <1>1
    <3> QED  BY <2>3, <3>3, <3>4
  <2>4. CASE i # 0
    <3>1. i - 1 \in 0..Len(d) /\ (i - 1) + 1 = i /\ d[i] = c[i + 1]  BY <1>1, <2>4
    <3>2. u[i - 1] = v[i]  BY <3>1
    <3> QED  BY <2>2, <2>4, <3>1, <3>2
  <2> QED  BY <2>3, <2>4
<1>5. u = [i \in 0..Len(d) |-> u[i]]  OBVIOUS
<1>6. u[Len(d)] = v[Len(c)]  BY <1>1
<1> HIDE DEF u, t
<1>7. Follows(u, t, d)  BY <1>4, <1>5 DEF Follows
<1>8. u[Len(d)] = w[Len(d)]
  <2>1. Len(d) \in Nat /\ Follows(w, t, d)  BY <1>1, <1>2
  <2>2. \A i \in 0..Len(d) : u[i] = w[i]  BY <1>7, <2>1, FollowsOnce
  <2> QED  BY <2>1, <2>2
<1> QED  BY <1>6, <1>8 DEF v, w, d, t

(* An empty chain leaves the file, and so does one of waiting flushes.     *)
LEMMA ContentsIdle ==
  ASSUME NEW s, NEW c \in Seq(Op), \A i \in 1..Len(c) : c[i].op = "flush"
  PROVE  Contents(s, c)[Len(c)] = s
<1> DEFINE v == Contents(s, c)
           Bad == {i \in 0..Len(c) : v[i] # s}
<1>1. Len(c) \in Nat  BY LenProperties
<1>2. Follows(v, s, c)  BY <1>1, ContentsExist
<1> HIDE DEF v
<1>3. \A i \in 0..Len(c) : v[i] = IF i = 0 THEN s ELSE After(v[i - 1], c[i])
  BY <1>2 DEF Follows
<1>4. Bad = {}
  <2> SUFFICES ASSUME Bad # {} PROVE FALSE  OBVIOUS
  <2>1. Bad \subseteq Nat  OBVIOUS
  <2> HIDE DEF Bad
  <2>2. PICK n \in Bad : \A m \in Bad : n <= m  BY <2>1, LeastNumber
  <2> USE DEF Bad
  <2>3. n \in 0..Len(c) /\ v[n] # s  OBVIOUS
  <2>4. n # 0  BY <1>3, <2>3
  <2>5. n - 1 \in 0..Len(c) /\ n - 1 \notin Bad /\ n \in 1..Len(c)  BY <2>2, <2>3, <2>4
  <2>6. v[n - 1] = s /\ v[n] = After(v[n - 1], c[n])  BY <1>3, <2>3, <2>4, <2>5
  <2>7. After(s, c[n]) = s  BY <2>5 DEF After
  <2> QED  BY <2>3, <2>6, <2>7
<1> QED  BY <1>1, <1>4 DEF v

-----------------------------------------------------------------------------
(* Line x is on its way to the disk by operation j of chain c on file s: it*)
(* is in the file or an operation before j writes it, and no rewrite before*)
(* j leaves it out for good.                                               *)
Carried(s, c, x, j) ==
  /\ \/ x \in ToSet(s)
     \/ \E k \in 1..j - 1 : c[k].op # "flush" /\ x \in ToSet(c[k].lines)
  /\ \A r \in 1..j - 1 : c[r].op = "rewrite" =>
       \E k \in r..j - 1 : c[k].op # "flush" /\ x \in ToSet(c[k].lines)

LEMMA CarriedPush ==
  ASSUME NEW s, NEW c \in Seq(Op), NEW o \in Op, NEW x
  PROVE  LET d == Append(c, o) IN
         /\ d \in Seq(Op) /\ Len(d) = Len(c) + 1 /\ d[Len(c) + 1] = o
         /\ \A i \in 1..Len(c) : d[i] = c[i]
         /\ \A j \in 1..Len(c) + 1 : Carried(s, c, x, j) => Carried(s, d, x, j)
         /\ o.op # "rewrite" /\ Carried(s, c, x, Len(c) + 1) => Carried(s, d, x, Len(d) + 1)
         /\ o.op # "flush" /\ x \in ToSet(o.lines) => Carried(s, d, x, Len(d) + 1)
<1> DEFINE d == Append(c, o)
<1>1. /\ d \in Seq(Op) /\ Len(d) = Len(c) + 1 /\ d[Len(c) + 1] = o /\ Len(c) \in Nat
      /\ \A i \in 1..Len(c) : d[i] = c[i]
  BY AppendProperties, LenProperties
<1> HIDE DEF d
<1>2. ASSUME NEW j \in 1..Len(c) + 1, Carried(s, c, x, j) PROVE Carried(s, d, x, j)
  <2>1. /\ \/ x \in ToSet(s)
           \/ \E k \in 1..j - 1 : c[k].op # "flush" /\ x \in ToSet(c[k].lines)
        /\ \A r \in 1..j - 1 : c[r].op = "rewrite" =>
             \E k \in r..j - 1 : c[k].op # "flush" /\ x \in ToSet(c[k].lines)
    BY <1>2 DEF Carried
  <2>2. \A k \in 1..j - 1 : d[k] = c[k]  BY <1>1
  <2>3. \A r \in 1..j - 1 : \A k \in r..j - 1 : d[k] = c[k]  BY <2>2
  <2> QED  BY <2>1, <2>2, <2>3 DEF Carried
<1>3. ASSUME o.op # "rewrite", Carried(s, c, x, Len(c) + 1) PROVE Carried(s, d, x, Len(d) + 1)
  <2>1. /\ \/ x \in ToSet(s)
           \/ \E k \in 1..Len(c) : c[k].op # "flush" /\ x \in ToSet(c[k].lines)
        /\ \A r \in 1..Len(c) : c[r].op = "rewrite" =>
             \E k \in r..Len(c) : c[k].op # "flush" /\ x \in ToSet(c[k].lines)
    BY <1>1, <1>3 DEF Carried
  <2>2. \/ x \in ToSet(s)
        \/ \E k \in 1..Len(c) + 1 : d[k].op # "flush" /\ x \in ToSet(d[k].lines)
    BY <1>1, <2>1
  <2>3. ASSUME NEW r \in 1..Len(c) + 1, d[r].op = "rewrite"
        PROVE  \E k \in r..Len(c) + 1 : d[k].op # "flush" /\ x \in ToSet(d[k].lines)
    <3>1. r \in 1..Len(c) /\ d[r] = c[r]  BY <1>1, <1>3, <2>3
    <3>2. PICK k \in r..Len(c) : c[k].op # "flush" /\ x \in ToSet(c[k].lines)
      BY <2>1, <2>3, <3>1
    <3> QED  BY <1>1, <3>1, <3>2
  <2> QED  BY <1>1, <2>2, <2>3 DEF Carried
<1>4. ASSUME o.op # "flush", x \in ToSet(o.lines) PROVE Carried(s, d, x, Len(d) + 1)
  <2>1. /\ Len(d) \in 1..(Len(d) + 1) - 1
        /\ \A r \in 1..(Len(d) + 1) - 1 : Len(d) \in r..(Len(d) + 1) - 1
        /\ d[Len(d)] = o
    BY <1>1
  <2> QED  BY <1>4, <2>1 DEF Carried
<1> QED  BY <1>1, <1>2, <1>3, <1>4 DEF d

(* The operation at the head is done: what it had to write, and what the   *)
(* file held, is in the new file t, or in X.                               *)
LEMMA CarriedPop ==
  ASSUME NEW s, NEW t, NEW X, NEW c \in Seq(Op), c # <<>>, NEW x,
         c[1].op # "rewrite" /\ x \in ToSet(s) => x \in ToSet(t) \cup X,
         c[1].op # "flush" /\ x \in ToSet(c[1].lines) => x \in ToSet(t) \cup X
  PROVE  LET d == Tail(c) IN
         /\ d \in Seq(Op) /\ Len(c) \in Nat \ {0} /\ Len(d) = Len(c) - 1 /\ Head(c) = c[1] /\ c[1] \in Op
         /\ \A i \in 1..Len(d) : d[i] = c[i + 1]
         /\ \A j \in 2..Len(c) + 1 : Carried(s, c, x, j) => x \in X \/ Carried(t, d, x, j - 1)
<1> DEFINE d == Tail(c)
<1>1. /\ d \in Seq(Op) /\ Len(c) \in Nat \ {0} /\ Len(d) = Len(c) - 1 /\ Head(c) = c[1] /\ c[1] \in Op
      /\ \A i \in 1..Len(d) : d[i] = c[i + 1]
  BY HeadTailProperties, LenProperties, EmptySeq
<1> HIDE DEF d
<1>2. ASSUME NEW j \in 2..Len(c) + 1, Carried(s, c, x, j), x \notin X
      PROVE  Carried(t, d, x, j - 1)
  <2> DEFINE Has(k) == c[k].op # "flush" /\ x \in ToSet(c[k].lines)
             HasD(k) == d[k].op # "flush" /\ x \in ToSet(d[k].lines)
  <2>0. /\ x \in ToSet(s) \/ \E k \in 1..j - 1 : Has(k)
        /\ \A r \in 1..j - 1 : c[r].op = "rewrite" => \E k \in r..j - 1 : Has(k)
    BY <1>2 DEF Carried
  <2>1. \A k \in 2..j - 1 : Has(k) => k - 1 \in 1..j - 2 /\ HasD(k - 1)
    <3> SUFFICES ASSUME NEW k \in 2..j - 1, Has(k) PROVE k - 1 \in 1..j - 2 /\ HasD(k - 1)
      OBVIOUS
    <3>1. k - 1 \in 1..Len(d) /\ (k - 1) + 1 = k /\ k - 1 \in 1..j - 2  BY <1>1
    <3>2. d[k - 1] = c[k]  BY <1>1, <3>1
    <3> QED  BY <3>1, <3>2
  <2>2. x \in ToSet(t) \/ \E k \in 1..j - 2 : HasD(k)
    <3>1. CASE \E k \in 2..j - 1 : Has(k)
      <4>1. PICK k \in 2..j - 1 : Has(k)  BY <3>1
      <4>2. k - 1 \in 1..j - 2 /\ HasD(k - 1)  BY <2>1, <4>1
      <4> QED  BY <4>2
    <3>2. CASE ~\E k \in 2..j - 1 : Has(k)
      <4>1. CASE c[1].op = "rewrite"
        <5>1. 1 \in 1..j - 1  BY <1>1
        <5>2. PICK k \in 1..j - 1 : Has(k)  BY <2>0, <4>1, <5>1
        <5>3. k = 1  BY <3>2, <5>2
        <5> QED  BY <1>2, <5>2, <5>3
      <4>2. CASE c[1].op # "rewrite"
        <5>1. \A k \in 1..j - 1 : Has(k) => k = 1  BY <3>2
        <5>2. x \in ToSet(s) \/ Has(1)  BY <2>0, <5>1
        <5> QED  BY <1>2, <4>2, <5>2
      <4> QED  BY <4>1, <4>2
    <3> QED  BY <3>1, <3>2
  <2>3. ASSUME NEW r \in 1..j - 2, d[r].op = "rewrite" PROVE \E k \in r..j - 2 : HasD(k)
    <3>0. r + 1 \in 1..j - 1 /\ r \in 1..Len(d)  BY <1>1
    <3>1. r + 1 \in 1..j - 1 /\ c[r + 1].op = "rewrite"  BY <1>1, <2>3, <3>0
    <3>2. PICK k \in r + 1..j - 1 : Has(k)  BY <2>0, <3>1
    <3>3. k \in 2..j - 1 /\ k - 1 \in r..j - 2  BY <3>1, <3>2
    <3> QED  BY <2>1, <3>2, <3>3
  <2>4. (j - 1) - 1 = j - 2  OBVIOUS
  <2> QED  BY <2>2, <2>3, <2>4 DEF Carried
<1> QED  BY <1>1, <1>2 DEF d

LEMMA CarriedOn ==
  ASSUME NEW s, NEW t, NEW X, NEW c \in Seq(Op), c # <<>>, NEW x,
         c[1].op # "rewrite" /\ x \in ToSet(s) => x \in ToSet(t) \cup X,
         c[1].op # "flush" /\ x \in ToSet(c[1].lines) => x \in ToSet(t) \cup X,
         NEW j \in 2..Len(c) + 1, Carried(s, c, x, j)
  PROVE  x \in X \/ Carried(t, Tail(c), x, j - 1)
<1> DEFINE P(i) == Carried(s, c, x, i) => x \in X \/ Carried(t, Tail(c), x, i - 1)
<1>1. \A i \in 2..Len(c) + 1 : P(i)  BY CarriedPop
<1>2. P(j)  BY <1>1
<1> QED  BY <1>2

LEMMA CarriedPast ==
  ASSUME NEW s, NEW c \in Seq(Op), c # <<>>, NEW x, c[1].op = "flush",
         NEW j \in 2..Len(c) + 1, Carried(s, c, x, j)
  PROVE  Carried(s, Tail(c), x, j - 1)
<1>1. PICK X : X = {}  OBVIOUS
<1>2. /\ c[1].op # "rewrite" /\ x \in ToSet(s) => x \in ToSet(s) \cup X
      /\ c[1].op # "flush" /\ x \in ToSet(c[1].lines) => x \in ToSet(s) \cup X
  BY c[1].op = "flush"
<1>3. x \in X \/ Carried(s, Tail(c), x, j - 1)  BY <1>2, CarriedOn
<1> QED  BY <1>1, <1>3

-----------------------------------------------------------------------------
(* The inductive invariant.  Lines are numbered as they are accepted; one  *)
(* flush waits at a time, unless two did; every line of the transcript is  *)
(* in the buffer or carried by the chain, those a waiting flush covers are *)
(* carried before it, and what was promised no rewrite still takes away.   *)
LineTypes ==
  /\ memory \in Lines /\ buffered \in Lines /\ chain \in Seq(Op)
  /\ file \in Seq({Torn} \cup 1..MaxLine) /\ replaced \subseteq Seq({Torn} \cup 1..MaxLine)
  /\ flush \in [Flush -> {"idle", "waiting", "resolved", "rejected"}]
  /\ snapshot \in [Flush -> Lines]
  /\ accepted \in 0..MaxLine /\ faults \in Seq(Faults)
  /\ {error, running, timer, shut, flushesOverlap} \subseteq BOOLEAN

Numbered ==
  /\ ToSet(memory) \subseteq 1..accepted
  /\ \A f \in Flush : ToSet(snapshot[f]) \subseteq 1..accepted

Barriers == {j \in 1..Len(chain) : chain[j].op = "flush"}
OneBarrier ==
  ~flushesOverlap =>
    /\ \A j \in Barriers : flush[chain[j].call] = "waiting"
    /\ \A i, j \in Barriers : i = j

DiskKeeps == running /\ ~Had(Losing)
AllCarried ==
  DiskKeeps =>
    \A x \in ToSet(memory) : x \in ToSet(buffered) \/ Carried(file, chain, x, Len(chain) + 1)

(* what the flush at place j of the chain covers *)
CoveredBy(j) == ToSet(snapshot[chain[j].call]) \cap ToSet(memory)
BarriersCover ==
  DiskKeeps /\ ~flushesOverlap =>
    \A j \in Barriers :
      /\ error \/ \A x \in CoveredBy(j) : Carried(file, chain, x, j)
      /\ \A r \in j + 1..Len(chain) :
           chain[r].op = "rewrite" => CoveredBy(j) \subseteq ToSet(chain[r].lines)

PromisedOnDisk ==
  ~flushesOverlap /\ ~Had(Losing) /\ (running \/ replaced = {}) =>
    /\ promised \subseteq ToSet(file)
    /\ \A r \in 1..Len(chain) : chain[r].op = "rewrite" => promised \subseteq ToSet(chain[r].lines)

Durability == AllCarried /\ BarriersCover /\ PromisedOnDisk
WriterInv ==
  LineTypes /\ Numbered /\ OneBarrier /\ Durability /\ Lossless /\ BufferIsTimed

(* Without a fault of its own a step changes nothing of the record of them.*)
LEMMA FaultsKept ==
  ASSUME UNCHANGED faults PROVE \A K : Had(K)' = Had(K)
BY DEF Had

LEMMA FaultsGrow ==
  ASSUME LineTypes, NEW kind \in Faults, Fault(kind)
  PROVE  /\ faults' \in Seq(Faults) /\ faults' # <<>> /\ error'
         /\ \A K : Had(K)' = (Had(K) \/ kind \in K)
<1>1. faults' = Append(faults, kind) /\ faults \in Seq(Faults) /\ error'  BY DEF Fault, LineTypes
<1>2. ToSet(faults') = ToSet(faults) \cup {kind} /\ faults' \in Seq(Faults)  BY <1>1, LinesOf
<1>3. faults' # <<>>  BY <1>1, AppendProperties
<1> QED  BY <1>1, <1>2, <1>3 DEF Had

(* The lines of an operation.                                              *)
LEMMA OpFacts ==
  /\ \A s \in Lines : Batch(s) \in Op /\ Batch(s).op = "batch" /\ Batch(s).lines = s
  /\ \A s \in Lines : Rewrite(s) \in Op /\ Rewrite(s).op = "rewrite" /\ Rewrite(s).lines = s
  /\ \A f \in Flush : Barrier(f) \in Op /\ Barrier(f).op = "flush" /\ Barrier(f).call = f
  /\ \A o \in Op : o.op # "flush" => o.op \in {"batch", "rewrite"} /\ o.lines \in Lines
  /\ \A o \in Op : o.op = "flush" => o.call \in Flush
BY DEF Op, Batch, Rewrite, Barrier

(* The buffer, drained: the chain ends with it, in one batch.              *)
LEMMA DrainFacts ==
  ASSUME LineTypes, NEW p \in Lines
  PROVE  LET d == Drained(p) IN
         /\ d \in Seq(Op) /\ Len(d) \in Nat /\ Len(chain) \in Nat /\ Len(d) >= Len(chain)
         /\ \A i \in 1..Len(chain) : d[i] = chain[i]
         /\ \A i \in Len(chain) + 1..Len(d) : d[i].op = "batch"
         /\ \A x : /\ \A j \in 1..Len(chain) + 1 : Carried(file, chain, x, j) => Carried(file, d, x, j)
                   /\ Carried(file, chain, x, Len(chain) + 1) => Carried(file, d, x, Len(d) + 1)
                   /\ x \in ToSet(p) => Carried(file, d, x, Len(d) + 1)
<1>1. chain \in Seq(Op) /\ Len(chain) \in Nat  BY LenProperties DEF LineTypes
<1>2. CASE p = <<>>
  <2>1. Drained(p) = chain /\ ToSet(p) = {}  BY <1>2 DEF Drained, ToSet
  <2> QED  BY <1>1, <2>1
<1>3. CASE p # <<>>
  <2>1. Drained(p) = Append(chain, Batch(p))  BY <1>3 DEF Drained
  <2>2. Batch(p) \in Op /\ Batch(p).op = "batch" /\ Batch(p).lines = p  BY OpFacts
  <2>3. /\ Append(chain, Batch(p)) \in Seq(Op) /\ Len(Append(chain, Batch(p))) = Len(chain) + 1
        /\ \A i \in 1..Len(chain) : Append(chain, Batch(p))[i] = chain[i]
        /\ Append(chain, Batch(p))[Len(chain) + 1] = Batch(p)
    BY <1>1, <2>2, CarriedPush
  <2>4. ASSUME NEW x
        PROVE  /\ \A j \in 1..Len(chain) + 1 :
                     Carried(file, chain, x, j) => Carried(file, Append(chain, Batch(p)), x, j)
               /\ Carried(file, chain, x, Len(chain) + 1)
                     => Carried(file, Append(chain, Batch(p)), x, Len(chain) + 2)
               /\ x \in ToSet(p) => Carried(file, Append(chain, Batch(p)), x, Len(chain) + 2)
    BY <1>1, <2>2, <2>3, CarriedPush
  <2> HIDE DEF Drained
  <2> QED  BY <1>1, <2>1, <2>2, <2>3, <2>4
<1> QED  BY <1>2, <1>3

-----------------------------------------------------------------------------
(* What comes behind a place of the chain does not matter to what is       *)
(* carried before it.                                                      *)
LEMMA CarriedBefore ==
  ASSUME NEW s, NEW c, NEW d, NEW x, NEW j \in Nat,
         \A i \in 1..j - 1 : d[i] = c[i], Carried(s, c, x, j)
  PROVE  Carried(s, d, x, j)
<1>1. /\ \/ x \in ToSet(s)
         \/ \E k \in 1..j - 1 : c[k].op # "flush" /\ x \in ToSet(c[k].lines)
      /\ \A r \in 1..j - 1 : c[r].op = "rewrite" =>
           \E k \in r..j - 1 : c[k].op # "flush" /\ x \in ToSet(c[k].lines)
  BY DEF Carried
<1>2. \A r \in 1..j - 1 : \A k \in r..j - 1 : k \in 1..j - 1 /\ d[k] = c[k]
  OBVIOUS
<1> QED  BY <1>1, <1>2 DEF Carried

(* Operations are queued: nothing reaches the disk, no flush is called.    *)
LEMMA QueueKeeps ==
  ASSUME WriterInv, running, chain' \in Seq(Op), Len(chain') >= Len(chain),
         \A i \in 1..Len(chain) : chain'[i] = chain[i],
         \A i \in Len(chain) + 1..Len(chain') :
           /\ chain'[i].op # "flush"
           /\ chain'[i].op = "rewrite" =>
                ToSet(memory') \cup promised' \subseteq ToSet(chain'[i].lines),
         UNCHANGED <<file, error, running, faults, flush, snapshot, flushesOverlap>>,
         promised' \subseteq promised,
         ToSet(memory') \cap 1..accepted \subseteq ToSet(memory),
         DiskKeeps => \A x \in ToSet(memory') :
           x \in ToSet(buffered') \/ Carried(file, chain', x, Len(chain') + 1)
  PROVE  OneBarrier' /\ Durability'
<1>0. /\ Len(chain) \in Nat /\ Len(chain') \in Nat /\ Barriers \subseteq 1..Len(chain)
      /\ \A K : Had(K)' = Had(K)
  BY LenProperties, FaultsKept DEF WriterInv, LineTypes, Barriers
<1>1. Barriers' = Barriers /\ \A j \in Barriers : chain'[j] = chain[j]
  <2>1. \A i \in 1..Len(chain') : i \in 1..Len(chain) \/ i \in Len(chain) + 1..Len(chain')  BY <1>0
  <2> QED  BY <1>0, <2>1 DEF Barriers
<1>2. OneBarrier'  BY <1>1 DEF WriterInv, OneBarrier
<1>3. DiskKeeps' = DiskKeeps  BY <1>0 DEF DiskKeeps
<1>4. AllCarried'  BY <1>3 DEF AllCarried
<1>5. \A j \in Barriers : CoveredBy(j)' \subseteq CoveredBy(j) /\ CoveredBy(j)' \subseteq ToSet(memory')
  <2> SUFFICES ASSUME NEW j \in Barriers
               PROVE  CoveredBy(j)' \subseteq CoveredBy(j) /\ CoveredBy(j)' \subseteq ToSet(memory')
    OBVIOUS
  <2>1. chain'[j] = chain[j] /\ chain[j] \in Op /\ chain[j].op = "flush" /\ j \in 1..Len(chain)
    BY <1>0, <1>1, ElementOfSeq DEF Barriers, WriterInv, LineTypes
  <2>2. chain[j].call \in Flush  BY <2>1, OpFacts
  <2>3. ToSet(snapshot[chain[j].call]) \subseteq 1..accepted  BY <2>2 DEF WriterInv, Numbered
  <2> QED  BY <2>1, <2>3 DEF CoveredBy
<1>6. BarriersCover'
  <2> SUFFICES ASSUME DiskKeeps, ~flushesOverlap, NEW j \in Barriers
               PROVE  /\ error \/ \A x \in CoveredBy(j)' : Carried(file, chain', x, j)
                      /\ \A r \in j + 1..Len(chain') :
                           chain'[r].op = "rewrite" => CoveredBy(j)' \subseteq ToSet(chain'[r].lines)
    BY <1>1, <1>3 DEF BarriersCover
  <2>1. /\ error \/ \A x \in CoveredBy(j) : Carried(file, chain, x, j)
        /\ \A r \in j + 1..Len(chain) :
             chain[r].op = "rewrite" => CoveredBy(j) \subseteq ToSet(chain[r].lines)
    BY DEF WriterInv, Durability, BarriersCover
  <2>2. j \in 1..Len(chain) /\ j \in Nat /\ \A i \in 1..j - 1 : chain'[i] = chain[i]  BY <1>0
  <2>3. error \/ \A x \in CoveredBy(j)' : Carried(file, chain', x, j)
    BY <1>5, <2>1, <2>2, CarriedBefore
  <2>4. ASSUME NEW r \in j + 1..Len(chain'), chain'[r].op = "rewrite"
        PROVE  CoveredBy(j)' \subseteq ToSet(chain'[r].lines)
    <3>1. CASE r <= Len(chain)
      <4>1. r \in j + 1..Len(chain) /\ r \in 1..Len(chain)  BY <1>0, <2>2, <3>1
      <4>2. chain'[r] = chain[r]  BY <4>1
      <4> QED  BY <1>5, <2>1, <2>4, <4>1, <4>2
    <3>2. CASE r > Len(chain)
      <4>1. r \in Len(chain) + 1..Len(chain')  BY <1>0, <2>2, <3>2
      <4> QED  BY <1>5, <2>4, <4>1
    <3> QED  BY <1>0, <2>2, <3>1, <3>2
  <2> QED  BY <2>3, <2>4
<1>7. PromisedOnDisk'
  <2> SUFFICES ASSUME ~flushesOverlap, ~Had(Losing)
               PROVE  /\ promised' \subseteq ToSet(file)
                      /\ \A r \in 1..Len(chain') :
                           chain'[r].op = "rewrite" => promised' \subseteq ToSet(chain'[r].lines)
    BY <1>0 DEF PromisedOnDisk
  <2>1. /\ promised \subseteq ToSet(file)
        /\ \A r \in 1..Len(chain) : chain[r].op = "rewrite" => promised \subseteq ToSet(chain[r].lines)
    BY DEF WriterInv, Durability, PromisedOnDisk
  <2>2. ASSUME NEW r \in 1..Len(chain'), chain'[r].op = "rewrite"
        PROVE  promised' \subseteq ToSet(chain'[r].lines)
    <3>1. CASE r \in 1..Len(chain)
      <4>1. chain'[r] = chain[r]  BY <3>1
      <4> QED  BY <2>1, <2>2, <3>1, <4>1
    <3>2. CASE r \in Len(chain) + 1..Len(chain')
      BY <2>2, <3>2
    <3> QED  BY <1>0, <3>1, <3>2
  <2> QED  BY <2>1, <2>2
<1> QED  BY <1>2, <1>4, <1>6, <1>7 DEF Durability

(* The lines that were in the buffer or on their way are on their way when *)
(* the buffer has been drained.                                            *)
LEMMA DrainCarries ==
  ASSUME WriterInv, DiskKeeps, NEW p \in Lines, NEW x,
         x \in ToSet(p) \/ (x \in ToSet(memory) /\ ToSet(buffered) \subseteq ToSet(p))
  PROVE  Carried(file, Drained(p), x, Len(Drained(p)) + 1)
<1>1. x \in ToSet(p) \/ Carried(file, chain, x, Len(chain) + 1)
  BY DEF WriterInv, Durability, AllCarried
<1> QED  BY <1>1, DrainFacts DEF WriterInv

(* What the file will hold, when a batch is queued.                        *)
LEMMA DrainReplays ==
  ASSUME LineTypes, NEW p \in Lines
  PROVE  LET d == Drained(p) IN
         Contents(file, d)[Len(d)] = (IF p = <<>> THEN Replayed ELSE Replayed \o p)
<1>1. CASE p = <<>>  BY <1>1 DEF Drained, Replayed
<1>2. CASE p # <<>>
  <2>1. Drained(p) = Append(chain, Batch(p)) /\ Batch(p) \in Op /\ chain \in Seq(Op)
    BY <1>2, OpFacts DEF Drained, LineTypes
  <2>2. Len(Append(chain, Batch(p))) = Len(chain) + 1  BY <2>1, AppendProperties
  <2>3. Contents(file, Append(chain, Batch(p)))[Len(chain) + 1]
          = After(Contents(file, chain)[Len(chain)], Batch(p))
    BY <2>1, ContentsAppend
  <2>4. \A s : After(s, Batch(p)) = s \o p  BY DEF After, Batch
  <2> HIDE DEF Drained
  <2> QED  BY <1>2, <2>1, <2>2, <2>3, <2>4 DEF Replayed
<1> QED  BY <1>1, <1>2

(* Replaying keeps to lines.                                               *)
LEMMA ReplayType ==
  ASSUME LineTypes PROVE Replayed \in Seq({Torn} \cup 1..MaxLine)
<1> DEFINE T == Seq({Torn} \cup 1..MaxLine)
           v == Contents(file, chain)
           Bad == {i \in 0..Len(chain) : v[i] \notin T}
<1>1. chain \in Seq(Op) /\ Len(chain) \in Nat /\ file \in T  BY LenProperties DEF LineTypes
<1>2. Follows(v, file, chain)  BY <1>1, ContentsExist
<1> HIDE DEF v
<1>3. \A i \in 0..Len(chain) : v[i] = IF i = 0 THEN file ELSE After(v[i - 1], chain[i])
  BY <1>2 DEF Follows
<1>4. ASSUME NEW s \in T, NEW o \in Op PROVE After(s, o) \in T
  <2>1. Lines \subseteq T
    <3> SUFFICES ASSUME NEW t \in Lines PROVE t \in T  OBVIOUS
    <3>1. t \in Seq(1..MaxLine) /\ 1..MaxLine \subseteq {Torn} \cup 1..MaxLine  BY DEF Lines
    <3> QED  BY <3>1, SeqMonotonic
  <2>2. CASE o.op = "flush"  BY <2>2 DEF After
  <2>3. CASE o.op = "batch"
    <3>1. o.lines \in T /\ After(s, o) = s \o o.lines  BY <2>1, <2>3, OpFacts DEF After
    <3> QED  BY <3>1, ConcatProperties
  <2>4. CASE o.op = "rewrite"
    <3>1. o.lines \in T /\ After(s, o) = o.lines  BY <2>1, <2>4, OpFacts DEF After
    <3> QED  BY <3>1
  <2> QED  BY <2>2, <2>3, <2>4, OpFacts
<1> HIDE DEF T
<1>5. Bad = {}
  <2> SUFFICES ASSUME Bad # {} PROVE FALSE  OBVIOUS
  <2>1. Bad \subseteq Nat  OBVIOUS
  <2> HIDE DEF Bad
  <2>2. PICK n \in Bad : \A m \in Bad : n <= m  BY <2>1, LeastNumber
  <2> USE DEF Bad
  <2>3. n \in 0..Len(chain) /\ v[n] \notin T  OBVIOUS
  <2>4. n # 0  BY <1>1, <1>3, <2>3
  <2>5. n - 1 \in 0..Len(chain) /\ n - 1 \notin Bad /\ n \in 1..Len(chain)  BY <2>2, <2>3, <2>4
  <2>6. v[n - 1] \in T /\ v[n] = After(v[n - 1], chain[n]) /\ chain[n] \in Op
    BY <1>1, <1>3, <2>3, <2>4, <2>5, ElementOfSeq
  <2> QED  BY <1>4, <2>3, <2>6
<1> QED  BY <1>1, <1>5 DEF v, Replayed, T

(* Sequences of lines, the torn line among them or not, can be put together*)
(* in any order.                                                           *)
LEMMA Join ==
  ASSUME NEW s \in Seq({Torn} \cup 1..MaxLine), NEW t \in Lines, NEW u \in Lines
  PROVE  /\ (s \o t) \o u = s \o (t \o u) /\ t \o u \in Lines /\ t \o <<>> = t /\ s \o <<>> = s
         /\ s \o t \in Seq({Torn} \cup 1..MaxLine) /\ t \in Seq({Torn} \cup 1..MaxLine)
<1> DEFINE T == {Torn} \cup 1..MaxLine
<1>1. t \in Seq(T) /\ u \in Seq(T)
  <2>1. 1..MaxLine \subseteq T  OBVIOUS
  <2> HIDE DEF T
  <2> QED  BY <2>1, SeqMonotonic DEF Lines
<1> HIDE DEF T
<1>3. /\ (s \o t) \o u = s \o (t \o u) /\ s \o t \in Seq(T)
      /\ t \o <<>> = t /\ s \o <<>> = s
  BY <1>1, ConcatAssociative, ConcatProperties, ConcatEmptySeq DEF T
<1>4. t \o u \in Lines  BY ConcatProperties DEF Lines
<1> QED  BY <1>1, <1>3, <1>4 DEF T

(* A line more.                                                            *)
LEMMA OneLine ==
  ASSUME NEW s \in Lines, NEW e \in 1..MaxLine
  PROVE  Append(s, e) \in Lines /\ Append(s, e) # <<>> /\ ToSet(Append(s, e)) = ToSet(s) \cup {e}
<1>1. s \in Seq(1..MaxLine)  BY DEF Lines
<1>2. Append(s, e) \in Seq(1..MaxLine) /\ Append(s, e) # <<>>  BY <1>1, AppendProperties
<1>3. ToSet(Append(s, e)) = ToSet(s) \cup {e}  BY <1>1, LinesOf
<1> QED  BY <1>2, <1>3 DEF Lines

LEMMA JoinOne ==
  ASSUME NEW s \in Seq({Torn} \cup 1..MaxLine), NEW t \in Lines, NEW e \in 1..MaxLine
  PROVE  Append(s \o t, e) = s \o Append(t, e)
<1> DEFINE T == {Torn} \cup 1..MaxLine
<1>1. e \in T /\ <<e>> \in Seq(T)  OBVIOUS
<1>2. t \in Seq(T) /\ s \o t \in Seq(T)  BY Join
<1> HIDE DEF T
<1>3. Append(s \o t, e) = (s \o t) \o <<e>> /\ Append(t, e) = t \o <<e>>
  BY <1>1, <1>2, AppendIsConcat
<1>4. (s \o t) \o <<e>> = s \o (t \o <<e>>)  BY <1>1, <1>2, ConcatAssociative DEF T
<1> QED  BY <1>3, <1>4

-----------------------------------------------------------------------------
(* appendMessage(): the new line enters the buffer, which may be drained.  *)
LEMMA AppendLineKeeps == ASSUME WriterInv, AppendLine PROVE WriterInv'
<1> DEFINE e == accepted + 1
           held == Append(buffered, e)
<1>1. /\ running /\ ~shut /\ accepted < MaxLine /\ accepted' = e /\ memory' = Append(memory, e)
      /\ UNCHANGED <<error, shut, file, replaced, flush, running, rewrites, faults, snapshot, promised,
                     flushesOverlap>>
      /\ \/ buffered' = <<>> /\ chain' = Drained(held) /\ timer' = timer
         \/ buffered' = held /\ chain' = chain /\ timer' = TRUE
  BY DEF AppendLine
<1>2. /\ memory \in Lines /\ buffered \in Lines /\ chain \in Seq(Op) /\ Len(chain) \in Nat
      /\ accepted \in 0..MaxLine /\ e \in 1..MaxLine
  BY <1>1, LenProperties DEF WriterInv, LineTypes
<1>3. /\ held \in Lines /\ held # <<>> /\ ToSet(held) = ToSet(buffered) \cup {e}
      /\ memory' \in Lines /\ ToSet(memory') = ToSet(memory) \cup {e}
  <2> HIDE DEF e
  <2> QED  BY <1>1, <1>2, OneLine
<1>4. e \notin 1..accepted /\ accepted' \in 0..MaxLine /\ 1..accepted \subseteq 1..accepted'
  BY <1>1, <1>2
<1>5. LineTypes'
  <2>1. chain' \in Seq(Op)  BY <1>1, <1>2, <1>3, DrainFacts DEF WriterInv
  <2>2. buffered' \in Lines
    <3>1. <<>> \in Lines  BY EmptySeq DEF Lines
    <3> QED  BY <1>1, <1>3, <3>1
  <2>3. {error, running, timer, shut, flushesOverlap}' \subseteq BOOLEAN  BY <1>1 DEF WriterInv, LineTypes
  <2> HIDE DEF e, held
  <2> QED  BY <1>1, <1>3, <1>4, <2>1, <2>2, <2>3 DEF WriterInv, LineTypes
<1>6. Numbered'
  <2>1. e \in 1..accepted'  BY <1>1, <1>2
  <2> HIDE DEF e
  <2> QED  BY <1>1, <1>3, <1>4, <2>1 DEF WriterInv, Numbered
<1> HIDE DEF e, held
<1>7. /\ Len(chain') >= Len(chain) /\ \A i \in 1..Len(chain) : chain'[i] = chain[i]
      /\ \A i \in Len(chain) + 1..Len(chain') : chain'[i].op = "batch"
  BY <1>1, <1>2, <1>3, DrainFacts DEF WriterInv
<1>8. DiskKeeps => \A x \in ToSet(memory') :
        x \in ToSet(buffered') \/ Carried(file, chain', x, Len(chain') + 1)
  <2> SUFFICES ASSUME DiskKeeps, NEW x \in ToSet(memory')
               PROVE  x \in ToSet(buffered') \/ Carried(file, chain', x, Len(chain') + 1)
    OBVIOUS
  <2>1. x \in ToSet(held) \/ x \in ToSet(memory)  BY <1>3
  <2>2. CASE chain' = Drained(held)  BY <1>3, <2>1, <2>2, DrainCarries
  <2>3. CASE buffered' = held /\ chain' = chain
    BY <1>3, <2>1, <2>3 DEF WriterInv, Durability, AllCarried
  <2> QED  BY <1>1, <2>2, <2>3
<1>9. OneBarrier' /\ Durability'
  <2>1. ToSet(memory') \cap 1..accepted \subseteq ToSet(memory)  BY <1>3, <1>4
  <2>2. \A i \in Len(chain) + 1..Len(chain') : chain'[i].op # "flush" /\ chain'[i].op # "rewrite"
    BY <1>7
  <2> QED  BY <1>1, <1>5, <1>7, <1>8, <2>1, <2>2, QueueKeeps DEF LineTypes
<1>10. Lossless'
  <2> SUFFICES ASSUME ~Had({"overtaken"} \cup Losing) PROVE Replayed' \o buffered' = memory'
    BY <1>1, FaultsKept DEF Lossless
  <2>1. Replayed \o buffered = memory  BY <1>1 DEF WriterInv, Lossless
  <2>2. Replayed \o held = memory' /\ Replayed \o held \in Seq({Torn} \cup 1..MaxLine)
    <3>1. Append(Replayed \o buffered, e) = Replayed \o Append(buffered, e)
      <4>1. Replayed \in Seq({Torn} \cup 1..MaxLine)  BY ReplayType DEF WriterInv
      <4> QED  BY <1>2, <4>1, JoinOne
    <3>2. Replayed \o held \in Seq({Torn} \cup 1..MaxLine)
      BY <1>3, ReplayType, Join DEF WriterInv
    <3> QED  BY <1>1, <2>1, <3>1, <3>2 DEF held
  <2>3. CASE buffered' = held /\ chain' = chain
    BY <1>1, <2>2, <2>3 DEF Replayed
  <2>4. CASE buffered' = <<>> /\ chain' = Drained(held)
    <3>1. Replayed' = Replayed \o held
      BY <1>1, <1>3, <2>4, DrainReplays DEF Replayed, WriterInv
    <3>2. (Replayed \o held) \o <<>> = Replayed \o held  BY <2>2, ConcatEmptySeq
    <3> QED  BY <2>2, <2>4, <3>1, <3>2
  <2> QED  BY <1>1, <2>3, <2>4
<1>11. BufferIsTimed'
  BY <1>1 DEF BufferIsTimed
<1> QED  BY <1>5, <1>6, <1>9, <1>10, <1>11 DEF WriterInv

(* The timer drains the buffer.                                            *)
LEMMA TimerFiresKeeps == ASSUME WriterInv, TimerFires PROVE WriterInv'
<1>1. /\ running /\ chain' = Drained(buffered) /\ buffered' = <<>> /\ timer' = FALSE
      /\ UNCHANGED <<memory, error, shut, file, replaced, flush, running, accepted, rewrites, faults,
                     snapshot, promised, flushesOverlap>>
  BY DEF TimerFires
<1>2. buffered \in Lines /\ <<>> \in Lines  BY EmptySeq DEF WriterInv, LineTypes, Lines
<1>3. /\ chain' \in Seq(Op) /\ Len(chain') >= Len(chain)
      /\ \A i \in 1..Len(chain) : chain'[i] = chain[i]
      /\ \A i \in Len(chain) + 1..Len(chain') : chain'[i].op = "batch"
  BY <1>1, <1>2, DrainFacts DEF WriterInv
<1>4. LineTypes' /\ Numbered'
  BY <1>1, <1>2, <1>3 DEF WriterInv, LineTypes, Numbered
<1>5. OneBarrier' /\ Durability'
  <2>1. DiskKeeps => \A x \in ToSet(memory') : Carried(file, chain', x, Len(chain') + 1)
    BY <1>1, <1>2, DrainCarries
  <2>2. \A i \in Len(chain) + 1..Len(chain') : chain'[i].op # "flush" /\ chain'[i].op # "rewrite"
    BY <1>3
  <2> QED  BY <1>1, <1>3, <2>1, <2>2, QueueKeeps
<1>6. Lossless'
  <2> SUFFICES ASSUME ~Had({"overtaken"} \cup Losing) PROVE Replayed' \o buffered' = memory'
    BY <1>1, FaultsKept DEF Lossless
  <2>1. Replayed \o buffered = memory  BY <1>1 DEF WriterInv, Lossless
  <2>2. Replayed' = (IF buffered = <<>> THEN Replayed ELSE Replayed \o buffered)
    BY <1>1, <1>2, DrainReplays DEF Replayed, WriterInv
  <2>3. Replayed \in Seq({Torn} \cup 1..MaxLine)  BY ReplayType DEF WriterInv
  <2>4. Replayed \o <<>> = Replayed /\ (Replayed \o buffered) \o <<>> = Replayed \o buffered
    BY <1>2, <2>3, Join, ConcatEmptySeq
  <2> QED  BY <1>1, <2>1, <2>2, <2>4
<1>7. BufferIsTimed'  BY <1>1 DEF BufferIsTimed
<1> QED  BY <1>4, <1>5, <1>6, <1>7 DEF WriterInv

(* A rewrite carries the whole new transcript.                             *)
LEMMA RewriteKeeps ==
  ASSUME WriterInv, NEW content \in Lines, DoRewrite(content), accepted' \in 0..MaxLine,
         accepted' >= accepted, ToSet(content) \subseteq 1..accepted',
         ToSet(content) \cap 1..accepted \subseteq ToSet(memory)
  PROVE  WriterInv'
<1>1. /\ running /\ memory' = content /\ buffered' = <<>> /\ timer' = FALSE
      /\ chain' = Append(chain, Rewrite(content)) /\ promised' = promised \cap ToSet(content)
      /\ UNCHANGED <<error, shut, file, replaced, flush, running, faults, snapshot, flushesOverlap>>
  BY DEF DoRewrite
<1>2. Rewrite(content) \in Op /\ Rewrite(content).op = "rewrite" /\ Rewrite(content).lines = content
  BY OpFacts
<1>3. /\ chain \in Seq(Op) /\ chain' \in Seq(Op) /\ Len(chain') = Len(chain) + 1 /\ Len(chain) \in Nat
      /\ chain'[Len(chain) + 1] = Rewrite(content)
      /\ \A i \in 1..Len(chain) : chain'[i] = chain[i]
      /\ \A x \in ToSet(content) : Carried(file, chain', x, Len(chain') + 1)
  <2>1. chain \in Seq(Op) /\ Len(chain) \in Nat  BY LenProperties DEF WriterInv, LineTypes
  <2>2. \A x \in ToSet(content) : Carried(file, chain', x, Len(chain') + 1)
    BY <1>1, <1>2, <2>1, CarriedPush
  <2> QED  BY <1>1, <1>2, <2>1, <2>2, AppendProperties
<1>4. LineTypes' /\ Numbered'
  <2>1. 1..accepted \subseteq 1..accepted'
    BY DEF WriterInv, LineTypes
  <2>2. <<>> \in Lines  BY EmptySeq DEF Lines
  <2> QED  BY <1>1, <1>3, <2>1, <2>2 DEF WriterInv, LineTypes, Numbered
<1>5. OneBarrier' /\ Durability'
  <2>1. \A i \in Len(chain) + 1..Len(chain') :
          /\ chain'[i].op # "flush"
          /\ ToSet(memory') \cup promised' \subseteq ToSet(chain'[i].lines)
    <3>1. \A i \in Len(chain) + 1..Len(chain') : i = Len(chain) + 1  BY <1>3
    <3> QED  BY <1>1, <1>2, <1>3, <3>1
  <2>2. Len(chain') >= Len(chain)  BY <1>3
  <2> QED  BY <1>1, <1>3, <2>1, <2>2, QueueKeeps
<1>6. Lossless'
  <2>1. Replayed' = content
    <3>1. Contents(file, chain')[Len(chain) + 1] = After(Contents(file, chain)[Len(chain)], Rewrite(content))
      BY <1>1, <1>2, <1>3, ContentsAppend
    <3>2. \A s : After(s, Rewrite(content)) = content  BY DEF After, Rewrite
    <3> QED  BY <1>1, <1>3, <3>1, <3>2 DEF Replayed
  <2>2. content \o <<>> = content  BY ConcatEmptySeq DEF Lines
  <2> QED  BY <1>1, <2>1, <2>2 DEF Lossless
<1>7. BufferIsTimed'  BY <1>1 DEF BufferIsTimed
<1> QED  BY <1>4, <1>5, <1>6, <1>7 DEF WriterInv

LEMMA RewritesKeep ==
  ASSUME WriterInv, RewriteHeader \/ Clear \/ ReplaceMessages PROVE WriterInv'
<1>1. /\ memory \in Lines /\ accepted \in 0..MaxLine /\ ToSet(memory) \subseteq 1..accepted
  BY DEF WriterInv, LineTypes, Numbered
<1>2. CASE RewriteHeader
  <2>1. DoRewrite(memory) /\ accepted' = accepted  BY <1>2 DEF RewriteHeader
  <2> QED  BY <1>1, <2>1, RewriteKeeps
<1>3. CASE Clear
  <2>1. DoRewrite(<<>>) /\ accepted' = accepted  BY <1>3 DEF Clear
  <2>2. <<>> \in Lines /\ ToSet(<<>>) = {}  BY EmptySeq DEF Lines, ToSet
  <2> QED  BY <1>1, <2>1, <2>2, RewriteKeeps
<1>4. CASE ReplaceMessages
  <2> DEFINE e == accepted + 1
             content == <<e>> \o Tail(memory)
  <2>1. accepted < MaxLine /\ memory # <<>> /\ DoRewrite(content) /\ accepted' = e
    BY <1>4 DEF ReplaceMessages
  <2>2. e \in 1..MaxLine /\ accepted' \in 0..MaxLine /\ accepted' >= accepted /\ e \notin 1..accepted
        /\ e \in 1..accepted' /\ 1..accepted \subseteq 1..accepted'
    BY <1>1, <2>1
  <2> HIDE DEF e
  <2>3. Tail(memory) \in Seq(1..MaxLine) /\ ToSet(Tail(memory)) \subseteq ToSet(memory)
    BY <1>1, <2>1, LinesOf, HeadTailProperties DEF Lines
  <2>4. <<e>> \in Seq(1..MaxLine) /\ ToSet(<<e>>) = {e}
    <3>1. <<e>> \in Seq(1..MaxLine)  BY <2>2
    <3>2. DOMAIN <<e>> = 1..1 /\ <<e>>[1] = e  OBVIOUS
    <3> QED  BY <3>1, <3>2 DEF ToSet
  <2>5. content \in Seq(1..MaxLine) /\ ToSet(content) = {e} \cup ToSet(Tail(memory))
    <3> DEFINE a == <<e>>
               b == Tail(memory)
    <3>1. a \in Seq(1..MaxLine) /\ b \in Seq(1..MaxLine) /\ ToSet(a) = {e}  BY <2>3, <2>4
    <3> HIDE DEF a, b
    <3>2. a \o b \in Seq(1..MaxLine) /\ ToSet(a \o b) = ToSet(a) \cup ToSet(b)
      BY <3>1, ConcatLines
    <3> QED  BY <3>1, <3>2 DEF a, b
  <2> HIDE DEF content
  <2>6. content \in Lines  BY <2>5 DEF Lines
  <2> QED  BY <1>1, <2>1, <2>2, <2>3, <2>5, <2>6, RewriteKeeps
<1> QED  BY <1>2, <1>3, <1>4

(* flush(): the buffer is drained, and the flush waits behind all there is.*)
LEMMA FlushCallKeeps ==
  ASSUME WriterInv, NEW f \in Flush, FlushCall(f) PROVE WriterInv'
<1> DEFINE d == Drained(buffered)
<1>1. /\ running /\ flush[f] = "idle" /\ flush' = [flush EXCEPT ![f] = "waiting"]
      /\ flushesOverlap' = (flushesOverlap \/ Waiting # {})
      /\ snapshot' = [snapshot EXCEPT ![f] = memory]
      /\ timer' = FALSE /\ buffered' = <<>> /\ chain' = Append(d, Barrier(f))
      /\ UNCHANGED <<memory, error, shut, file, replaced, running, accepted, rewrites, faults, promised>>
  BY DEF FlushCall
<1>2. /\ buffered \in Lines /\ memory \in Lines /\ <<>> \in Lines
      /\ flush \in [Flush -> {"idle", "waiting", "resolved", "rejected"}] /\ snapshot \in [Flush -> Lines]
  BY EmptySeq DEF WriterInv, LineTypes, Lines
<1>3. /\ d \in Seq(Op) /\ Len(d) \in Nat /\ Len(chain) \in Nat /\ Len(d) >= Len(chain)
      /\ \A i \in 1..Len(chain) : d[i] = chain[i]
      /\ \A i \in Len(chain) + 1..Len(d) : d[i].op = "batch"
      /\ \A x : \A j \in 1..Len(chain) + 1 : Carried(file, chain, x, j) => Carried(file, d, x, j)
  BY <1>2, DrainFacts DEF WriterInv
<1>4. DiskKeeps => \A x \in ToSet(memory) : Carried(file, d, x, Len(d) + 1)
  BY <1>2, DrainCarries
<1>5. Barrier(f) \in Op /\ Barrier(f).op = "flush" /\ Barrier(f).call = f  BY OpFacts
<1> HIDE DEF d
<1>6. /\ chain' \in Seq(Op) /\ Len(chain') = Len(d) + 1 /\ chain'[Len(d) + 1] = Barrier(f)
      /\ \A i \in 1..Len(d) : chain'[i] = d[i]
      /\ \A x : \A j \in 1..Len(d) + 1 : Carried(file, d, x, j) => Carried(file, chain', x, j)
      /\ \A x : Carried(file, d, x, Len(d) + 1) => Carried(file, chain', x, Len(chain') + 1)
  <2>1. /\ chain' \in Seq(Op) /\ Len(chain') = Len(d) + 1 /\ chain'[Len(d) + 1] = Barrier(f)
        /\ \A i \in 1..Len(d) : chain'[i] = d[i]
    BY <1>1, <1>3, <1>5, AppendProperties
  <2>2. ASSUME NEW x
        PROVE  /\ \A j \in 1..Len(d) + 1 : Carried(file, d, x, j) => Carried(file, chain', x, j)
               /\ Carried(file, d, x, Len(d) + 1) => Carried(file, chain', x, Len(chain') + 1)
    BY <1>1, <1>3, <1>5, CarriedPush
  <2> QED  BY <2>1, <2>2
<1>7. LineTypes' /\ Numbered'
  BY <1>1, <1>2, <1>6 DEF WriterInv, LineTypes, Numbered
<1>8. /\ Barriers' = Barriers \cup {Len(d) + 1} /\ Barriers \subseteq 1..Len(chain)
      /\ \A j \in Barriers : j \in 1..Len(d) /\ chain'[j] = chain[j]
  <2>1. ASSUME NEW i \in 1..Len(chain') PROVE i \in 1..Len(chain) \/ i \in Len(chain) + 1..Len(d) \/ i = Len(d) + 1
    BY <1>3, <1>6
  <2>2. \A i \in Len(chain) + 1..Len(d) : i \in 1..Len(d) /\ chain'[i].op = "batch"  BY <1>3, <1>6
  <2>3. \A i \in 1..Len(chain) : i \in 1..Len(d) /\ i \in 1..Len(chain') /\ chain'[i] = chain[i]
    BY <1>3, <1>6
  <2>4. Len(d) + 1 \in 1..Len(chain') /\ chain'[Len(d) + 1].op = "flush"  BY <1>3, <1>5, <1>6
  <2> QED  BY <2>1, <2>2, <2>3, <2>4 DEF Barriers
<1>9. \A j \in Barriers : chain[j].call \in Flush
  <2> SUFFICES ASSUME NEW j \in Barriers PROVE chain[j].call \in Flush  OBVIOUS
  <2>1. chain[j] \in Op /\ chain[j].op = "flush"
    BY <1>8, ElementOfSeq DEF Barriers, WriterInv, LineTypes
  <2> QED  BY <2>1, OpFacts
<1>10. ~flushesOverlap' => Barriers = {} /\ ~flushesOverlap
  <2> SUFFICES ASSUME ~flushesOverlap', NEW j \in Barriers PROVE FALSE  BY <1>1
  <2>1. ~flushesOverlap /\ Waiting = {}  BY <1>1
  <2>2. flush[chain[j].call] = "waiting"  BY <2>1 DEF WriterInv, OneBarrier
  <2> QED  BY <1>9, <2>1, <2>2 DEF Waiting
<1>11. OneBarrier'
  <2> SUFFICES ASSUME ~flushesOverlap'
               PROVE  /\ \A j \in Barriers' : flush'[chain'[j].call] = "waiting"
                      /\ \A i, j \in Barriers' : i = j
    BY DEF OneBarrier
  <2>1. Barriers' = {Len(d) + 1}  BY <1>8, <1>10
  <2> QED  BY <1>1, <1>2, <1>5, <1>6, <2>1
<1>12. DiskKeeps' = DiskKeeps /\ \A K : Had(K)' = Had(K)
  BY <1>1, FaultsKept DEF DiskKeeps
<1>13. AllCarried'
  BY <1>1, <1>4, <1>6, <1>12 DEF AllCarried
<1>14. BarriersCover'
  <2> SUFFICES ASSUME DiskKeeps, ~flushesOverlap', NEW j \in Barriers'
               PROVE  /\ error \/ \A x \in CoveredBy(j)' : Carried(file, chain', x, j)
                      /\ \A r \in j + 1..Len(chain') :
                           chain'[r].op = "rewrite" => CoveredBy(j)' \subseteq ToSet(chain'[r].lines)
    BY <1>1, <1>12 DEF BarriersCover
  <2>1. j = Len(d) + 1  BY <1>8, <1>10
  <2>2. CoveredBy(j)' \subseteq ToSet(memory)  BY <1>1 DEF CoveredBy
  <2>3. \A x \in CoveredBy(j)' : Carried(file, chain', x, j)
    <3>1. j \in 1..Len(d) + 1  BY <1>3, <2>1
    <3> QED  BY <1>4, <1>6, <2>1, <2>2, <3>1
  <2>4. j + 1..Len(chain') = {}  BY <1>3, <1>6, <2>1
  <2> QED  BY <2>3, <2>4
<1>15. PromisedOnDisk'
  <2> SUFFICES ASSUME ~flushesOverlap', ~Had(Losing)
               PROVE  /\ promised \subseteq ToSet(file)
                      /\ \A r \in 1..Len(chain') :
                           chain'[r].op = "rewrite" => promised \subseteq ToSet(chain'[r].lines)
    BY <1>1, <1>12 DEF PromisedOnDisk
  <2>1. /\ promised \subseteq ToSet(file)
        /\ \A r \in 1..Len(chain) : chain[r].op = "rewrite" => promised \subseteq ToSet(chain[r].lines)
    BY <1>1, <1>10 DEF WriterInv, Durability, PromisedOnDisk
  <2>2. ASSUME NEW r \in 1..Len(chain'), chain'[r].op = "rewrite" PROVE r \in 1..Len(chain) /\ chain'[r] = chain[r]
    <3>1. CASE r \in 1..Len(chain)  BY <1>3, <1>6, <3>1
    <3>2. CASE r \in Len(chain) + 1..Len(d)
      <4>1. r \in 1..Len(d) /\ chain'[r].op = "batch"  BY <1>3, <1>6, <3>2
      <4> QED  BY <2>2, <4>1
    <3>3. CASE r = Len(d) + 1  BY <1>5, <1>6, <2>2, <3>3
    <3> QED  BY <1>3, <1>6, <3>1, <3>2, <3>3
  <2> QED  BY <2>1, <2>2
<1>16. Lossless'
  <2> SUFFICES ASSUME ~Had({"overtaken"} \cup Losing) PROVE Replayed' \o buffered' = memory'
    BY <1>1, <1>12 DEF Lossless
  <2>1. Replayed \o buffered = memory  BY <1>1 DEF WriterInv, Lossless
  <2>2. Contents(file, d)[Len(d)] = (IF buffered = <<>> THEN Replayed ELSE Replayed \o buffered)
    BY <1>2, DrainReplays DEF WriterInv, d
  <2>3. Contents(file, chain')[Len(d) + 1] = After(Contents(file, d)[Len(d)], Barrier(f))
    BY <1>1, <1>3, <1>5, ContentsAppend
  <2>4. \A s : After(s, Barrier(f)) = s  BY DEF After, Barrier
  <2>5. Replayed' = (IF buffered = <<>> THEN Replayed ELSE Replayed \o buffered)
    BY <1>1, <1>6, <2>2, <2>3, <2>4 DEF Replayed
  <2>6. Replayed \in Seq({Torn} \cup 1..MaxLine)  BY ReplayType DEF WriterInv
  <2>7. Replayed \o <<>> = Replayed /\ (Replayed \o buffered) \o <<>> = Replayed \o buffered
    BY <1>2, <2>6, Join, ConcatEmptySeq
  <2> QED  BY <1>1, <2>1, <2>5, <2>7
<1>17. BufferIsTimed'  BY <1>1 DEF BufferIsTimed
<1> QED  BY <1>7, <1>11, <1>13, <1>14, <1>15, <1>16, <1>17 DEF WriterInv, Durability

(* The chain has come to the flush: if nothing failed, all it covers is in *)
(* the file, and it is promised.                                           *)
LEMMA FlushReturnsKeeps ==
  ASSUME WriterInv, NEW f \in Flush, FlushReturns(f) PROVE WriterInv'
<1>1. /\ running /\ chain # <<>> /\ Head(chain) = Barrier(f) /\ chain' = Tail(chain)
      /\ flush' = [flush EXCEPT ![f] = IF error THEN "rejected" ELSE "resolved"]
      /\ promised' = (IF error THEN promised
                      ELSE promised \cup (ToSet(snapshot[f]) \cap ToSet(memory)))
      /\ error' = FALSE /\ shut' = (shut \/ f \in Closers) /\ timer' = (timer /\ f \notin Closers)
      /\ UNCHANGED <<memory, buffered, file, replaced, running, accepted, rewrites, faults, snapshot,
                     flushesOverlap>>
  BY DEF FlushReturns
<1>2. chain \in Seq(Op) /\ Barrier(f).op = "flush" /\ Barrier(f).call = f
  BY OpFacts DEF WriterInv, LineTypes
<1>3. /\ chain' \in Seq(Op) /\ Len(chain) \in Nat \ {0} /\ Len(chain') = Len(chain) - 1
      /\ chain[1] = Barrier(f)
      /\ \A i \in 1..Len(chain') : chain'[i] = chain[i + 1]
  BY <1>1, <1>2, HeadTailProperties, LenProperties, EmptySeq
<1>4. \A x : \A j \in 2..Len(chain) + 1 : Carried(file, chain, x, j) => Carried(file, chain', x, j - 1)
  <2> SUFFICES ASSUME NEW x, NEW j \in 2..Len(chain) + 1, Carried(file, chain, x, j)
               PROVE  Carried(file, chain', x, j - 1)
    OBVIOUS
  <2>1. chain[1].op = "flush"  BY <1>2, <1>3
  <2>2. Carried(file, Tail(chain), x, j - 1)
    BY <1>1, <1>2, <2>1, CarriedPast
  <2> QED  BY <1>1, <2>2
<1>5. LineTypes' /\ Numbered'
  <2>1. flush' \in [Flush -> {"idle", "waiting", "resolved", "rejected"}]
    BY <1>1 DEF WriterInv, LineTypes
  <2>2. {error, running, timer, shut, flushesOverlap}' \subseteq BOOLEAN
    BY <1>1 DEF WriterInv, LineTypes
  <2> QED  BY <1>1, <1>3, <2>1, <2>2 DEF WriterInv, LineTypes, Numbered
<1>6. 1 \in Barriers /\ CoveredBy(1) = ToSet(snapshot[f]) \cap ToSet(memory)
  BY <1>2, <1>3 DEF Barriers, CoveredBy
<1>7. ~flushesOverlap => Barriers' = {}
  <2> SUFFICES ASSUME ~flushesOverlap, NEW j \in Barriers' PROVE FALSE  OBVIOUS
  <2>1. j \in 1..Len(chain') /\ chain'[j].op = "flush"  BY DEF Barriers
  <2>2. j + 1 \in 1..Len(chain) /\ chain[j + 1].op = "flush"  BY <1>3, <2>1
  <2>3. j + 1 \in Barriers /\ j + 1 # 1  BY <2>1, <2>2 DEF Barriers
  <2> QED  BY <1>6, <2>3 DEF WriterInv, OneBarrier
<1>8. OneBarrier'  BY <1>1, <1>7 DEF OneBarrier
<1>9. DiskKeeps' = DiskKeeps /\ \A K : Had(K)' = Had(K)
  BY <1>1, FaultsKept DEF DiskKeeps
<1>10. AllCarried'
  <2> SUFFICES ASSUME DiskKeeps, NEW x \in ToSet(memory), x \notin ToSet(buffered)
               PROVE  Carried(file, chain', x, Len(chain') + 1)
    BY <1>1, <1>9 DEF AllCarried
  <2>1. Carried(file, chain, x, Len(chain) + 1)  BY DEF WriterInv, Durability, AllCarried
  <2>2. Len(chain) + 1 \in 2..Len(chain) + 1 /\ (Len(chain) + 1) - 1 = Len(chain') + 1  BY <1>3
  <2>3. Carried(file, chain', x, (Len(chain) + 1) - 1)  BY <1>4, <2>1, <2>2
  <2> QED  BY <2>2, <2>3
<1>11. BarriersCover'  BY <1>1, <1>7 DEF BarriersCover
<1>12. PromisedOnDisk'
  <2> SUFFICES ASSUME ~flushesOverlap, ~Had(Losing)
               PROVE  /\ promised' \subseteq ToSet(file)
                      /\ \A r \in 1..Len(chain') :
                           chain'[r].op = "rewrite" => promised' \subseteq ToSet(chain'[r].lines)
    BY <1>1, <1>9 DEF PromisedOnDisk
  <2>1. /\ promised \subseteq ToSet(file)
        /\ \A r \in 1..Len(chain) : chain[r].op = "rewrite" => promised \subseteq ToSet(chain[r].lines)
    BY <1>1 DEF WriterInv, Durability, PromisedOnDisk
  <2>2. /\ error \/ \A x \in CoveredBy(1) : Carried(file, chain, x, 1)
        /\ \A r \in 2..Len(chain) : chain[r].op = "rewrite" => CoveredBy(1) \subseteq ToSet(chain[r].lines)
    BY <1>1, <1>6 DEF WriterInv, Durability, BarriersCover, DiskKeeps
  <2>3. error \/ CoveredBy(1) \subseteq ToSet(file)
    BY <2>2 DEF Carried
  <2>4. promised' \subseteq ToSet(file)  BY <1>1, <1>6, <2>1, <2>3
  <2>5. ASSUME NEW r \in 1..Len(chain'), chain'[r].op = "rewrite"
        PROVE  promised' \subseteq ToSet(chain'[r].lines)
    <3>1. r + 1 \in 1..Len(chain) /\ r + 1 \in 2..Len(chain) /\ chain'[r] = chain[r + 1]  BY <1>3
    <3>2. promised \cup CoveredBy(1) \subseteq ToSet(chain[r + 1].lines)  BY <2>1, <2>2, <2>5, <3>1
    <3> QED  BY <1>1, <1>6, <3>1, <3>2
  <2> QED  BY <2>4, <2>5
<1>13. Lossless'
  <2>1. Replayed' = Replayed
    <3>1. Contents(file, chain)[Len(chain)] = Contents(After(file, Head(chain)), chain')[Len(chain')]
      BY <1>1, <1>2, ContentsTail
    <3>2. After(file, Head(chain)) = file  BY <1>1, <1>2 DEF After
    <3> QED  BY <1>1, <3>1, <3>2 DEF Replayed
  <2> QED  BY <1>1, <1>9, <2>1 DEF WriterInv, Lossless
<1>14. BufferIsTimed'  BY <1>1 DEF WriterInv, BufferIsTimed
<1> QED  BY <1>5, <1>8, <1>10, <1>11, <1>12, <1>13, <1>14 DEF WriterInv, Durability

-----------------------------------------------------------------------------
(* An operation ends that is no flush.  What it had to write is in the new *)
(* file or, in X, back in the buffer, and then the error is recorded.      *)
LEMMA PopKeeps ==
  ASSUME WriterInv, running, chain # <<>>, Head(chain).op # "flush", chain' = Tail(chain),
         UNCHANGED <<memory, running, flush, accepted, snapshot, promised, flushesOverlap>>,
         NEW X, ToSet(buffered') = X \cup ToSet(buffered), X # {} => error', error => error',
         Had(Losing) => Had(Losing)',
         ~Had(Losing)' => \A x :
           /\ Head(chain).op # "rewrite" /\ x \in ToSet(file) => x \in ToSet(file')
           /\ x \in ToSet(Head(chain).lines) => x \in ToSet(file') \cup X,
         Head(chain).op = "rewrite" => X = {}
  PROVE  chain' \in Seq(Op) /\ OneBarrier' /\ Durability'
<1>1. chain \in Seq(Op)  BY DEF WriterInv, LineTypes
<1>2. /\ chain' \in Seq(Op) /\ Len(chain) \in Nat \ {0} /\ Len(chain') = Len(chain) - 1
      /\ Head(chain) = chain[1]
      /\ \A i \in 1..Len(chain') : chain'[i] = chain[i + 1]
  BY <1>1, HeadTailProperties, LenProperties, EmptySeq
<1>3. ~Had(Losing)' => \A x : \A j \in 2..Len(chain) + 1 :
        Carried(file, chain, x, j) => x \in X \/ Carried(file', chain', x, j - 1)
  <2> SUFFICES ASSUME ~Had(Losing)', NEW x, NEW j \in 2..Len(chain) + 1,
                      Carried(file, chain, x, j)
               PROVE  x \in X \/ Carried(file', chain', x, j - 1)
    OBVIOUS
  <2>1. /\ chain[1].op # "rewrite" /\ x \in ToSet(file) => x \in ToSet(file') \cup X
        /\ chain[1].op # "flush" /\ x \in ToSet(chain[1].lines) => x \in ToSet(file') \cup X
    BY <1>2
  <2>2. x \in X \/ Carried(file', Tail(chain), x, j - 1)
    BY <1>1, <2>1, CarriedOn
  <2> QED  BY <2>2
<1>4. \A j \in Barriers' : j + 1 \in Barriers /\ chain'[j] = chain[j + 1]
  <2> SUFFICES ASSUME NEW j \in Barriers' PROVE j + 1 \in Barriers /\ chain'[j] = chain[j + 1]
    OBVIOUS
  <2>1. j \in 1..Len(chain') /\ chain'[j].op = "flush"  BY DEF Barriers
  <2>2. j + 1 \in 1..Len(chain) /\ chain'[j] = chain[j + 1]  BY <1>2, <2>1
  <2> QED  BY <2>1, <2>2 DEF Barriers
<1>5. OneBarrier'
  <2> SUFFICES ASSUME ~flushesOverlap
               PROVE  /\ \A j \in Barriers' : flush[chain'[j].call] = "waiting"
                      /\ \A i, j \in Barriers' : i = j
    BY DEF OneBarrier
  <2>1. /\ \A j \in Barriers : flush[chain[j].call] = "waiting"
        /\ \A i, j \in Barriers : i = j
    BY DEF WriterInv, OneBarrier
  <2>2. ASSUME NEW j \in Barriers' PROVE flush[chain'[j].call] = "waiting"
    BY <1>4, <2>1
  <2>3. ASSUME NEW i \in Barriers', NEW j \in Barriers' PROVE i = j
    <3>1. i \in Int /\ j \in Int  BY DEF Barriers
    <3>2. i + 1 = j + 1  BY <1>4, <2>1
    <3> QED  BY <3>1, <3>2
  <2> QED  BY <2>2, <2>3
<1>6. DiskKeeps' => DiskKeeps /\ ~Had(Losing)'
  BY DEF DiskKeeps
<1>7. AllCarried'
  <2> SUFFICES ASSUME DiskKeeps', NEW x \in ToSet(memory), x \notin ToSet(buffered')
               PROVE  Carried(file', chain', x, Len(chain') + 1)
    BY DEF AllCarried
  <2>1. Carried(file, chain, x, Len(chain) + 1) /\ x \notin X
    BY <1>6 DEF WriterInv, Durability, AllCarried
  <2>2. Len(chain) + 1 \in 2..Len(chain) + 1 /\ (Len(chain) + 1) - 1 = Len(chain') + 1  BY <1>2
  <2>3. Carried(file', chain', x, (Len(chain) + 1) - 1)  BY <1>3, <1>6, <2>1, <2>2
  <2> QED  BY <2>2, <2>3
<1>8. BarriersCover'
  <2> SUFFICES ASSUME DiskKeeps', ~flushesOverlap, NEW j \in Barriers'
               PROVE  /\ error' \/ \A x \in CoveredBy(j)' : Carried(file', chain', x, j)
                      /\ \A r \in j + 1..Len(chain') :
                           chain'[r].op = "rewrite" => CoveredBy(j)' \subseteq ToSet(chain'[r].lines)
    BY DEF BarriersCover
  <2>1. /\ j + 1 \in Barriers /\ chain'[j] = chain[j + 1] /\ j \in 1..Len(chain')
        /\ CoveredBy(j)' = CoveredBy(j + 1)
    BY <1>4 DEF Barriers, CoveredBy
  <2>2. /\ error \/ \A x \in CoveredBy(j + 1) : Carried(file, chain, x, j + 1)
        /\ \A r \in (j + 1) + 1..Len(chain) :
             chain[r].op = "rewrite" => CoveredBy(j + 1) \subseteq ToSet(chain[r].lines)
    BY <1>6, <2>1 DEF WriterInv, Durability, BarriersCover
  <2>3. error' \/ \A x \in CoveredBy(j)' : Carried(file', chain', x, j)
    <3> SUFFICES ASSUME ~error', NEW x \in CoveredBy(j + 1) PROVE Carried(file', chain', x, j)
      BY <2>1
    <3>1. Carried(file, chain, x, j + 1) /\ x \notin X  BY <2>2
    <3>2. j + 1 \in 2..Len(chain) + 1 /\ (j + 1) - 1 = j  BY <1>2, <2>1
    <3>3. Carried(file', chain', x, (j + 1) - 1)  BY <1>3, <1>6, <3>1, <3>2
    <3> QED  BY <3>2, <3>3
  <2>4. ASSUME NEW r \in j + 1..Len(chain'), chain'[r].op = "rewrite"
        PROVE  CoveredBy(j)' \subseteq ToSet(chain'[r].lines)
    <3>1. r + 1 \in (j + 1) + 1..Len(chain) /\ r \in 1..Len(chain')  BY <1>2, <2>1
    <3>2. chain'[r] = chain[r + 1]  BY <1>2, <3>1
    <3> QED  BY <2>1, <2>2, <2>4, <3>1, <3>2
  <2> QED  BY <2>3, <2>4
<1>9. PromisedOnDisk'
  <2> SUFFICES ASSUME ~flushesOverlap, ~Had(Losing)'
               PROVE  /\ promised \subseteq ToSet(file')
                      /\ \A r \in 1..Len(chain') :
                           chain'[r].op = "rewrite" => promised \subseteq ToSet(chain'[r].lines)
    BY DEF PromisedOnDisk
  <2>1. /\ promised \subseteq ToSet(file)
        /\ \A r \in 1..Len(chain) : chain[r].op = "rewrite" => promised \subseteq ToSet(chain[r].lines)
    BY DEF WriterInv, Durability, PromisedOnDisk
  <2>2. promised \subseteq ToSet(file')
    <3>1. CASE Head(chain).op = "rewrite"
      <4>1. promised \subseteq ToSet(Head(chain).lines)  BY <1>2, <2>1, <3>1
      <4> QED  BY <3>1, <4>1
    <3>2. CASE Head(chain).op # "rewrite"  BY <2>1, <3>2
    <3> QED  BY <3>1, <3>2
  <2>3. ASSUME NEW r \in 1..Len(chain'), chain'[r].op = "rewrite"
        PROVE  promised \subseteq ToSet(chain'[r].lines)
    <3>1. r + 1 \in 1..Len(chain) /\ chain'[r] = chain[r + 1]  BY <1>2
    <3> QED  BY <2>1, <2>3, <3>1
  <2> QED  BY <2>2, <2>3
<1> QED  BY <1>2, <1>5, <1>7, <1>8, <1>9 DEF Durability

-----------------------------------------------------------------------------
(* What a stopped write leaves: the file as it was, and more.              *)
LEMMA Partial ==
  ASSUME NEW s \in Seq({Torn} \cup 1..MaxLine), NEW t \in Lines, NEW part \in PartsOf(t)
  PROVE  s \o part \in Seq({Torn} \cup 1..MaxLine) /\ ToSet(s) \subseteq ToSet(s \o part)
<1> DEFINE T == {Torn} \cup 1..MaxLine
           q == <<Torn>>
<1>1. t \in Seq(T) /\ Len(t) \in Nat /\ \A i \in 1..Len(t) : t[i] \in T
  <2>1. t \in Seq(T)  BY Join
  <2> HIDE DEF T
  <2> QED  BY <2>1, LenProperties, ElementOfSeq
<1>2. q \in Seq(T)  OBVIOUS
<1>3. \/ \E k \in 0..Len(t) : part = SubSeq(t, 1, k)
      \/ \E k \in 0..Len(t) - 1 : part = SubSeq(t, 1, k) \o q
  BY DEF PartsOf
<1> HIDE DEF T, q
<1>4. \A k \in 0..Len(t) : SubSeq(t, 1, k) \in Seq(T)
  BY <1>1, SubSeqProperties
<1>5. \A k \in 0..Len(t) : SubSeq(t, 1, k) \o q \in Seq(T)
  BY <1>2, <1>4, ConcatProperties
<1>6. part \in Seq(T)
  <2>1. 0..Len(t) - 1 \subseteq 0..Len(t)  BY <1>1
  <2> QED  BY <1>3, <1>4, <1>5, <2>1
<1>7. s \o part \in Seq(T) /\ ToSet(s \o part) = ToSet(s) \cup ToSet(part)
  BY <1>6, ConcatLines DEF T
<1> QED  BY <1>7 DEF T

(* An operation done leaves what the file comes to hold.                   *)
LEMMA DoneReplays ==
  ASSUME LineTypes, chain # <<>>, chain' = Tail(chain), file' = After(file, Head(chain))
  PROVE  Replayed' = Replayed
<1>1. Contents(file, chain)[Len(chain)] = Contents(file', chain')[Len(chain')]
  BY ContentsTail DEF LineTypes
<1> QED  BY <1>1 DEF Replayed

(* The batch at the head of the chain is written.                          *)
LEMMA BatchWrittenKeeps == ASSUME WriterInv, BatchWritten PROVE WriterInv'
<1>1. /\ running /\ chain # <<>> /\ Head(chain).op = "batch" /\ chain' = Tail(chain)
      /\ file' = file \o Head(chain).lines
      /\ UNCHANGED <<memory, buffered, error, timer, shut, replaced, flush, running, accepted,
                     rewrites, faults, snapshot, promised, flushesOverlap>>
  BY DEF BatchWritten, Resolves
<1>2. /\ LineTypes /\ Head(chain) \in Op /\ Head(chain).lines \in Lines
      /\ file \in Seq({Torn} \cup 1..MaxLine)
  <2>1. LineTypes  BY DEF WriterInv
  <2>2. Head(chain) \in Op  BY <1>1, <2>1, HeadTailProperties DEF LineTypes
  <2> QED  BY <1>1, <2>1, <2>2, OpFacts DEF LineTypes
<1> DEFINE b == Head(chain).lines
<1>3. file' \in Seq({Torn} \cup 1..MaxLine) /\ ToSet(file') = ToSet(file) \cup ToSet(b)
  <2>1. b \in Seq({Torn} \cup 1..MaxLine)  BY <1>2, Join
  <2> QED  BY <1>1, <1>2, <2>1, ConcatLines
<1>4. chain' \in Seq(Op) /\ OneBarrier' /\ Durability'
  <2>1. PICK X : X = {}  OBVIOUS
  <2>2. Had(Losing)' = Had(Losing)  BY <1>1, FaultsKept
  <2>3. ToSet(buffered') = X \cup ToSet(buffered) /\ X = {} /\ (error => error')
    BY <1>1, <2>1
  <2>4. \A x : /\ x \in ToSet(file) => x \in ToSet(file')
               /\ x \in ToSet(Head(chain).lines) => x \in ToSet(file') \cup X
    BY <1>3
  <2>5. Head(chain).op # "flush" /\ Head(chain).op # "rewrite"  BY <1>1
  <2> QED  BY <1>1, <2>2, <2>3, <2>4, <2>5, PopKeeps
<1>5. LineTypes' /\ Numbered'
  BY <1>1, <1>2, <1>3, <1>4 DEF WriterInv, LineTypes, Numbered
<1>6. Lossless'
  <2>1. file' = After(file, Head(chain))  BY <1>1 DEF After
  <2>2. Replayed' = Replayed  BY <1>1, <1>2, <2>1, DoneReplays
  <2> QED  BY <1>1, <2>2, FaultsKept DEF WriterInv, Lossless
<1>7. BufferIsTimed'  BY <1>1 DEF WriterInv, BufferIsTimed
<1> QED  BY <1>4, <1>5, <1>6, <1>7 DEF WriterInv

(* The rewrite at the head of the chain is published.                      *)
LEMMA RewritePublishedKeeps == ASSUME WriterInv, RewritePublished PROVE WriterInv'
<1>1. /\ running /\ chain # <<>> /\ Head(chain).op = "rewrite" /\ chain' = Tail(chain)
      /\ file' = Head(chain).lines /\ replaced' = {}
      /\ UNCHANGED <<memory, buffered, error, timer, shut, flush, running, accepted,
                     rewrites, faults, snapshot, promised, flushesOverlap>>
  BY DEF RewritePublished, Resolves
<1>2. /\ LineTypes /\ Head(chain) \in Op /\ Head(chain).lines \in Lines
      /\ file \in Seq({Torn} \cup 1..MaxLine)
  <2>1. LineTypes  BY DEF WriterInv
  <2>2. Head(chain) \in Op  BY <1>1, <2>1, HeadTailProperties DEF LineTypes
  <2> QED  BY <1>1, <2>1, <2>2, OpFacts DEF LineTypes
<1>3. file' \in Seq({Torn} \cup 1..MaxLine)  BY <1>1, <1>2, Join
<1>4. chain' \in Seq(Op) /\ OneBarrier' /\ Durability'
  <2>1. PICK X : X = {}  OBVIOUS
  <2>2. Had(Losing)' = Had(Losing)  BY <1>1, FaultsKept
  <2>3. ToSet(buffered') = X \cup ToSet(buffered) /\ X = {} /\ (error => error')
    BY <1>1, <2>1
  <2>4. \A x : x \in ToSet(Head(chain).lines) => x \in ToSet(file') \cup X
    BY <1>1
  <2>5. Head(chain).op # "flush" /\ Head(chain).op = "rewrite"  BY <1>1
  <2> QED  BY <1>1, <2>2, <2>3, <2>4, <2>5, PopKeeps
<1>5. LineTypes' /\ Numbered'
  BY <1>1, <1>2, <1>3, <1>4 DEF WriterInv, LineTypes, Numbered
<1>6. Lossless'
  <2>1. file' = After(file, Head(chain))  BY <1>1 DEF After
  <2>2. Replayed' = Replayed  BY <1>1, <1>2, <2>1, DoneReplays
  <2> QED  BY <1>1, <2>2, FaultsKept DEF WriterInv, Lossless
<1>7. BufferIsTimed'  BY <1>1 DEF WriterInv, BufferIsTimed
<1> QED  BY <1>4, <1>5, <1>6, <1>7 DEF WriterInv

-----------------------------------------------------------------------------
(* A batch fails: its lines are back in front of the buffer, and what the  *)
(* file held is in it still, or the fault is one that takes lines with it. *)
LEMMA BackInBuffer ==
  ASSUME WriterInv, Resolves("batch"), buffered' = Head(chain).lines \o buffered,
         NEW kind \in Faults, Fault(kind), kind \in Losing \/ ToSet(file) \subseteq ToSet(file'),
         file' \in Seq({Torn} \cup 1..MaxLine), replaced' = replaced, Lossless'
  PROVE  WriterInv'
<1>1. /\ running /\ chain # <<>> /\ Head(chain).op = "batch" /\ chain' = Tail(chain)
      /\ UNCHANGED <<memory, timer, shut, flush, running, accepted, rewrites, snapshot,
                     promised, flushesOverlap>>
  BY DEF Resolves, Fault
<1>2. LineTypes /\ Head(chain) \in Op /\ Head(chain).lines \in Lines /\ buffered \in Lines
  <2>1. LineTypes  BY DEF WriterInv
  <2>2. Head(chain) \in Op  BY <1>1, <2>1, HeadTailProperties DEF LineTypes
  <2> QED  BY <1>1, <2>1, <2>2, OpFacts DEF LineTypes
<1>3. faults' \in Seq(Faults) /\ faults' # <<>> /\ error' = TRUE /\ \A K : Had(K)' = (Had(K) \/ kind \in K)
  <2>1. error' = TRUE  BY DEF Fault
  <2> QED  BY <1>2, <2>1, FaultsGrow
<1>4. PICK X : X = ToSet(Head(chain).lines)  OBVIOUS
<1>5. buffered' \in Lines /\ ToSet(buffered') = X \cup ToSet(buffered)
  BY <1>2, <1>4, ConcatLines DEF Lines
<1>6. chain' \in Seq(Op) /\ OneBarrier' /\ Durability'
  <2>1. Had(Losing) => Had(Losing)'  BY <1>3
  <2>2. (X # {} => error') /\ (error => error')  BY <1>3
  <2>3. ASSUME ~Had(Losing)', NEW x
        PROVE  /\ x \in ToSet(file) => x \in ToSet(file')
               /\ x \in ToSet(Head(chain).lines) => x \in ToSet(file') \cup X
    BY <1>3, <1>4, <2>3
  <2>4. Head(chain).op # "flush" /\ Head(chain).op # "rewrite"  BY <1>1
  <2> QED  BY <1>1, <1>5, <2>1, <2>2, <2>3, <2>4, PopKeeps
<1>7. LineTypes' /\ Numbered'
  <2>1. {error, running, timer, shut, flushesOverlap}' \subseteq BOOLEAN
    BY <1>1, <1>3 DEF WriterInv, LineTypes
  <2> QED  BY <1>1, <1>3, <1>5, <1>6, <2>1 DEF WriterInv, LineTypes, Numbered
<1>8. BufferIsTimed'  BY <1>3 DEF BufferIsTimed
<1> QED  BY <1>6, <1>7, <1>8 DEF WriterInv

LEMMA BatchFailsKeeps == ASSUME WriterInv, BatchFails PROVE WriterInv'
<1> DEFINE b == Head(chain).lines
           over == \E i \in 2..Len(chain) : chain[i].op # "flush"
           kind == IF over THEN "overtaken" ELSE "batch"
<1>1. /\ Resolves("batch") /\ running /\ chain # <<>> /\ Head(chain).op = "batch" /\ chain' = Tail(chain)
      /\ buffered' = b \o buffered /\ UNCHANGED <<file, replaced>> /\ Fault(kind) /\ memory' = memory
      /\ running' = running
  BY DEF BatchFails, Resolves, Fault
<1>2. kind \in Faults  BY DEF Faults
<1>3. /\ LineTypes /\ Head(chain) \in Op /\ b \in Lines /\ buffered \in Lines
      /\ file \in Seq({Torn} \cup 1..MaxLine)
  <2>1. LineTypes  BY DEF WriterInv
  <2>2. Head(chain) \in Op  BY <1>1, <2>1, HeadTailProperties DEF LineTypes
  <2> QED  BY <1>1, <2>1, <2>2, OpFacts DEF LineTypes
<1>4. Lossless'
  <2> SUFFICES ASSUME ~Had({"overtaken"} \cup Losing)' PROVE Replayed' \o buffered' = memory'
    BY DEF Lossless
  <2>1. \A K : Had(K)' = (Had(K) \/ kind \in K)
    <3> HIDE DEF kind
    <3> QED  BY <1>1, <1>2, <1>3, FaultsGrow
  <2>2. ~over /\ ~Had({"overtaken"} \cup Losing)  BY <2>1
  <2>3. Replayed \o buffered = memory  BY <1>1, <2>2 DEF WriterInv, Lossless
  <2>4. /\ chain' \in Seq(Op) /\ Len(chain') = Len(chain) - 1 /\ Len(chain) \in Nat
        /\ \A i \in 1..Len(chain') : chain'[i] = chain[i + 1]
    BY <1>1, <1>3, HeadTailProperties, LenProperties, EmptySeq DEF LineTypes
  <2>5. \A i \in 1..Len(chain') : chain'[i].op = "flush"
    <3> SUFFICES ASSUME NEW i \in 1..Len(chain') PROVE chain'[i].op = "flush"  OBVIOUS
    <3>1. i + 1 \in 2..Len(chain)  BY <2>4
    <3> QED  BY <2>2, <2>4, <3>1
  <2>6. /\ Contents(file, chain')[Len(chain')] = file
        /\ Contents(file \o b, chain')[Len(chain')] = file \o b
    BY <2>4, <2>5, ContentsIdle
  <2>7. Contents(file, chain)[Len(chain)] = Contents(file \o b, chain')[Len(chain')]
    <3>1. After(file, Head(chain)) = file \o b  BY <1>1 DEF After
    <3> QED  BY <1>1, <1>3, <3>1, ContentsTail DEF LineTypes
  <2>8. Replayed = file \o b /\ Replayed' = file  BY <1>1, <2>6, <2>7 DEF Replayed
  <2>9. (file \o b) \o buffered = file \o (b \o buffered)
    <3> HIDE DEF b
    <3> QED  BY <1>3, Join
  <2> QED  BY <1>1, <2>3, <2>8, <2>9
<1> HIDE DEF kind
<1> QED  BY <1>1, <1>2, <1>3, <1>4, BackInBuffer

(* The batch fails behind a failed stat(), and the file is emptied.        *)
LEMMA BatchFailsEmptiedKeeps == ASSUME WriterInv, BatchFailsEmptied PROVE WriterInv'
<1>1. /\ Resolves("batch") /\ chain # <<>> /\ Head(chain).op = "batch" /\ replaced' = replaced
      /\ buffered' = Head(chain).lines \o buffered /\ Fault("emptied") /\ file' = <<>>
  BY DEF BatchFailsEmptied, Resolves
<1>2. "emptied" \in Faults /\ "emptied" \in Losing  BY DEF Faults, Losing
<1>3. file' \in Seq({Torn} \cup 1..MaxLine)  BY <1>1, EmptySeq
<1>4. LineTypes  BY DEF WriterInv
<1>5. Lossless'
  <2>1. \A K : Had(K)' = (Had(K) \/ "emptied" \in K)  BY <1>1, <1>2, <1>4, FaultsGrow
  <2> QED  BY <1>2, <2>1 DEF Lossless
<1> QED  BY <1>1, <1>2, <1>3, <1>5, BackInBuffer

(* The batch fails and its rollback too.                                   *)
LEMMA BatchFailsDirtyKeeps == ASSUME WriterInv, BatchFailsDirty PROVE WriterInv'
<1>1. /\ Resolves("batch") /\ chain # <<>> /\ Head(chain).op = "batch" /\ replaced' = replaced
      /\ buffered' = Head(chain).lines \o buffered /\ Fault("dirty")
      /\ \E part \in PartsOf(Head(chain).lines) : file' = file \o part
  BY DEF BatchFailsDirty, Resolves
<1>2. "dirty" \in Faults /\ "dirty" \in Losing  BY DEF Faults, Losing
<1>3. /\ LineTypes /\ Head(chain).lines \in Lines /\ file \in Seq({Torn} \cup 1..MaxLine)
  <2>1. LineTypes  BY DEF WriterInv
  <2>2. Head(chain) \in Op  BY <1>1, <2>1, HeadTailProperties DEF LineTypes
  <2> QED  BY <1>1, <2>1, <2>2, OpFacts DEF LineTypes
<1>4. file' \in Seq({Torn} \cup 1..MaxLine)  BY <1>1, <1>3, Partial
<1>5. Lossless'
  <2>1. \A K : Had(K)' = (Had(K) \/ "dirty" \in K)  BY <1>1, <1>2, <1>3, FaultsGrow
  <2> QED  BY <1>2, <2>1 DEF Lossless
<1> QED  BY <1>1, <1>2, <1>4, <1>5, BackInBuffer

(* A rewrite fails, before its rename or after it.                         *)
LEMMA RewriteFailsKeeps == ASSUME WriterInv, RewriteFails \/ RewriteFailsLate PROVE WriterInv'
<1> DEFINE kind == IF RewriteFails THEN "rewrite" ELSE "late"
<1>1. /\ running /\ chain # <<>> /\ Head(chain).op = "rewrite" /\ chain' = Tail(chain)
      /\ buffered' = buffered
      /\ UNCHANGED <<memory, timer, shut, flush, running, accepted, rewrites, snapshot,
                     promised, flushesOverlap>>
  BY DEF RewriteFails, RewriteFailsLate, Resolves, Fault
<1>2. \/ file' = file /\ Fault("rewrite")
      \/ file' = Head(chain).lines /\ Fault("late")
  BY DEF RewriteFails, RewriteFailsLate
<1>2a. replaced' \in {replaced, replaced \cup {file}}
  BY DEF RewriteFails, RewriteFailsLate
<1>3. /\ LineTypes /\ Head(chain) \in Op /\ Head(chain).lines \in Lines
      /\ file \in Seq({Torn} \cup 1..MaxLine)
  <2>1. LineTypes  BY DEF WriterInv
  <2>2. Head(chain) \in Op  BY <1>1, <2>1, HeadTailProperties DEF LineTypes
  <2> QED  BY <1>1, <2>1, <2>2, OpFacts DEF LineTypes
<1>4. /\ faults' \in Seq(Faults) /\ faults' # <<>> /\ error' = TRUE
      /\ \A K : Had(K) => Had(K)'
      /\ \/ Had(Losing)' /\ Had({"overtaken"} \cup Losing)'
         \/ /\ file' = Head(chain).lines
            /\ Had({"overtaken"} \cup Losing)' = Had({"overtaken"} \cup Losing)
  <2>1. "rewrite" \in Faults /\ "late" \in Faults /\ "rewrite" \in Losing /\ "late" \notin {"overtaken"} \cup Losing
    BY DEF Faults, Losing
  <2>2. CASE Fault("rewrite")
    <3>1. error' = TRUE  BY <2>2 DEF Fault
    <3>2. /\ faults' \in Seq(Faults) /\ faults' # <<>>
          /\ \A K : Had(K)' = (Had(K) \/ "rewrite" \in K)
      BY <1>3, <2>1, <2>2, FaultsGrow
    <3> HIDE DEF Had
    <3>3. \A K : "rewrite" \in K => Had(K)'  BY <3>2
    <3>4. Had(Losing)' /\ Had({"overtaken"} \cup Losing)'  BY <2>1, <3>3
    <3> QED  BY <3>1, <3>2, <3>4
  <2>3. CASE Fault("late") /\ file' = Head(chain).lines
    <3>1. error' = TRUE  BY <2>3 DEF Fault
    <3>2. \A K : Had(K)' = (Had(K) \/ "late" \in K)  BY <1>3, <2>1, <2>3, FaultsGrow
    <3>3. Had({"overtaken"} \cup Losing)' = Had({"overtaken"} \cup Losing)
      BY <2>1, <3>2 DEF Had, Losing
    <3> QED  BY <1>3, <2>1, <2>3, <3>1, <3>2, <3>3, FaultsGrow
  <2> QED  BY <1>2, <2>2, <2>3
<1>5. /\ file' \in Seq({Torn} \cup 1..MaxLine)
      /\ replaced' \subseteq Seq({Torn} \cup 1..MaxLine)
  <2>1. Head(chain).lines \in Seq({Torn} \cup 1..MaxLine)  BY <1>3, Join
  <2>2. replaced \subseteq Seq({Torn} \cup 1..MaxLine)  BY <1>3 DEF LineTypes
  <2> QED  BY <1>2, <1>2a, <1>3, <2>1, <2>2
<1>6. chain' \in Seq(Op) /\ OneBarrier' /\ Durability'
  <2>1. PICK X : X = {}  OBVIOUS
  <2>2. Had(Losing) => Had(Losing)'  BY <1>4
  <2>3. ToSet(buffered') = X \cup ToSet(buffered) /\ X = {} /\ (error => error')
    BY <1>1, <1>4, <2>1
  <2>4. ~Had(Losing)' => \A x : x \in ToSet(Head(chain).lines) => x \in ToSet(file') \cup X
    BY <1>4
  <2>5. Head(chain).op # "flush" /\ Head(chain).op = "rewrite"  BY <1>1
  <2> QED  BY <1>1, <2>2, <2>3, <2>4, <2>5, PopKeeps
<1>7. LineTypes' /\ Numbered'
  <2>1. {error, running, timer, shut, flushesOverlap}' \subseteq BOOLEAN
    BY <1>1, <1>4 DEF WriterInv, LineTypes
  <2> QED  BY <1>1, <1>4, <1>5, <1>6, <2>1 DEF WriterInv, LineTypes, Numbered
<1>8. Lossless'
  <2> SUFFICES ASSUME ~Had({"overtaken"} \cup Losing)' PROVE Replayed' \o buffered' = memory'
    BY DEF Lossless
  <2>1. file' = Head(chain).lines /\ ~Had({"overtaken"} \cup Losing)  BY <1>4
  <2>2. file' = After(file, Head(chain))  BY <1>1, <2>1 DEF After
  <2>3. Replayed' = Replayed  BY <1>1, <1>3, <2>2, DoneReplays
  <2> QED  BY <1>1, <2>1, <2>3 DEF WriterInv, Lossless
<1>9. BufferIsTimed'  BY <1>4 DEF BufferIsTimed
<1> QED  BY <1>6, <1>7, <1>8, <1>9 DEF WriterInv

(* The process dies, in the middle of an operation or between two.         *)
LEMMA WriterCrashKeeps == ASSUME WriterInv, WriterCrash PROVE WriterInv'
<1>1. /\ running /\ running' = FALSE
      /\ buffered' = <<>> /\ chain' = <<>> /\ error' = FALSE /\ timer' = FALSE
      /\ UNCHANGED <<memory, shut, replaced, flush, accepted, rewrites, faults, snapshot,
                     promised, flushesOverlap>>
  BY DEF WriterCrash
<1>2. /\ LineTypes /\ file \in Seq({Torn} \cup 1..MaxLine)
      /\ replaced \subseteq Seq({Torn} \cup 1..MaxLine)
  BY DEF WriterInv, LineTypes
<1>3. chain # <<>> => /\ Head(chain) = chain[1] /\ 1 \in 1..Len(chain) /\ Head(chain) \in Op
                      /\ Head(chain).op # "flush" => Head(chain).lines \in Lines
  <2> SUFFICES ASSUME chain # <<>>
               PROVE  /\ Head(chain) = chain[1] /\ 1 \in 1..Len(chain) /\ Head(chain) \in Op
                      /\ Head(chain).op # "flush" => Head(chain).lines \in Lines
    OBVIOUS
  <2>1. Head(chain) = chain[1] /\ 1 \in 1..Len(chain) /\ Head(chain) \in Op
    BY <1>2, HeadTailProperties, LenProperties, EmptySeq DEF LineTypes
  <2> QED  BY <2>1, OpFacts
<1>4. /\ file' \in Seq({Torn} \cup 1..MaxLine)
      /\ \/ ToSet(file) \subseteq ToSet(file')
         \/ chain # <<>> /\ Head(chain).op = "rewrite" /\ file' = Head(chain).lines
         \/ replaced # {}
  <2>1. CASE file' \in {file} \cup replaced  BY <1>2, <2>1
  <2>2. CASE /\ chain # <<>> /\ Head(chain).op = "batch"
             /\ \E part \in PartsOf(Head(chain).lines) : file' = file \o part
    BY <1>2, <1>3, <2>2, Partial
  <2>3. CASE chain # <<>> /\ Head(chain).op = "rewrite" /\ file' = Head(chain).lines
    <3>1. Head(chain).lines \in Lines  BY <1>3, <2>3
    <3>2. Head(chain).lines \in Seq({Torn} \cup 1..MaxLine)  BY <1>2, <3>1, Join
    <3> QED  BY <2>3, <3>2
  <2> QED  BY <2>1, <2>2, <2>3 DEF WriterCrash
<1>5. LineTypes' /\ Numbered'
  <2>1. {error, running, timer, shut, flushesOverlap}' \subseteq BOOLEAN
    BY <1>1, <1>2 DEF LineTypes
  <2>2. <<>> \in Lines /\ <<>> \in Seq(Op)  BY EmptySeq DEF Lines
  <2> QED  BY <1>1, <1>4, <2>1, <2>2 DEF WriterInv, LineTypes, Numbered
<1>6. Len(chain') = 0 /\ Barriers' = {}
  <2>1. Len(chain') = 0  BY <1>1, EmptySeq
  <2> QED  BY <2>1 DEF Barriers
<1>7. OneBarrier' /\ AllCarried' /\ BarriersCover' /\ Lossless' /\ BufferIsTimed'
  BY <1>1, <1>6 DEF OneBarrier, AllCarried, BarriersCover, DiskKeeps, Lossless, BufferIsTimed
<1>8. PromisedOnDisk'
  <2> SUFFICES ASSUME ~flushesOverlap, ~Had(Losing), replaced = {} PROVE promised \subseteq ToSet(file')
    BY <1>1, <1>6, FaultsKept DEF PromisedOnDisk
  <2>1. /\ promised \subseteq ToSet(file)
        /\ \A r \in 1..Len(chain) : chain[r].op = "rewrite" => promised \subseteq ToSet(chain[r].lines)
    BY <1>1 DEF WriterInv, Durability, PromisedOnDisk
  <2> QED  BY <1>3, <1>4, <2>1
<1> QED  BY <1>5, <1>7, <1>8 DEF WriterInv, Durability

-----------------------------------------------------------------------------
LEMMA WriterStarts == WriterInit => WriterInv
<1> SUFFICES ASSUME WriterInit PROVE WriterInv  OBVIOUS
<1>1. /\ memory = <<>> /\ buffered = <<>> /\ chain = <<>> /\ file = <<>> /\ replaced = {} /\ faults = <<>>
      /\ error = FALSE /\ timer = FALSE /\ shut = FALSE /\ running = TRUE /\ flushesOverlap = FALSE
      /\ flush = [f \in Flush |-> "idle"] /\ accepted = 0 /\ promised = {}
      /\ snapshot = [f \in Flush |-> <<>>]
  BY DEF WriterInit
<1>2. \A T : <<>> \in Seq(T) /\ ToSet(<<>>) = {}  BY EmptySeq DEF ToSet
<1>3. Len(<<>>) = 0 /\ <<>> \in Seq(Op)  BY EmptySeq
<1>4. LineTypes
  <2>1. memory \in Lines /\ buffered \in Lines /\ chain \in Seq(Op)
    BY <1>1, <1>2 DEF Lines
  <2>2. /\ file \in Seq({Torn} \cup 1..MaxLine) /\ replaced \subseteq Seq({Torn} \cup 1..MaxLine)
        /\ faults \in Seq(Faults)
    BY <1>1, <1>2
  <2>3. flush \in [Flush -> {"idle", "waiting", "resolved", "rejected"}]  BY <1>1
  <2>4. snapshot \in [Flush -> Lines]
    <3>1. <<>> \in Lines  BY <1>2 DEF Lines
    <3> QED  BY <1>1, <3>1
  <2>5. {error, running, timer, shut, flushesOverlap} \subseteq BOOLEAN  BY <1>1
  <2>6. accepted \in 0..MaxLine  BY <1>1
  <2> QED  BY <2>1, <2>2, <2>3, <2>4, <2>5, <2>6 DEF LineTypes
<1>5. Numbered  BY <1>1, <1>2 DEF Numbered
<1>6. OneBarrier /\ Durability
  BY <1>1, <1>2, <1>3 DEF OneBarrier, Barriers, Durability, AllCarried, BarriersCover, PromisedOnDisk
<1>7. Lossless
  <2>1. Replayed = <<>>
    <3>1. chain \in Seq(Op) /\ \A i \in 1..Len(chain) : chain[i].op = "flush"  BY <1>1, <1>3
    <3>2. Contents(file, chain)[Len(chain)] = file  BY <3>1, ContentsIdle
    <3> QED  BY <1>1, <3>2 DEF Replayed
  <2>2. <<>> \o <<>> = <<>>  BY <1>3, ConcatEmptySeq
  <2> QED  BY <1>1, <2>1, <2>2 DEF Lossless
<1>8. BufferIsTimed  BY <1>1 DEF BufferIsTimed
<1> QED  BY <1>4, <1>5, <1>6, <1>7, <1>8 DEF WriterInv

LEMMA WriterSteps == WriterInv /\ [WriterNext]_writerVars => WriterInv'
<1> SUFFICES ASSUME WriterInv, [WriterNext]_writerVars PROVE WriterInv'  OBVIOUS
<1>1. CASE UNCHANGED writerVars
  <2>1. LineTypes' /\ Numbered' /\ OneBarrier' /\ BufferIsTimed'
    BY <1>1 DEF writerVars, WriterInv, LineTypes, Numbered, OneBarrier, Barriers, BufferIsTimed
  <2>2. \A K : Had(K)' = Had(K)  BY <1>1, FaultsKept DEF writerVars
  <2>3. DiskKeeps' = DiskKeeps  BY <1>1, <2>2 DEF writerVars, DiskKeeps
  <2>4. AllCarried' /\ BarriersCover'
    BY <1>1, <2>3 DEF writerVars, WriterInv, Durability, AllCarried, BarriersCover, Barriers, CoveredBy
  <2>5. PromisedOnDisk'
    BY <1>1, <2>2 DEF writerVars, WriterInv, Durability, PromisedOnDisk
  <2>6. Lossless'
    BY <1>1, <2>2 DEF writerVars, WriterInv, Lossless, Replayed
  <2> QED  BY <2>1, <2>4, <2>5, <2>6 DEF WriterInv, Durability
<1>2. CASE AppendLine  BY <1>2, AppendLineKeeps
<1>3. CASE RewriteHeader \/ Clear \/ ReplaceMessages  BY <1>3, RewritesKeep
<1>4. CASE \E f \in Flush : FlushCall(f)  BY <1>4, FlushCallKeeps
<1>5. CASE TimerFires  BY <1>5, TimerFiresKeeps
<1>6. CASE BatchWritten  BY <1>6, BatchWrittenKeeps
<1>7. CASE RewritePublished  BY <1>7, RewritePublishedKeeps
<1>8. CASE BatchFails  BY <1>8, BatchFailsKeeps
<1>9. CASE BatchFailsEmptied \/ BatchFailsDirty
  BY <1>9, BatchFailsEmptiedKeeps, BatchFailsDirtyKeeps
<1>10. CASE RewriteFails \/ RewriteFailsLate  BY <1>10, RewriteFailsKeeps
<1>11. CASE \E f \in Flush : FlushReturns(f)  BY <1>11, FlushReturnsKeeps
<1>12. CASE WriterCrash  BY <1>12, WriterCrashKeeps
<1> QED  BY <1>1, <1>2, <1>3, <1>4, <1>5, <1>6, <1>7, <1>8, <1>9, <1>10, <1>11, <1>12
         DEF WriterNext, Writer

(* In every state: while the process runs, and unless a batch failed with  *)
(* another operation queued behind it or a fault took lines with it, what  *)
(* the file will hold when the chain is done, and the buffer, are the      *)
(* transcript - over any number of batches, rewrites and flushes.          *)
THEOREM NothingIsLost == WriterSpec => []Lossless
<1>1. WriterInv => Lossless  BY DEF WriterInv
<1> QED  BY <1>1, WriterStarts, WriterSteps, PTL DEF WriterSpec

(* A flush that resolved keeps its word: as long as no two flushes waited  *)
(* at once and no fault took lines with it, the lines it covered and the   *)
(* transcript still holds are on the disk, over later batches, rewrites and*)
(* failures, and over a crash unless a rename was not synced.              *)
THEOREM FlushesKeepPromises == WriterSpec => []PromisesKept
<1>1. WriterInv => PromisesKept
  BY DEF WriterInv, Durability, PromisedOnDisk, PromisesKept, FlushMeansDurable, Had
<1> QED  BY <1>1, WriterStarts, WriterSteps, PTL DEF WriterSpec

(* A buffered line always has a timer that will take it out, until an      *)
(* operation fails.                                                        *)
THEOREM BuffersAreTimed == WriterSpec => []BufferIsTimed
<1>1. WriterInv => BufferIsTimed  BY DEF WriterInv
<1> QED  BY <1>1, WriterStarts, WriterSteps, PTL DEF WriterSpec

(* A line on its way is in the file, in an operation that waits or in the  *)
(* buffer.                                                                 *)
LEMMA CarriedIsKept == WriterInv => KeptUnlessTaken
<1> SUFFICES ASSUME WriterInv, running, ~Had(Losing), NEW x \in ToSet(memory)
             PROVE  x \in ToSet(file) \cup InFlight
  BY DEF KeptUnlessTaken, NoLineVanishes
<1>1. x \in ToSet(buffered) \/ Carried(file, chain, x, Len(chain) + 1)
  BY DEF WriterInv, Durability, AllCarried, DiskKeeps
<1>2. chain \in Seq(Op) /\ Len(chain) \in Nat /\ DOMAIN chain = 1..Len(chain)
  BY LenProperties DEF WriterInv, LineTypes
<1>3. CASE \E k \in 1..(Len(chain) + 1) - 1 : chain[k].op # "flush" /\ x \in ToSet(chain[k].lines)
  <2>1. PICK k \in DOMAIN chain : chain[k].op # "flush" /\ x \in ToSet(chain[k].lines)
    BY <1>2, <1>3
  <2> QED  BY <2>1 DEF InFlight
<1>4. CASE x \in ToSet(buffered)  BY <1>4 DEF InFlight
<1> QED  BY <1>1, <1>3, <1>4 DEF Carried

-----------------------------------------------------------------------------
(* The lease.                                                              *)
USE LeaseAssumption, ProcOfAssumption, OverlapAssumption, NoLeaseAssumption

Books == RunsAlive /\ Unwritten /\ Entries

(* An action that neither gives nor takes a lease leaves the users of every*)
(* entry as they are.                                                      *)
LEMMA SameUsers ==
  ASSUME UNCHANGED entry,
         \A m \in Lease : pc'[m] = "holding" <=> pc[m] = "holding"
  PROVE  \A e \in Lease : Using(e)' = Using(e)
BY DEF Using

(* The sets the reference counts count are finite.                         *)
LEMMA UsingFinite ==
  \A e \in Lease : IsFiniteSet(Using(e)) /\ Cardinality(Using(e)) \in Nat
<1> TAKE e \in Lease
<1>1. Using(e) \subseteq Lease  BY DEF Using
<1> QED  BY <1>1, FS_Subset, FS_CardinalityType

(* The parts of the invariant, put together once for every action.         *)
LEMMA Assemble ==
  ASSUME LeaseTypeOK', Books', RefsCount', Sound' => Sound,
         Sound' => LockIsHolders' /\ OneCloser' /\ MapIsLock' /\ WriterOwnsLock',
         ~Overlap => OneAcquirer' /\ ReclaimerAlone'
  PROVE  LeaseInv'
BY DEF LeaseInv, Books

(* LeaseInit establishes the inductive invariant.                               *)
LEMMA InitInv == LeaseInit => LeaseInv
<1> SUFFICES ASSUME LeaseInit PROVE LeaseInv  OBVIOUS
<1>1. LeaseTypeOK /\ RunsAlive /\ Unwritten /\ Entries
  BY DEF LeaseInit, LeaseTypeOK, RunsAlive, Unwritten, Entries, Acquiring, PCs, Done
<1>2. LockIsHolders /\ OneCloser /\ MapIsLock /\ WriterOwnsLock
  BY DEF LeaseInit, LockIsHolders, OneCloser, MapIsLock, WriterOwnsLock
<1>3. RefsCount
  <2>1. \A e \in Lease : Using(e) = {}  BY DEF LeaseInit, Using
  <2> QED  BY <2>1, FS_EmptySet DEF LeaseInit, RefsCount
<1>4. OneAcquirer /\ ReclaimerAlone
  BY DEF LeaseInit, OneAcquirer, ReclaimerAlone, Acquiring
<1> QED  BY <1>1, <1>2, <1>3, <1>4 DEF LeaseInv

(* A second lease inside a process: the entry gains one user.              *)
LEMMA AcquireSharedInv ==
  ASSUME LeaseInv, NEW l \in Lease, AcquireShared(l) PROVE LeaseInv'
<1> USE DEF LeaseInv, LeaseTypeOK, AcquireShared, Goto
<1>0. PICK e \in Lease : /\ e = holds[ProcOf[l]] /\ e \in payload
                          /\ ProcOf[e] = ProcOf[l] /\ pc[l] = "idle"
  BY DEF Entries
<1>1. LeaseTypeOK'
  BY <1>0 DEF PCs
<1>2. Books'
  BY <1>0 DEF Books, RunsAlive, Unwritten, Entries, Acquiring, Done
<1>3. /\ Using(e)' = Using(e) \cup {l} /\ l \notin Using(e)
      /\ \A f \in Lease \ {e} : Using(f)' = Using(f)
  BY <1>0 DEF Using
<1>4. RefsCount'
  <2>1. IsFiniteSet(Using(e))  BY UsingFinite
  <2>2. Cardinality(Using(e) \cup {l}) = Cardinality(Using(e)) + 1
    BY <1>3, <2>1, FS_AddElement
  <2> QED  BY <1>0, <1>3, <2>2 DEF RefsCount
<1>5. ASSUME ~Overlap PROVE OneAcquirer' /\ ReclaimerAlone'
  BY <1>5 DEF OneAcquirer, ReclaimerAlone, Acquiring, Calm
<1>6. ASSUME Sound PROVE LockIsHolders' /\ OneCloser' /\ MapIsLock' /\ WriterOwnsLock'
  <2>1. lock = e  BY <1>0, <1>6 DEF MapIsLock
  <2>2. LockIsHolders'  BY <1>0, <1>6, <2>1 DEF LockIsHolders, Entries
  <2>3. MapIsLock'  BY <1>0, <1>3, <1>6, <2>1 DEF MapIsLock
  <2>4. WriterOwnsLock' /\ OneCloser'  BY <1>6 DEF WriterOwnsLock, OneCloser
  <2> QED  BY <2>2, <2>3, <2>4
<1>7. Sound' => Sound
  BY DEF Sound
<1>8. Sound' => LockIsHolders' /\ OneCloser' /\ MapIsLock' /\ WriterOwnsLock'
  BY <1>6, <1>7
<1> QED  BY <1>1, <1>2, <1>4, <1>5, <1>7, <1>8, Assemble

(* The steps that only move a lease that neither holds nor closes.         *)
LEMMA AcquireFreshInv ==
  ASSUME LeaseInv, NEW l \in Lease, AcquireFresh(l) PROVE LeaseInv'
<1> USE DEF LeaseInv, LeaseTypeOK, AcquireFresh, Goto
<1>1. LeaseTypeOK'
  BY DEF PCs, Acquiring, Done
<1>2. Books'
  BY DEF Books, RunsAlive, Unwritten, Entries, Acquiring, Done
<1>3. \A e \in Lease : Using(e)' = Using(e)
  BY SameUsers
<1>4. RefsCount'
  BY <1>3 DEF RefsCount
<1>5. ASSUME ~Overlap PROVE OneAcquirer' /\ ReclaimerAlone'
  BY <1>5 DEF OneAcquirer, ReclaimerAlone, Acquiring, Calm
<1>6. ASSUME Sound PROVE LockIsHolders' /\ OneCloser' /\ MapIsLock' /\ WriterOwnsLock'
  <2>1. LockIsHolders'  BY <1>6 DEF LockIsHolders, Entries
  <2>2. MapIsLock'  BY <1>3, <1>6 DEF MapIsLock, Entries
  <2>3. WriterOwnsLock'  BY <1>6 DEF WriterOwnsLock, LockIsHolders
  <2>4. OneCloser'  BY <1>6 DEF OneCloser
  <2> QED  BY <2>1, <2>2, <2>3, <2>4
<1>7. Sound' => Sound
  BY DEF Sound
<1>8. Sound' => LockIsHolders' /\ OneCloser' /\ MapIsLock' /\ WriterOwnsLock'
  BY <1>6, <1>7
<1> QED  BY <1>1, <1>2, <1>4, <1>5, <1>7, <1>8, Assemble

LEMMA TryCreateInv ==
  ASSUME LeaseInv, NEW l \in Lease, Create1(l) \/ Create2(l) PROVE LeaseInv'
<1> USE DEF LeaseInv, LeaseTypeOK, Create1, Create2, TryCreate, Goto
<1>1. LeaseTypeOK'
  BY DEF PCs, Acquiring, Done
<1>2. Books'
  BY DEF Books, RunsAlive, Unwritten, Entries, Acquiring, Done
<1>3. \A e \in Lease : Using(e)' = Using(e)
  BY SameUsers
<1>4. RefsCount'
  BY <1>3 DEF RefsCount
<1>5. ASSUME ~Overlap PROVE OneAcquirer' /\ ReclaimerAlone'
  BY <1>5 DEF OneAcquirer, ReclaimerAlone, Acquiring, Calm
<1>6. ASSUME Sound PROVE LockIsHolders' /\ OneCloser' /\ MapIsLock' /\ WriterOwnsLock'
  <2>1. LockIsHolders'  BY <1>6 DEF LockIsHolders, Entries
  <2>2. MapIsLock'  BY <1>3, <1>6 DEF MapIsLock, Entries
  <2>3. WriterOwnsLock'  BY <1>6 DEF WriterOwnsLock, LockIsHolders
  <2>4. OneCloser'  BY <1>6 DEF OneCloser
  <2> QED  BY <2>1, <2>2, <2>3, <2>4
<1>7. Sound' => Sound
  BY DEF Sound
<1>8. Sound' => LockIsHolders' /\ OneCloser' /\ MapIsLock' /\ WriterOwnsLock'
  BY <1>6, <1>7
<1> QED  BY <1>1, <1>2, <1>4, <1>5, <1>7, <1>8, Assemble

LEMMA WriteFailsInv ==
  ASSUME LeaseInv, NEW l \in Lease, WriteFails(l) PROVE LeaseInv'
<1> USE DEF LeaseInv, LeaseTypeOK, WriteFails, Goto
<1>1. LeaseTypeOK'
  BY DEF PCs, Acquiring, Done
<1>2. Books'
  BY DEF Books, RunsAlive, Unwritten, Entries, Acquiring, Done
<1>3. \A e \in Lease : Using(e)' = Using(e)
  BY SameUsers
<1>4. RefsCount'
  BY <1>3 DEF RefsCount
<1>5. ASSUME ~Overlap PROVE OneAcquirer' /\ ReclaimerAlone'
  BY <1>5 DEF OneAcquirer, ReclaimerAlone, Acquiring, Calm
<1>6. ASSUME Sound PROVE LockIsHolders' /\ OneCloser' /\ MapIsLock' /\ WriterOwnsLock'
  <2>1. LockIsHolders'  BY <1>6 DEF LockIsHolders, Entries
  <2>2. MapIsLock'  BY <1>3, <1>6 DEF MapIsLock, Entries
  <2>3. WriterOwnsLock'  BY <1>6 DEF WriterOwnsLock, LockIsHolders
  <2>4. OneCloser'  BY <1>6 DEF OneCloser
  <2> QED  BY <2>1, <2>2, <2>3, <2>4
<1>7. Sound' => Sound
  BY DEF Sound
<1>8. Sound' => LockIsHolders' /\ OneCloser' /\ MapIsLock' /\ WriterOwnsLock'
  BY <1>6, <1>7
<1> QED  BY <1>1, <1>2, <1>4, <1>5, <1>7, <1>8, Assemble

(* Alone, a lease that finds no live lock finds no holder of any process.  *)
LEMMA InspectInv ==
  ASSUME LeaseInv, NEW l \in Lease, Inspect(l) PROVE LeaseInv'
<1> USE DEF LeaseInv, LeaseTypeOK, Inspect, Goto
<1>1. LeaseTypeOK'
  BY DEF PCs, Acquiring, Done
<1>2. Books'
  BY DEF Books, RunsAlive, Unwritten, Entries, Acquiring, Done
<1>3. \A e \in Lease : Using(e)' = Using(e)
  BY SameUsers
<1>4. RefsCount'
  BY <1>3 DEF RefsCount
<1>5. ASSUME ~Overlap PROVE OneAcquirer' /\ ReclaimerAlone'
  <2>1. OneAcquirer'  BY <1>5 DEF OneAcquirer, Acquiring
  <2>2. CASE LockIsLive
    BY <1>5, <2>1, <2>2 DEF ReclaimerAlone
  <2>3. CASE ~LockIsLive
    <3>1. \A m \in Lease : pc[m] \notin {"holding", "closing"}
      BY <1>5, <2>3 DEF LockIsLive, Sound, LockIsHolders, Entries, RunsAlive, Done
    <3> QED  BY <2>1, <3>1 DEF ReclaimerAlone
  <2> QED  BY <2>2, <2>3
<1>6. ASSUME Sound PROVE LockIsHolders' /\ OneCloser' /\ MapIsLock' /\ WriterOwnsLock'
  <2>1. LockIsHolders'  BY <1>6 DEF LockIsHolders, Entries
  <2>2. MapIsLock'  BY <1>3, <1>6 DEF MapIsLock, Entries
  <2>3. WriterOwnsLock'  BY <1>6 DEF WriterOwnsLock, LockIsHolders
  <2>4. OneCloser'  BY <1>6 DEF OneCloser
  <2> QED  BY <2>1, <2>2, <2>3, <2>4
<1>7. Sound' => Sound
  BY DEF Sound
<1>8. Sound' => LockIsHolders' /\ OneCloser' /\ MapIsLock' /\ WriterOwnsLock'
  BY <1>6, <1>7
<1> QED  BY <1>1, <1>2, <1>4, <1>5, <1>7, <1>8, Assemble

(* The one step that may take a lock from another lease.  Overlapping, it  *)
(* ends Sound if it takes one; alone, ReclaimerAlone says nobody has any.  *)
LEMMA UnlinkInv ==
  ASSUME LeaseInv, NEW l \in Lease, Unlink1(l) \/ Unlink2(l) PROVE LeaseInv'
<1> USE DEF LeaseInv, LeaseTypeOK, Unlink1, Unlink2, Unlink, Goto
<1>1. LeaseTypeOK'
  BY DEF PCs, Acquiring, Done
<1>2. Books'
  BY DEF Books, RunsAlive, Unwritten, Entries, Acquiring, Done
<1>3. \A e \in Lease : Using(e)' = Using(e)
  BY SameUsers
<1>4. RefsCount'
  BY <1>3 DEF RefsCount
<1>5. ASSUME ~Overlap PROVE OneAcquirer' /\ ReclaimerAlone'
  BY <1>5 DEF OneAcquirer, ReclaimerAlone, Acquiring, Calm
<1>6. ASSUME Sound' PROVE LockIsHolders' /\ OneCloser' /\ MapIsLock' /\ WriterOwnsLock'
  <2> Sound  BY <1>6 DEF Sound
  <2>1. CASE UNCHANGED <<lock, reclaimed>>
    BY <1>3, <1>6, <2>1 DEF LockIsHolders, OneCloser, MapIsLock, WriterOwnsLock, Entries
  <2>2. CASE lock' = NoLease /\ reclaimed' = TRUE
    <3>1. ~Overlap  BY <1>6, <2>2 DEF Sound
    <3>2. \A m \in Lease : pc'[m] \notin {"holding", "closing", "write"}
      BY <3>1 DEF ReclaimerAlone, OneAcquirer, Acquiring
    <3>3. Using(lock) = {}
      BY <3>1 DEF ReclaimerAlone, Using
    <3>4. \A p \in Proc : holds[p] = NoLease
      BY <3>3 DEF MapIsLock
    <3> QED  BY <2>2, <3>2, <3>4 DEF LockIsHolders, OneCloser, MapIsLock, WriterOwnsLock
  <2> QED  BY <2>1, <2>2
<1>7. Sound' => Sound
  BY DEF Sound
<1>8. Sound' => LockIsHolders' /\ OneCloser' /\ MapIsLock' /\ WriterOwnsLock'
  BY <1>6, <1>7
<1> QED  BY <1>1, <1>2, <1>4, <1>5, <1>7, <1>8, Assemble

(* The lock of a lease about to write its payload is its own and empty, so *)
(* no other lease of any process holds or closes one.                      *)
LEMMA WritePayloadInv ==
  ASSUME LeaseInv, NEW l \in Lease, WritePayload(l) PROVE LeaseInv'
<1> USE DEF LeaseInv, LeaseTypeOK, WritePayload, Goto
<1>0. l \notin payload /\ ProcOf[l] \in alive
  BY DEF Unwritten, RunsAlive, Acquiring, Done
<1>1. LeaseTypeOK'
  BY DEF PCs
<1>2. Books'
  BY <1>0 DEF Books, RunsAlive, Unwritten, Entries, Acquiring, Done
<1>3. Using(l)' = {l} /\ \A e \in Lease \ {l} : Using(e)' = Using(e)
  BY <1>0 DEF Using, Entries
<1>4. RefsCount'
  BY <1>3, FS_Singleton DEF RefsCount
<1>5. ASSUME ~Overlap PROVE OneAcquirer' /\ ReclaimerAlone'
  BY <1>5 DEF OneAcquirer, ReclaimerAlone, Acquiring, Calm
<1>6. ASSUME Sound PROVE LockIsHolders' /\ OneCloser' /\ MapIsLock' /\ WriterOwnsLock'
  <2>1. lock = l  BY <1>6 DEF WriterOwnsLock
  <2>2. \A m \in Lease : pc[m] \notin {"holding", "closing"}
    BY <1>0, <1>6, <2>1 DEF LockIsHolders, Entries
  <2>3. \A p \in Proc : holds[p] = NoLease
    BY <1>0, <1>6, <2>1 DEF MapIsLock, Entries
  <2>4. LockIsHolders'  BY <2>1, <2>2 DEF LockIsHolders
  <2>5. MapIsLock'  BY <1>3, <2>1, <2>3 DEF MapIsLock
  <2>6. WriterOwnsLock' /\ OneCloser'
    BY <1>6, <2>2 DEF WriterOwnsLock, OneCloser
  <2> QED  BY <2>4, <2>5, <2>6
<1>7. Sound' => Sound
  BY DEF Sound
<1>8. Sound' => LockIsHolders' /\ OneCloser' /\ MapIsLock' /\ WriterOwnsLock'
  BY <1>6, <1>7
<1> QED  BY <1>1, <1>2, <1>4, <1>5, <1>7, <1>8, Assemble

(* The last reference is told from the others by the reference count.      *)
LEMMA ReleaseInv ==
  ASSUME LeaseInv, NEW l \in Lease, Release(l) PROVE LeaseInv'
<1> USE DEF LeaseInv, LeaseTypeOK, Release, Goto
<1>0. PICK e \in Lease :
        /\ e = entry[l] /\ e \in payload
        /\ ProcOf[e] = ProcOf[l] /\ ProcOf[l] \in alive
        /\ refs[e] = Cardinality(Using(e))
  BY DEF Entries, RefsCount, RunsAlive, Done
<1>3. /\ Using(e)' = Using(e) \ {l} /\ l \in Using(e)
      /\ \A f \in Lease \ {e} : Using(f)' = Using(f)
  BY <1>0 DEF Using
<1>9. /\ Cardinality(Using(e)') = refs[e] - 1
      /\ refs[e] - 1 \in Nat /\ refs[e] \in Nat
      /\ refs[e] <= 1 <=> Using(e)' = {}
  <2> DEFINE U == Using(e)
             V == U \ {l}
  <2>1. IsFiniteSet(U) /\ l \in U  BY <1>3, UsingFinite
  <2> HIDE DEF U
  <2>2. IsFiniteSet(V) /\ Cardinality(V) = Cardinality(U) - 1
    BY <2>1, FS_RemoveElement
  <2>3. Cardinality(V) \in Nat /\ (Cardinality(V) = 0 <=> V = {})
    BY <2>2, FS_CardinalityType, FS_EmptySet
  <2>4. Cardinality(U) = refs[e] /\ refs[e] \in Nat  BY <1>0 DEF U
  <2>5. Using(e)' = V  BY <1>3 DEF U
  <2> QED  BY <2>2, <2>3, <2>4, <2>5
<1>1. LeaseTypeOK'
  BY <1>0, <1>9 DEF PCs, Done
<1>2. Books'
  BY <1>0 DEF Books, RunsAlive, Unwritten, Entries, Acquiring, Done
<1>4. RefsCount'
  BY <1>0, <1>3, <1>9 DEF RefsCount
<1>5. ASSUME ~Overlap PROVE OneAcquirer' /\ ReclaimerAlone'
  BY <1>5 DEF OneAcquirer, ReclaimerAlone, Acquiring, Calm
<1>6. ASSUME Sound PROVE LockIsHolders' /\ OneCloser' /\ MapIsLock' /\ WriterOwnsLock'
  <2>1. lock = e /\ holds[ProcOf[l]] = e  BY <1>0, <1>6 DEF LockIsHolders
  <2>2. CASE refs[e] <= 1
    <3>1. \A m \in Lease : pc'[m] # "holding"
      BY <1>6, <1>9, <2>1, <2>2 DEF Using, LockIsHolders
    <3>2. LockIsHolders'
      BY <1>0, <1>6, <2>1, <2>2, <3>1 DEF LockIsHolders
    <3>3. MapIsLock'
      BY <1>0, <1>6, <2>1, <2>2 DEF MapIsLock, Entries
    <3>4. OneCloser'
      BY <1>0, <1>6, <2>1, <2>2 DEF OneCloser, LockIsHolders, Entries
    <3> QED  BY <1>6, <3>2, <3>3, <3>4 DEF WriterOwnsLock
  <2>3. CASE ~(refs[e] <= 1)
    <3>1. Using(lock)' # {}  BY <1>9, <2>1, <2>3
    <3>2. LockIsHolders'  BY <1>6, <2>1, <2>3 DEF LockIsHolders
    <3>3. MapIsLock'  BY <1>6, <2>1, <2>3, <3>1 DEF MapIsLock
    <3>4. WriterOwnsLock' /\ OneCloser'
      BY <1>0, <1>6, <2>3 DEF WriterOwnsLock, OneCloser
    <3> QED  BY <3>2, <3>3, <3>4
  <2> QED  BY <2>2, <2>3
<1>7. Sound' => Sound
  BY DEF Sound
<1>8. Sound' => LockIsHolders' /\ OneCloser' /\ MapIsLock' /\ WriterOwnsLock'
  BY <1>6, <1>7
<1> QED  BY <1>1, <1>2, <1>4, <1>5, <1>7, <1>8, Assemble

(* The lock a closing lease unlinks, or leaves, is its own: nobody uses it *)
(* any more.                                                               *)
LEMMA ReleaseBaseInv ==
  ASSUME LeaseInv, NEW l \in Lease, ReleaseBase(l) PROVE LeaseInv'
<1> USE DEF LeaseInv, LeaseTypeOK, ReleaseBase, Goto
<1>1. LeaseTypeOK'
  BY DEF PCs, Acquiring, Done
<1>2. Books'
  BY DEF Books, RunsAlive, Unwritten, Entries, Acquiring, Done
<1>3. \A e \in Lease : Using(e)' = Using(e)
  BY SameUsers
<1>4. RefsCount'
  BY <1>3 DEF RefsCount
<1>5. ASSUME ~Overlap PROVE OneAcquirer' /\ ReclaimerAlone'
  BY <1>5 DEF OneAcquirer, ReclaimerAlone, Acquiring, Calm
<1>6. ASSUME Sound PROVE LockIsHolders' /\ OneCloser' /\ MapIsLock' /\ WriterOwnsLock'
  <2>1. lock = entry[l] /\ lock \in payload /\ holds[ProcOf[lock]] = NoLease
    BY <1>6 DEF LockIsHolders, Entries
  <2>2. \A p \in Proc : holds[p] = NoLease
    BY <1>6, <2>1 DEF MapIsLock, Entries
  <2>3. \A m \in Lease : pc[m] # "holding" /\ pc[m] # "write"
    BY <1>6, <2>1, <2>2
    DEF LockIsHolders, Entries, WriterOwnsLock, Unwritten, Acquiring
  <2>4. \A m \in Lease : pc'[m] = "closing" => FALSE
    BY <1>6 DEF OneCloser
  <2> QED  BY <2>2, <2>3, <2>4 DEF LockIsHolders, OneCloser, MapIsLock, WriterOwnsLock
<1>7. Sound' => Sound
  BY DEF Sound
<1>8. Sound' => LockIsHolders' /\ OneCloser' /\ MapIsLock' /\ WriterOwnsLock'
  BY <1>6, <1>7
<1> QED  BY <1>1, <1>2, <1>4, <1>5, <1>7, <1>8, Assemble

(* A crash ends the leases of its process and forgets its map; the file and*)
(* the payload stay, of a process that is no longer alive.                 *)
LEMMA CrashInv ==
  ASSUME LeaseInv, NEW p \in Proc, Crash(p) PROVE LeaseInv'
<1> USE DEF LeaseInv, LeaseTypeOK, Crash
<1>1. LeaseTypeOK'
  BY DEF PCs, Done
<1>2. Books'
  BY DEF Books, RunsAlive, Unwritten, Entries, Acquiring, Done
<1>3. \A e \in Lease : ProcOf[e] # p => Using(e)' = Using(e)
  <2>1. \A m \in Lease : pc[m] = "holding" => ProcOf[entry[m]] = ProcOf[m]
    BY DEF Entries
  <2> QED  BY <2>1 DEF Using
<1>4. RefsCount'
  BY <1>3 DEF RefsCount
<1>5. ASSUME ~Overlap PROVE OneAcquirer' /\ ReclaimerAlone'
  BY <1>5 DEF OneAcquirer, ReclaimerAlone, Acquiring
<1>6. ASSUME Sound PROVE LockIsHolders' /\ OneCloser' /\ MapIsLock' /\ WriterOwnsLock'
  <2>1. LockIsHolders'  BY <1>6 DEF LockIsHolders
  <2>2. MapIsLock'  BY <1>3, <1>6 DEF MapIsLock, Entries
  <2>3. WriterOwnsLock' /\ OneCloser'  BY <1>6 DEF WriterOwnsLock, OneCloser
  <2> QED  BY <2>1, <2>2, <2>3
<1>7. Sound' => Sound
  BY DEF Sound
<1>8. Sound' => LockIsHolders' /\ OneCloser' /\ MapIsLock' /\ WriterOwnsLock'
  BY <1>6, <1>7
<1> QED  BY <1>1, <1>2, <1>4, <1>5, <1>7, <1>8, Assemble

(* LeaseInv is preserved by every step, stuttering included.               *)
LEMMA NextInv == LeaseInv /\ [LeaseNext]_leaseVars => LeaseInv'
<1> SUFFICES ASSUME LeaseInv, [LeaseNext]_leaseVars PROVE LeaseInv'  OBVIOUS
<1>1. ASSUME NEW l \in Lease, LeaseStep(l) PROVE LeaseInv'
  BY <1>1, AcquireSharedInv, AcquireFreshInv, TryCreateInv, InspectInv,
     UnlinkInv, WritePayloadInv, WriteFailsInv, ReleaseInv, ReleaseBaseInv
  DEF LeaseStep
<1>2. ASSUME NEW p \in Proc, Crash(p) PROVE LeaseInv'
  BY <1>2, CrashInv
<1>3. CASE UNCHANGED leaseVars
  <2>1. \A e \in Lease : Using(e)' = Using(e)  BY <1>3 DEF leaseVars, Using
  <2> QED
    BY <1>3, <2>1
    DEF leaseVars, LeaseInv, LeaseTypeOK, RunsAlive, Unwritten, Entries, RefsCount, Sound,
        LockIsHolders, OneCloser, MapIsLock, WriterOwnsLock, OneAcquirer,
        ReclaimerAlone
<1> QED  BY <1>1, <1>2, <1>3 DEF LeaseNext

(* Two holders of one lock file have the owner the file names.             *)
LEMMA InvExclusive == LeaseInv => Exclusive
BY DEF LeaseInv, Sound, LockIsHolders, Entries, Exclusive, MutualExclusion,
       Holding

(* Every variable keeps its type.                                          *)
THEOREM TypeCorrect == LeaseSpec => []LeaseTypeOK
<1>1. LeaseInv => LeaseTypeOK  BY DEF LeaseInv
<1> QED  BY <1>1, InitInv, NextInv, PTL DEF LeaseSpec

(* The lease excludes: no two processes hold it, unless acquisitions       *)
(* overlap and one of them has reclaimed a lock (write-lease.ts, acquire,  *)
(* tryRemoveStaleLock and release together).                               *)
THEOREM LeaseExcludes == LeaseSpec => []Exclusive
BY InitInv, NextInv, InvExclusive, PTL DEF LeaseSpec

(* The lease behind the lock that names a live process stays one: it holds *)
(* the entry of the file, has the unlink of it to do, or could not do it.  *)
LEMMA LiveLockStays ==
  ASSUME LeaseInv, LiveLockIsHeld, [LeaseNext]_leaseVars PROVE LiveLockIsHeld'
<1> USE DEF LiveLockIsHeld, LockIsLive, Goto
<1>0. /\ LeaseTypeOK /\ Unwritten /\ Entries /\ RefsCount /\ NoLease \notin payload
      /\ RunsAlive
  BY DEF LeaseInv, LeaseTypeOK
<1>1. ASSUME NEW l \in Lease, AcquireShared(l) \/ AcquireFresh(l) \/ Inspect(l) \/ WriteFails(l)
      PROVE  LiveLockIsHeld'
  BY <1>0, <1>1 DEF AcquireShared, AcquireFresh, Inspect, WriteFails, LeaseTypeOK
<1>2. ASSUME NEW l \in Lease, Create1(l) \/ Create2(l) PROVE LiveLockIsHeld'
  <2>1. l \notin payload  BY <1>0, <1>2 DEF Create1, Create2, TryCreate, Unwritten, Acquiring
  <2> QED  BY <1>0, <1>2, <2>1 DEF Create1, Create2, TryCreate, LeaseTypeOK
<1>3. ASSUME NEW l \in Lease, Unlink1(l) \/ Unlink2(l) \/ ReleaseBase(l) PROVE LiveLockIsHeld'
  <2>1. CASE lock' = NoLease  BY <1>0, <1>3, <2>1 DEF Unlink1, Unlink2, Unlink, ReleaseBase
  <2>2. CASE UNCHANGED lock
    <3>1. pc[l] \in {"unlink1", "unlink2", "closing"} /\ UNCHANGED <<alive, payload, entry>>
      BY <1>3 DEF Unlink1, Unlink2, Unlink, ReleaseBase
    <3>3. pc[l] = "closing" /\ lock \in payload => pc'[l] = "leaked"
      BY <1>0, <1>3, <2>2, <3>1 DEF Unlink1, Unlink2, Unlink, ReleaseBase, LeaseTypeOK
    <3>4. \A m \in Lease \ {l} : pc'[m] = pc[m]
      BY <1>0, <1>3 DEF Unlink1, Unlink2, Unlink, ReleaseBase, LeaseTypeOK
    <3> QED  BY <2>2, <3>1, <3>3, <3>4
  <2> QED  BY <1>3, <2>1, <2>2 DEF Unlink1, Unlink2, Unlink, ReleaseBase
<1>4. ASSUME NEW l \in Lease, WritePayload(l) PROVE LiveLockIsHeld'
  BY <1>0, <1>4 DEF WritePayload, LeaseTypeOK
<1>5. ASSUME NEW l \in Lease, Release(l) PROVE LiveLockIsHeld'
  <2> SUFFICES ASSUME LockIsLive'
               PROVE  \E m \in Lease : pc'[m] \in {"holding", "closing", "leaked"} /\ entry[m] = lock
    BY <1>5 DEF Release
  <2>1. PICK m \in Lease : pc[m] \in {"holding", "closing", "leaked"} /\ entry[m] = lock
    BY <1>5 DEF Release
  <2>2. CASE m # l  BY <1>0, <1>5, <2>1, <2>2 DEF Release, LeaseTypeOK
  <2>3. CASE m = l
    <3>1. entry[l] = lock /\ lock \in Lease /\ ProcOf[lock] \in alive
      BY <1>0, <1>5, <2>1, <2>3 DEF Release, LeaseTypeOK
    <3>2. CASE refs[lock] <= 1
      <4>1. pc' = [pc EXCEPT ![l] = "closing"]  BY <1>5, <3>1, <3>2 DEF Release
      <4> QED  BY <1>0, <3>1, <4>1 DEF LeaseTypeOK
    <3>3. CASE ~(refs[lock] <= 1)
      <4>1. l \in Using(lock) /\ refs[lock] = Cardinality(Using(lock)) /\ refs[lock] \in Nat
        BY <1>0, <1>5, <3>1 DEF Release, Using, RefsCount, LeaseTypeOK
      <4>2. Using(lock) # {l}
        <5>1. Cardinality({l}) = 1  BY FS_Singleton
        <5> QED  BY <3>3, <4>1, <5>1
      <4>3. PICK k \in Using(lock) : k # l  BY <4>1, <4>2
      <4> QED  BY <1>0, <1>5, <4>3 DEF Using, Release, LeaseTypeOK
    <3> QED  BY <3>2, <3>3
  <2> QED  BY <2>2, <2>3
<1>6. ASSUME NEW p \in Proc, Crash(p) PROVE LiveLockIsHeld'
  <2> SUFFICES ASSUME LockIsLive'
               PROVE  \E m \in Lease : pc'[m] \in {"holding", "closing", "leaked"} /\ entry[m] = lock
    BY <1>6 DEF Crash
  <2>1. PICK m \in Lease : pc[m] \in {"holding", "closing", "leaked"} /\ entry[m] = lock
    BY <1>6 DEF Crash
  <2>2. ProcOf[m] # p  BY <1>0, <1>6, <2>1 DEF Crash, Entries
  <2> QED  BY <1>6, <2>1, <2>2 DEF Crash
<1>7. CASE UNCHANGED leaseVars  BY <1>7 DEF leaseVars
<1> QED  BY <1>1, <1>2, <1>3, <1>4, <1>5, <1>6, <1>7 DEF LeaseNext, LeaseStep

(* A lock that acquire() respects is the one that a lease of a live process*)
(* holds, is about to unlink or failed to unlink, however acquisitions     *)
(* overlap, fail and crash: a stale lock never shuts a session for good    *)
(* (write-lease.ts, tryRemoveStaleLock, release and releaseBase).          *)
THEOREM LiveLocksAreHeld == LeaseSpec => []LiveLockIsHeld
<1>1. LeaseInit => LiveLockIsHeld
  BY DEF LeaseInit, LiveLockIsHeld, LockIsLive
<1> QED  BY <1>1, InitInv, NextInv, LiveLockStays, PTL DEF LeaseSpec

(* Every step is a step of the mutex or leaves its holders alone.          *)
LEMMA MutexStep ==
  ASSUME ~Overlap, LeaseInv, LeaseInv', [LeaseNext]_leaseVars
  PROVE  [Mutex!Next]_Holding
<1> USE DEF Goto, Holding
<1>0. \A l, m \in Holding' : ProcOf[l] = ProcOf[m]
  <2>1. LockIsHolders' /\ Entries'  BY DEF LeaseInv, Sound
  <2> QED  BY <2>1 DEF LockIsHolders, Entries
<1>1. ASSUME NEW l \in Lease, AcquireShared(l) \/ WritePayload(l)
      PROVE  Mutex!Next
  <2>1. Holding' = Holding \cup {l} /\ l \notin Holding
    BY <1>1 DEF AcquireShared, WritePayload, LeaseInv, LeaseTypeOK
  <2> QED  BY <1>0, <2>1 DEF Mutex!Next, Mutex!Take
<1>2. ASSUME NEW l \in Lease, Release(l) PROVE Mutex!Next
  <2>1. Holding' = Holding \ {l} /\ l \in Holding
    BY <1>2 DEF Release, LeaseInv, LeaseTypeOK
  <2> QED  BY <2>1 DEF Mutex!Next, Mutex!Drop
<1>3. ASSUME NEW p \in Proc, Crash(p) PROVE Mutex!Next
  <2>1. Holding' = {l \in Holding : ProcOf[l] # p}
    BY <1>3 DEF Crash, LeaseInv, LeaseTypeOK
  <2> QED  BY <2>1 DEF Mutex!Next, Mutex!Kill
<1>4. ASSUME NEW l \in Lease, AcquireFresh(l) \/ Create1(l) \/ Create2(l) \/ Inspect(l)
             \/ Unlink1(l) \/ Unlink2(l) \/ WriteFails(l) \/ ReleaseBase(l)
      PROVE  Holding' = Holding
  BY <1>4 DEF AcquireFresh, Create1, Create2, TryCreate, Inspect, Unlink1, Unlink2,
              Unlink, WriteFails, ReleaseBase, LeaseInv, LeaseTypeOK
<1>5. CASE UNCHANGED leaseVars
  BY <1>5 DEF leaseVars
<1> QED  BY <1>1, <1>2, <1>3, <1>4, <1>5 DEF LeaseNext, LeaseStep

(* Without overlapping acquisitions the lock file, its stale reclaim and   *)
(* the reference counts implement the abstract mutex.                      *)
THEOREM LeaseImplementsMutex ==
  ASSUME ~Overlap PROVE LeaseSpec => ImplementsMutex
<1>1. LeaseInit => Mutex!Init  BY DEF LeaseInit, Mutex!Init, Holding
<1>2. LeaseInv /\ LeaseInv' /\ [LeaseNext]_leaseVars => [Mutex!Next]_Holding
  BY MutexStep
<1> QED  BY <1>1, <1>2, InitInv, NextInv, PTL
         DEF LeaseSpec, ImplementsMutex, Mutex!Spec
=============================================================================
