---------------------------- MODULE DocumentFacts ----------------------------
(***************************************************************************)
(* What the proofs of an encode and of a decode need to know: facts about  *)
(* data, and what a call does to jsonSink and to dynamicSink when it comes *)
(* where the sink can take it, stated once for both: a value goes into the *)
(* innermost container, a container begins in it, a name is given to it.   *)
(* At the end, what that comes to: the tokens of a sequence of calls, and  *)
(* the tree a container under construction is when it is ended.  The       *)
(* proofs of an encode never look further into either sink.                *)
(***************************************************************************)
EXTENDS Sinks, FiniteSets, FiniteSetTheorems, SequenceTheorems,
        WellFoundedInduction, TLAPS

----------------------------------------------------------------------------
(* Induction over a set of numbers, sequences of anything, and how many    *)
(* members of a set of positions come before one.                          *)

\* Induction, over a set in place of a predicate: a set of numbers without a
\* least missing one misses none.
LEMMA SetInduction ==
  ASSUME NEW S, 0 \in S, \A n \in Nat : n \in S => n + 1 \in S
  PROVE  Nat \subseteq S
  <1> DEFINE R == OpToRel(<, Nat)
             T == Nat \ S
  <1>1. IsWellFoundedOn(R, Nat)
    BY NatLessThanWellFounded
  <1>2. SUFFICES ASSUME T # {} PROVE FALSE
    OBVIOUS
  <1>3. T \subseteq Nat
    OBVIOUS
  <1> HIDE DEF R, T
  <1>4. PICK x \in T : \A y \in T : ~(<<y, x>> \in R)
    BY <1>1, <1>2, <1>3, WFMin
  <1>5. x \in Nat /\ x \notin S /\ x # 0
    BY DEF T
  <1>6. x - 1 \in Nat /\ x - 1 \notin S
    BY <1>5
  <1>7. <<x - 1, x>> \in R
    BY <1>5, <1>6 DEF R, OpToRel
  <1> QED
    BY <1>4, <1>6, <1>7 DEF T

----------------------------------------------------------------------------
(* Sequences, whatever they are of. *)

IsSeq(s) == \E S : s \in Seq(S)

\* A sequence has a length, and its length's positions.
LEMMA SeqFacts ==
  ASSUME NEW s, IsSeq(s)
  PROVE  /\ Len(s) \in Nat
         /\ DOMAIN s = 1..Len(s)
         /\ s = <<>> <=> Len(s) = 0
  BY DEF IsSeq

\* A function on the positions up to n is a sequence of length n.
LEMMA SeqMake ==
  ASSUME NEW n \in Nat, NEW f, DOMAIN f = 1..n, f = [i \in 1..n |-> f[i]]
  PROVE  IsSeq(f) /\ Len(f) = n
  <1> DEFINE S == {f[i] : i \in 1..n}
  <1>1. f \in [1..n -> S]
    OBVIOUS
  <1>2. f \in Seq(S)
    BY <1>1, SeqDef
  <1>3. Len(f) \in Nat /\ 1..Len(f) = 1..n
    BY <1>2, LenProperties
  <1>4. ~(Len(f) < n)
    <2>1. Len(f) < n => Len(f) + 1 \in 1..n
      BY <1>3
    <2>2. Len(f) + 1 \notin 1..Len(f)
      BY <1>3
    <2> QED
      BY <1>3, <2>1, <2>2
  <1>5. ~(n < Len(f))
    <2>1. n < Len(f) => n + 1 \in 1..Len(f)
      BY <1>3
    <2>2. n + 1 \notin 1..n
      OBVIOUS
    <2> QED
      BY <1>3, <2>1, <2>2
  <1>6. Len(f) = n
    BY <1>3, <1>4, <1>5
  <1> QED
    BY <1>2, <1>6 DEF IsSeq

\* What Append makes.
LEMMA SeqAppend ==
  ASSUME NEW s, IsSeq(s), NEW e
  PROVE  /\ IsSeq(Append(s, e))
         /\ Len(Append(s, e)) = Len(s) + 1
         /\ \A i \in 1..Len(s) : Append(s, e)[i] = s[i]
         /\ Append(s, e)[Len(s) + 1] = e
  <1>1. PICK S : s \in Seq(S)
    BY DEF IsSeq
  <1> DEFINE T == S \cup {e}
  <1>2. s \in Seq(T)
    BY <1>1, SeqMonotonic
  <1>3. e \in T
    OBVIOUS
  <1> HIDE DEF T
  <1>4. Append(s, e) \in Seq(T) /\ Len(Append(s, e)) = Len(s) + 1
    BY <1>2, <1>3
  <1>5. \A i \in 1..Len(s) : Append(s, e)[i] = s[i]
    BY <1>2, <1>3
  <1>6. Append(s, e)[Len(s) + 1] = e
    BY <1>2, <1>3
  <1> QED
    BY <1>4, <1>5, <1>6 DEF IsSeq

\* What is left without the last.
LEMMA SeqFront ==
  ASSUME NEW s, IsSeq(s), s # <<>>
  PROVE  /\ IsSeq(SubSeq(s, 1, Len(s) - 1))
         /\ Len(SubSeq(s, 1, Len(s) - 1)) = Len(s) - 1
         /\ \A i \in 1..(Len(s) - 1) : SubSeq(s, 1, Len(s) - 1)[i] = s[i]
  <1>1. PICK S : s \in Seq(S)
    BY DEF IsSeq
  <1>2. Len(s) \in Nat /\ Len(s) # 0
    BY <1>1
  <1>3. \A i \in 1..(Len(s) - 1) : s[i] \in S
    BY <1>1, <1>2
  <1> DEFINE m == Len(s) - 1
  <1>4. m \in Nat /\ \A i \in 1..m : s[i] \in S
    BY <1>2, <1>3
  <1> HIDE DEF m
  <1>5. /\ SubSeq(s, 1, m) \in Seq(S)
        /\ Len(SubSeq(s, 1, m)) = IF 1 <= m THEN m - 1 + 1 ELSE 0
        /\ \A i \in 1..(m - 1 + 1) : SubSeq(s, 1, m)[i] = s[1 + i - 1]
    BY <1>4, SubSeqProperties
  <1>6. Len(SubSeq(s, 1, m)) = m /\ \A i \in 1..m : SubSeq(s, 1, m)[i] = s[i]
    BY <1>4, <1>5
  <1> QED
    BY <1>5, <1>6 DEF IsSeq, m

\* A sequence with other elements, which EXCEPT makes.
LEMMA SeqUpdate ==
  ASSUME NEW s, IsSeq(s), NEW t, DOMAIN t = DOMAIN s, t = [i \in DOMAIN s |-> t[i]]
  PROVE  IsSeq(t) /\ Len(t) = Len(s) /\ DOMAIN t = 1..Len(s)
  BY SeqFacts, SeqMake

\* Sequences of one length with the same elements are one.
LEMMA SeqSame ==
  ASSUME NEW s, NEW t, IsSeq(s), IsSeq(t), Len(s) = Len(t), \A i \in 1..Len(s) : s[i] = t[i]
  PROVE  s = t
  <1>1. PICK S : s \in Seq(S)
    BY DEF IsSeq
  <1>2. PICK T : t \in Seq(T)
    BY DEF IsSeq
  <1>3. s \in Seq(S \cup T) /\ t \in Seq(S \cup T)
    BY <1>1, <1>2, SeqMonotonic
  <1> QED
    BY <1>3, SeqEqual

\* The empty sequence.
LEMMA SeqEmpty == IsSeq(<<>>) /\ Len(<<>>) = 0
  BY EmptySeq DEF IsSeq

\* A sequence of one.
LEMMA SeqOne == \A e : IsSeq(<<e>>) /\ Len(<<e>>) = 1 /\ <<e>>[1] = e
  <1> TAKE e
  <1>1. <<e>> \in Seq({e})
    OBVIOUS
  <1> QED
    BY <1>1 DEF IsSeq

\* What concatenation makes.
LEMMA SeqConcat ==
  ASSUME NEW s, NEW t, IsSeq(s), IsSeq(t)
  PROVE  /\ IsSeq(s \o t)
         /\ Len(s \o t) = Len(s) + Len(t)
         /\ \A i \in 1..(Len(s) + Len(t)) : (s \o t)[i] = IF i <= Len(s) THEN s[i] ELSE t[i - Len(s)]
  <1>1. PICK S : s \in Seq(S)
    BY DEF IsSeq
  <1>2. PICK T : t \in Seq(T)
    BY DEF IsSeq
  <1>3. s \in Seq(S \cup T) /\ t \in Seq(S \cup T)
    BY <1>1, <1>2, SeqMonotonic
  <1> HIDE DEF IsSeq
  <1>4. s \o t \in Seq(S \cup T) /\ Len(s \o t) = Len(s) + Len(t)
    BY <1>3, ConcatProperties
  <1>5. \A i \in 1..(Len(s) + Len(t)) : (s \o t)[i] = IF i <= Len(s) THEN s[i] ELSE t[i - Len(s)]
    BY <1>3, ConcatProperties
  <1> QED
    BY <1>4, <1>5 DEF IsSeq

----------------------------------------------------------------------------
(* How many members of a set of positions come up to one. *)

UpTo(i, S) == Cardinality(S \cap (1..i))

\* None come up to position zero.
LEMMA UpToNone == \A S : UpTo(0, S) = 0
  <1> TAKE S
  <1>1. S \cap (1..0) = {}
    OBVIOUS
  <1> QED
    BY <1>1, FS_EmptySet DEF UpTo

\* How many come up to a position is a number.
LEMMA UpToNat == \A S : \A i \in Nat : UpTo(i, S) \in Nat
  <1> TAKE S
  <1> TAKE i \in Nat
  <1>1. IsFiniteSet(1..i)
    BY FS_Interval
  <1>2. IsFiniteSet(S \cap (1..i))
    BY <1>1, FS_Subset
  <1> QED
    BY <1>2, FS_CardinalityType DEF UpTo

\* The next position counts one more when it is a member.
LEMMA UpToNext ==
  \A S : \A i \in Nat : UpTo(i + 1, S) = UpTo(i, S) + (IF i + 1 \in S THEN 1 ELSE 0)
  <1> TAKE S
  <1> TAKE i \in Nat
  <1>1. IsFiniteSet(1..i)
    BY FS_Interval
  <1>2. IsFiniteSet(S \cap (1..i))
    BY <1>1, FS_Subset
  <1>3. CASE i + 1 \in S
    <2>1. S \cap (1..(i + 1)) = (S \cap (1..i)) \cup {i + 1}
      BY <1>3
    <2>2. i + 1 \notin S \cap (1..i)
      OBVIOUS
    <2> QED
      BY <1>2, <1>3, <2>1, <2>2, FS_AddElement DEF UpTo
  <1>4. CASE i + 1 \notin S
    <2>1. S \cap (1..(i + 1)) = S \cap (1..i)
      BY <1>4
    <2>2. UpTo(i, S) \in Nat
      BY UpToNat
    <2> QED
      BY <1>4, <2>1, <2>2 DEF UpTo
  <1> QED
    BY <1>3, <1>4

\* Sets that agree up to i have as many members up to it.
LEMMA UpToSame ==
  ASSUME NEW S, NEW T, NEW i \in Nat, \A j \in 1..i : j \in S <=> j \in T
  PROVE  UpTo(i, S) = UpTo(i, T)
  <1>1. S \cap (1..i) = T \cap (1..i)
    OBVIOUS
  <1> QED
    BY <1>1 DEF UpTo

\* Further on, no fewer.
LEMMA UpToGrows ==
  \A S : \A i, j \in Nat : i <= j => UpTo(i, S) <= UpTo(j, S)
  <1> TAKE S
  <1> TAKE i, j \in Nat
  <1> HAVE i <= j
  <1>1. IsFiniteSet(1..j)
    BY FS_Interval
  <1>2. IsFiniteSet(S \cap (1..j))
    BY <1>1, FS_Subset
  <1>3. S \cap (1..i) \subseteq S \cap (1..j)
    OBVIOUS
  <1> QED
    BY <1>2, <1>3, FS_Subset DEF UpTo

\* Up to a later member, more.
LEMMA UpToLess ==
  \A S : \A i, j \in Nat : i < j /\ j \in S => UpTo(i, S) < UpTo(j, S)
  <1> TAKE S
  <1> TAKE i, j \in Nat
  <1> HAVE i < j /\ j \in S
  <1>1. j - 1 \in Nat /\ i <= j - 1 /\ (j - 1) + 1 = j
    OBVIOUS
  <1>2. UpTo(i, S) <= UpTo(j - 1, S)
    BY <1>1, UpToGrows
  <1>3. UpTo(j, S) = UpTo(j - 1, S) + 1
    BY <1>1, UpToNext
  <1>4. UpTo(i, S) \in Nat /\ UpTo(j - 1, S) \in Nat
    BY <1>1, UpToNat
  <1> QED
    BY <1>2, <1>3, <1>4

\* Without members after i, no more than up to i.
LEMMA UpToNoMore ==
  ASSUME NEW S, NEW i \in Nat, NEW n \in Nat, i <= n, \A j \in (i + 1)..n : j \notin S
  PROVE  UpTo(n, S) = UpTo(i, S)
  <1>1. S \cap (1..n) = S \cap (1..i)
    OBVIOUS
  <1> QED
    BY <1>1 DEF UpTo

\* The last of the members up to n.
LEMMA UpToLast ==
  \A S : \A n \in Nat :
    UpTo(n, S) # 0 => \E i \in 1..n : i \in S /\ UpTo(i, S) = UpTo(n, S)
  <1> TAKE S
  <1> DEFINE N == {n \in Nat : UpTo(n, S) # 0 => \E i \in 1..n : i \in S /\ UpTo(i, S) = UpTo(n, S)}
  <1>1. 0 \in N
    BY UpToNone
  <1>2. ASSUME NEW n \in Nat, n \in N PROVE n + 1 \in N
    <2>1. CASE n + 1 \in S
      BY <2>1
    <2>2. CASE n + 1 \notin S
      <3>1. UpTo(n + 1, S) = UpTo(n, S)
        BY <2>2, UpToNext, UpToNat
      <3>2. ASSUME UpTo(n + 1, S) # 0
            PROVE  \E i \in 1..(n + 1) : i \in S /\ UpTo(i, S) = UpTo(n + 1, S)
        <4>1. PICK i \in 1..n : i \in S /\ UpTo(i, S) = UpTo(n, S)
          BY <1>2, <3>1, <3>2
        <4>2. i \in 1..(n + 1)
          BY <4>1
        <4> QED
          BY <3>1, <4>1, <4>2
      <3> QED
        BY <3>2
    <2> QED
      BY <2>1, <2>2
  <1>3. Nat \subseteq N
    BY <1>1, <1>2, SetInduction
  <1> QED
    BY <1>3

\* Every count up to that of n is that of some member.
LEMMA UpToOnto ==
  \A S : \A n \in Nat : \A k \in 1..UpTo(n, S) : \E i \in 1..n : i \in S /\ UpTo(i, S) = k
  <1> TAKE S
  <1> DEFINE N == {n \in Nat : \A k \in 1..UpTo(n, S) : \E i \in 1..n : i \in S /\ UpTo(i, S) = k}
  <1>1. 0 \in N
    BY UpToNone
  <1>2. ASSUME NEW n \in Nat, n \in N PROVE n + 1 \in N
    <2> SUFFICES ASSUME NEW k \in 1..UpTo(n + 1, S)
                 PROVE  \E i \in 1..(n + 1) : i \in S /\ UpTo(i, S) = k
      OBVIOUS
    <2>1. UpTo(n, S) \in Nat /\ UpTo(n + 1, S) = UpTo(n, S) + (IF n + 1 \in S THEN 1 ELSE 0)
      BY UpToNat, UpToNext
    <2>2. CASE k \in 1..UpTo(n, S)
      <3>1. PICK i \in 1..n : i \in S /\ UpTo(i, S) = k
        BY <1>2, <2>2
      <3>2. i \in 1..(n + 1)
        BY <3>1
      <3> QED
        BY <3>1, <3>2
    <2>3. CASE n + 1 \in S /\ k = UpTo(n + 1, S)
      BY <2>3
    <2> QED
      BY <2>1, <2>2, <2>3
  <1>3. Nat \subseteq N
    BY <1>1, <1>2, SetInduction
  <1> QED
    BY <1>3

----------------------------------------------------------------------------
(* Sinks. *)

Both == {"Object", "List"}

\* A jsonSink: its containers have names and a count, and what it has written
\* is the beginning of one value, with as many containers open in it.
IsJsonSink(s) ==
  /\ s \in [kind : {"json"}, out : {s.out}, open : {s.open}, err : {s.err}]
  /\ IsSeq(s.out)
  /\ IsSeq(s.open)
  /\ FirstValue(s.out) = [n |-> Len(s.out), open |-> Len(s.open)]
  /\ \A k \in 1..Len(s.open) :
       /\ s.open[k] \in [is : Both, names : {s.open[k].names}, pending : BOOLEAN, count : Nat]
       /\ IsSeq(s.open[k].names)

\* A dynamicSink: its containers have the parts built so far.
IsDynamicSink(s) ==
  /\ s \in [kind : {"dynamic"}, build : {s.build}, err : {s.err}]
  /\ s.build \in [root : {s.build.root}, stack : {s.build.stack}]
  /\ IsSeq(s.build.stack)
  /\ \A k \in 1..Len(s.build.stack) :
       /\ s.build.stack[k] \in [is : Both, field : {s.build.stack[k].field},
                                parts : {s.build.stack[k].parts}]
       /\ IsSeq(s.build.stack[k].parts)

\* Either.
IsSink(s) == IsJsonSink(s) \/ IsDynamicSink(s)

\* A value may be written next.
Ready(s) ==
  IF OpenIn(s) = <<>> THEN s.kind = "json" => s.out = <<>>
  ELSE Last(OpenIn(s)).is = "List" \/ (s.kind = "json" => Last(OpenIn(s)).pending)

\* The root is there, or has begun.
Rooted(s) == IF s.kind = "json" THEN s.out # <<>> ELSE s.build.root # <<>>

\* A name may be written next, or the object ended.
AtName(s) ==
  /\ OpenIn(s) # <<>>
  /\ Last(OpenIn(s)).is = "Object"
  /\ s.kind = "json" => ~Last(OpenIn(s)).pending

\* Container k, an object, has been given names, the last of which awaits its
\* value when inside is true.
Holds(s, k, names, inside) ==
  IF s.kind = "json"
  THEN s.open[k].names = names /\ s.open[k].pending = inside
  ELSE IF inside
  THEN names # <<>> /\ NamesIn(s, k) = Front(names) /\ s.build.stack[k].field = Last(names)
  ELSE NamesIn(s, k) = names

\* Container k, a list, has been given n values.
Counts(s, k, n) == s.kind = "json" => s.open[k].count = n

\* From s to t, a whole value has gone into container m, or is the root.
Filled(s, t, m) ==
  /\ IsSink(t) /\ t.kind = s.kind /\ t.err = "none"
  /\ Len(OpenIn(t)) = m
  /\ m = 0 => Rooted(t)
  /\ \A k \in 1..m : k < m => OpenIn(t)[k] = OpenIn(s)[k]
  /\ m > 0 =>
       /\ OpenIn(t)[m].is = OpenIn(s)[m].is
       /\ OpenIn(s)[m].is = "Object" =>
            \A names : IsSeq(names) /\ Holds(s, m, names, TRUE) => Holds(t, m, names, FALSE)
       /\ OpenIn(s)[m].is = "List" => \A n : Counts(s, m, n) => Counts(t, m, n + 1)

\* From s to t, a container has begun.
Begun(s, t, is) ==
  /\ IsSink(t) /\ t.kind = s.kind /\ t.err = "none"
  /\ Len(OpenIn(t)) = Len(OpenIn(s)) + 1
  /\ \A k \in 1..Len(OpenIn(s)) : OpenIn(t)[k] = OpenIn(s)[k]
  /\ OpenIn(t)[Len(OpenIn(t))].is = is
  /\ is = "Object" => Holds(t, Len(OpenIn(t)), <<>>, FALSE)
  /\ is = "List" => Counts(t, Len(OpenIn(t)), 0)

\* From s to t, the innermost container has been given a name.
Named(s, t, name) ==
  /\ IsSink(t) /\ t.kind = s.kind /\ t.err = "none"
  /\ Len(OpenIn(t)) = Len(OpenIn(s))
  /\ \A k \in 1..Len(OpenIn(s)) : k < Len(OpenIn(s)) => OpenIn(t)[k] = OpenIn(s)[k]
  /\ OpenIn(t)[Len(OpenIn(s))].is = "Object"
  /\ \A names : IsSeq(names) /\ Holds(s, Len(OpenIn(s)), names, FALSE)
                  => Holds(t, Len(OpenIn(s)), Append(names, name), TRUE)

----------------------------------------------------------------------------
(* jsonSink *)

\* read is what FirstValue has read of tokens after each of the first m.
ReadsTo(tokens, m, read) ==
  read = [i \in 0..m |-> IF i = 0 THEN [n |-> 0, open |-> 0] ELSE ReadOn(read[i - 1], tokens[i])]

\* FirstValue's reading of any tokens is a function that exists.
LEMMA ReadsExist ==
  \A tokens : \A m \in Nat : \E read : ReadsTo(tokens, m, read)
  <1> TAKE tokens
  <1> DEFINE S == {m \in Nat : \E read : ReadsTo(tokens, m, read)}
  <1>1. 0 \in S
    <2> DEFINE r == [i \in 0..0 |-> [n |-> 0, open |-> 0]]
    <2>1. ReadsTo(tokens, 0, r)
      BY DEF ReadsTo
    <2> QED
      BY <2>1
  <1>2. ASSUME NEW m \in Nat, m \in S PROVE m + 1 \in S
    <2>1. PICK r : ReadsTo(tokens, m, r)
      BY <1>2
    <2> DEFINE q == [i \in 0..(m + 1) |-> IF i = m + 1 THEN ReadOn(r[m], tokens[m + 1]) ELSE r[i]]
    <2>2. \A i \in 0..(m + 1) :
            q[i] = IF i = 0 THEN [n |-> 0, open |-> 0] ELSE ReadOn(q[i - 1], tokens[i])
      <3> TAKE i \in 0..(m + 1)
      <3>1. CASE i = m + 1
        BY <3>1
      <3>2. CASE i \in 0..m /\ i # 0
        <4>1. i - 1 \in 0..(m + 1) /\ i - 1 # m + 1 /\ i # m + 1
          BY <3>2
        <4> QED
          BY <2>1, <3>2, <4>1 DEF ReadsTo
      <3>3. CASE i = 0
        BY <2>1, <3>3 DEF ReadsTo
      <3> QED
        BY <3>1, <3>2, <3>3
    <2>3. ReadsTo(tokens, m + 1, q)
      <3> DEFINE body(i) == IF i = 0 THEN [n |-> 0, open |-> 0] ELSE ReadOn(q[i - 1], tokens[i])
      <3>1. q = [i \in 0..(m + 1) |-> q[i]]
        OBVIOUS
      <3> HIDE DEF q
      <3> QED
        BY <2>2, <3>1 DEF ReadsTo
    <2> QED
      BY <2>3
  <1>3. Nat \subseteq S
    BY <1>1, <1>2, SetInduction
  <1> QED
    BY <1>3

\* Tokens that agree up to m have been read alike there.
LEMMA ReadsAgree ==
  ASSUME NEW m \in Nat, NEW s, NEW t, \A i \in 1..m : s[i] = t[i],
         NEW r, NEW q, ReadsTo(s, m, r), ReadsTo(t, m + 1, q)
  PROVE  r[m] = q[m]
  <1> DEFINE S == {i \in Nat : i <= m => r[i] = q[i]}
  <1>1. 0 \in S
    BY DEF ReadsTo
  <1>2. ASSUME NEW i \in Nat, i \in S PROVE i + 1 \in S
    <2> SUFFICES ASSUME i + 1 <= m PROVE r[i + 1] = q[i + 1]
      OBVIOUS
    <2>1. i + 1 \in 0..m /\ i + 1 \in 0..(m + 1) /\ i + 1 # 0 /\ (i + 1) - 1 = i /\ i + 1 \in 1..m
      OBVIOUS
    <2>2. r[i] = q[i]
      BY <1>2
    <2>3. r[i + 1] = ReadOn(r[i], s[i + 1])
      BY <2>1 DEF ReadsTo
    <2>4. q[i + 1] = ReadOn(q[i], t[i + 1])
      BY <2>1 DEF ReadsTo
    <2> QED
      BY <2>1, <2>2, <2>3, <2>4
  <1>3. Nat \subseteq S
    BY <1>1, <1>2, SetInduction
  <1> QED
    BY <1>3

\* FirstValue is what such a reading ends with.
LEMMA FirstValueReads ==
  ASSUME NEW tokens, IsSeq(tokens)
  PROVE  \E read : ReadsTo(tokens, Len(tokens), read) /\ FirstValue(tokens) = read[Len(tokens)]
  <1>1. Len(tokens) \in Nat
    BY SeqFacts
  <1>2. \E read : ReadsTo(tokens, Len(tokens), read)
    BY <1>1, ReadsExist
  <1> QED
    BY <1>2 DEF FirstValue, ReadsTo

\* Reading on.
LEMMA FirstValueNone == FirstValue(<<>>) = [n |-> 0, open |-> 0]
  <1>1. PICK read : ReadsTo(<<>>, 0, read) /\ FirstValue(<<>>) = read[0]
    BY SeqEmpty, FirstValueReads
  <1> QED
    BY <1>1 DEF ReadsTo

\* One token more is one step of reading more.
LEMMA FirstValueNext ==
  ASSUME NEW tokens, IsSeq(tokens), NEW token
  PROVE  FirstValue(Append(tokens, token)) = ReadOn(FirstValue(tokens), token)
  <1> DEFINE m == Len(tokens)
             more == Append(tokens, token)
  <1>1. /\ IsSeq(more) /\ Len(more) = m + 1 /\ m \in Nat
        /\ \A i \in 1..m : more[i] = tokens[i]
        /\ more[m + 1] = token
    BY SeqAppend, SeqFacts
  <1> HIDE DEF more
  <1>2. PICK r : ReadsTo(tokens, m, r) /\ FirstValue(tokens) = r[m]
    BY FirstValueReads
  <1>3. PICK q : ReadsTo(more, m + 1, q) /\ FirstValue(more) = q[m + 1]
    BY <1>1, FirstValueReads
  <1> HIDE DEF m
  <1>4. r[m] = q[m]
    <2>1. m \in Nat /\ (\A i \in 1..m : tokens[i] = more[i]) /\ ReadsTo(tokens, m, r) /\ ReadsTo(more, m + 1, q)
      BY <1>1, <1>2, <1>3
    <2> HIDE DEF ReadsTo
    <2> QED
      BY <2>1, ReadsAgree
  <1>5. q[m + 1] = ReadOn(q[m], more[m + 1])
    BY <1>1, <1>3 DEF ReadsTo
  <1> QED
    BY <1>1, <1>2, <1>3, <1>4, <1>5 DEF more

\* One token more.
LEMMA ReadsOneMore ==
  ASSUME NEW s, IsJsonSink(s), s.open = <<>> => s.out = <<>>, NEW token
  PROVE  FirstValue(Append(s.out, token)) =
           [n    |-> Len(s.out) + 1,
            open |-> IF token \in Opening THEN Len(s.open) + 1
                     ELSE IF token \in Closing THEN Len(s.open) - 1 ELSE Len(s.open)]
  <1> DEFINE done == FirstValue(s.out)
  <1>1. done = [n |-> Len(s.out), open |-> Len(s.open)] /\ IsSeq(s.out) /\ IsSeq(s.open)
    BY DEF IsJsonSink
  <1>2. FirstValue(Append(s.out, token)) = ReadOn(done, token)
    BY <1>1, FirstValueNext
  <1>3. done.n = Len(s.out) /\ done.open = Len(s.open)
    BY <1>1
  <1> HIDE DEF done
  <1>4. ~(done.n > 0 /\ done.open = 0)
    BY <1>1, <1>3, SeqFacts
  <1> QED
    BY <1>2, <1>3, <1>4 DEF ReadOn

\* jsonSink's containers after a value: what the innermost one awaited is there.
FilledJson(open) ==
  IF open = <<>> THEN open
  ELSE [open EXCEPT ![Len(open)].pending = FALSE, ![Len(open)].count = @ + 1]

\* A jsonSink that has written one token more.
Written(s, token, after) == [s EXCEPT !.out = Append(@, token), !.open = after]

\* The kinds of token.
LEMMA TokenKinds ==
  /\ OpenObject.t = "{" /\ OpenList.t = "[" /\ CloseObject.t = "}" /\ CloseList.t = "]"
  /\ \A v : Str(v).t = "string" /\ Str(v).v = v /\ Num(v).t = "number"
  /\ NullToken.t = "null"
  BY DEF OpenObject, OpenList, CloseObject, CloseList, Str, Num, NullToken, Token

\* jsonSink.writeToken, of a value where one may be written.
LEMMA JsonValue ==
  ASSUME NEW s, IsJsonSink(s), Ready(s), NEW token, token.t \in {"string", "number", "null"}
  PROVE  WriteToken(s, token) = Written(s, token, FilledJson(s.open))
  <1>1. token # OpenObject /\ token # OpenList /\ token # CloseObject /\ token # CloseList
    BY TokenKinds
  <1>2. ~(s.open # <<>> /\ Last(s.open).is = "Object" /\ ~Last(s.open).pending)
    BY DEF Ready, OpenIn, IsJsonSink
  <1> QED
    BY <1>1, <1>2 DEF WriteToken, Written, FilledJson, Opening, Closing

\* jsonSink.writeToken, of a name: one already given is refused.
LEMMA JsonName ==
  ASSUME NEW s, IsJsonSink(s), AtName(s), NEW v
  PROVE  WriteToken(s, Str(v)) =
           IF Contains(Last(s.open).names, v) THEN [s EXCEPT !.err = "duplicate"]
           ELSE Written(s, Str(v), [s.open EXCEPT ![Len(s.open)].pending = TRUE,
                                                  ![Len(s.open)].names = Append(@, v)])
  <1>1. /\ Str(v) # OpenObject /\ Str(v) # OpenList /\ Str(v) # CloseObject /\ Str(v) # CloseList
        /\ Str(v).t = "string" /\ Str(v).v = v
    BY TokenKinds
  <1>2. s.open # <<>> /\ Last(s.open).is = "Object" /\ ~Last(s.open).pending
    BY DEF AtName, OpenIn, IsJsonSink
  <1> HIDE DEF Str
  <1> QED
    BY <1>1, <1>2 DEF WriteToken, Written, Opening, Closing

\* jsonSink.writeToken, of the beginning of a container.
LEMMA JsonBegin ==
  ASSUME NEW s, IsJsonSink(s), Ready(s)
  PROVE  /\ WriteToken(s, OpenObject) = Written(s, OpenObject, Append(s.open, Opened("Object")))
         /\ WriteToken(s, OpenList) = Written(s, OpenList, Append(s.open, Opened("List")))
  <1>1. /\ OpenObject # CloseObject /\ OpenObject # CloseList
        /\ OpenList # CloseObject /\ OpenList # CloseList /\ OpenObject # OpenList
    BY TokenKinds
  <1>2. ~(s.open # <<>> /\ Last(s.open).is = "Object" /\ ~Last(s.open).pending)
    BY DEF Ready, OpenIn, IsJsonSink
  <1> QED
    BY <1>1, <1>2 DEF WriteToken, Written, Closing

\* jsonSink.writeToken, of the end of the innermost container.
LEMMA JsonEnd ==
  ASSUME NEW s, IsJsonSink(s)
  PROVE  /\ AtName(s) => WriteToken(s, CloseObject) = Written(s, CloseObject, FilledJson(Front(s.open)))
         /\ s.open # <<>> /\ Last(s.open).is = "List"
              => WriteToken(s, CloseList) = Written(s, CloseList, FilledJson(Front(s.open)))
  <1>1. /\ CloseObject \in Closing /\ CloseList \in Closing /\ CloseObject # CloseList
        /\ CloseObject.t # "string" /\ CloseList.t # "string"
    BY TokenKinds DEF Closing
  <1> DEFINE outer == Front(s.open)
  <1> HIDE DEF outer
  <1>2. ASSUME AtName(s)
        PROVE  WriteToken(s, CloseObject) = Written(s, CloseObject, FilledJson(Front(s.open)))
    <2>1. s.open # <<>> /\ Last(s.open).is = "Object" /\ ~Last(s.open).pending
      BY <1>2 DEF AtName, OpenIn, IsJsonSink
    <2> QED
      BY <1>1, <2>1 DEF WriteToken, Written, FilledJson, outer
  <1>3. ASSUME s.open # <<>>, Last(s.open).is = "List"
        PROVE  WriteToken(s, CloseList) = Written(s, CloseList, FilledJson(Front(s.open)))
    BY <1>1, <1>3 DEF WriteToken, Written, FilledJson, outer
  <1> QED
    BY <1>2, <1>3

\* A value has gone into the last of some of a jsonSink's containers.
LEMMA JsonFills ==
  ASSUME NEW s, IsJsonSink(s), s.err = "none", NEW token,
         NEW m \in 0..Len(s.open),
         FirstValue(Append(s.out, token)) = [n |-> Len(s.out) + 1, open |-> m],
         NEW outer, IsSeq(outer), Len(outer) = m, \A k \in 1..m : outer[k] = s.open[k]
  PROVE  Filled(s, Written(s, token, FilledJson(outer)), m)
  <1> DEFINE t == Written(s, token, FilledJson(outer))
  <1>1. IsSeq(s.open) /\ Len(s.open) \in Nat /\ IsSeq(s.out) /\ s.kind = "json"
    BY SeqFacts DEF IsJsonSink
  <1>2. /\ t \in [kind : {"json"}, out : {t.out}, open : {t.open}, err : {t.err}]
        /\ t.out = Append(s.out, token) /\ t.open = FilledJson(outer) /\ t.err = "none" /\ t.kind = "json"
    BY DEF Written, IsJsonSink
  <1>3. IsSeq(t.out) /\ Len(t.out) = Len(s.out) + 1 /\ t.out # <<>>
    <2>1. IsSeq(t.out) /\ Len(t.out) = Len(s.out) + 1 /\ Len(s.out) \in Nat
      BY <1>1, <1>2, SeqAppend, SeqFacts
    <2>2. Len(t.out) # 0
      BY <2>1
    <2> QED
      BY <2>1, <2>2, SeqFacts
  <1>4. FirstValue(t.out) = [n |-> Len(t.out), open |-> m]
    BY <1>2, <1>3
  <1> HIDE DEF t
  <1>5. CASE m = 0
    <2>1. t.open = <<>>
      BY <1>2, <1>5, SeqFacts DEF FilledJson
    <2>2. IsSink(t)
      BY <1>2, <1>3, <1>4, <1>5, <2>1, SeqEmpty DEF IsSink, IsJsonSink
    <2> QED
      BY <1>1, <1>2, <1>3, <1>5, <2>1, <2>2, SeqEmpty DEF Filled, OpenIn, Rooted, t
  <1>6. CASE m > 0
    <2> DEFINE a == s.open[m]
               b == [a EXCEPT !.pending = FALSE, !.count = @ + 1]
    <2>1. a \in [is : Both, names : {a.names}, pending : BOOLEAN, count : Nat] /\ IsSeq(a.names)
      BY <1>1, <1>6 DEF IsJsonSink
    <2>2. /\ b \in [is : Both, names : {b.names}, pending : BOOLEAN, count : Nat]
          /\ b.names = a.names /\ b.is = a.is /\ b.pending = FALSE /\ b.count = a.count + 1
      <3> HIDE DEF a
      <3>1. DOMAIN a = {"is", "names", "pending", "count"} /\ a.is \in Both /\ a.count \in Nat
        BY <2>1
      <3>2. DOMAIN b = DOMAIN a /\ b = [x \in DOMAIN a |-> b[x]]
        OBVIOUS
      <3>3. b.is = a.is /\ b.names = a.names /\ b.pending = FALSE /\ b.count = a.count + 1
        BY <3>1
      <3> HIDE DEF b
      <3>4. b = [is |-> b.is, names |-> b.names, pending |-> b.pending, count |-> b.count]
        BY <3>1, <3>2
      <3>5. b.is \in Both /\ b.pending \in BOOLEAN
        BY <3>1, <3>3
      <3>6. b.count \in Nat
        <4>1. \A c \in Nat : c + 1 \in Nat
          OBVIOUS
        <4> HIDE DEF a
        <4> QED
          BY <3>1, <3>3, <4>1
      <3> QED
        BY <3>3, <3>4, <3>5, <3>6
    <2>3. t.open = [outer EXCEPT ![m] = b]
      <3>1. outer # <<>> /\ outer[m] = a
        BY <1>6, SeqFacts
      <3>2. FilledJson(outer) = [outer EXCEPT ![m].pending = FALSE, ![m].count = @ + 1]
        BY <3>1 DEF FilledJson
      <3> QED
        BY <1>2, <3>1, <3>2, ZenonT(30)
    <2> HIDE DEF a, b
    <2>4. /\ IsSeq(t.open) /\ Len(t.open) = m
          /\ \A k \in 1..m : t.open[k] = IF k = m THEN b ELSE s.open[k]
      <3>1. m \in 1..Len(outer) /\ Len(outer) = m /\ DOMAIN outer = 1..m
        BY <1>1, <1>6, SeqFacts
      <3>2. DOMAIN t.open = DOMAIN outer /\ t.open = [i \in DOMAIN outer |-> t.open[i]]
        BY <2>3
      <3>3. \A k \in 1..m : t.open[k] = IF k = m THEN b ELSE outer[k]
        BY <2>3, <3>1
      <3> QED
        BY <3>1, <3>2, <3>3, SeqUpdate
    <2>5. IsSink(t)
      <3>1. ASSUME NEW k \in 1..Len(t.open)
            PROVE  /\ t.open[k] \in [is : Both, names : {t.open[k].names}, pending : BOOLEAN, count : Nat]
                   /\ IsSeq(t.open[k].names)
        <4>1. CASE k = m
          BY <2>1, <2>2, <2>4, <4>1
        <4>2. CASE k # m
          BY <1>1, <2>4, <4>2 DEF IsJsonSink
        <4> QED
          BY <4>1, <4>2
      <3> QED
        BY <1>2, <1>3, <1>4, <2>4, <3>1 DEF IsSink, IsJsonSink
    <2>6. \A names : Holds(s, m, names, TRUE) => Holds(t, m, names, FALSE)
      BY <1>1, <1>2, <1>6, <2>2, <2>4 DEF Holds, a
    <2>7. OpenIn(t) = t.open /\ OpenIn(s) = s.open
      BY <1>1, <1>2 DEF OpenIn
    <2>8. OpenIn(t)[m].is = OpenIn(s)[m].is
      BY <1>6, <2>2, <2>4, <2>7 DEF a
    <2>9. \A k \in 1..m : k < m => OpenIn(t)[k] = OpenIn(s)[k]
      BY <2>4, <2>7
    <2>10. Len(OpenIn(t)) = m
      BY <2>4, <2>7
    <2>11. m # 0
      BY <1>6
    <2>12. \A n : Counts(s, m, n) => Counts(t, m, n + 1)
      BY <1>1, <1>2, <1>6, <2>2, <2>4 DEF Counts, a
    <2>13. Filled(s, t, m)
      BY <1>1, <1>2, <2>5, <2>6, <2>8, <2>9, <2>10, <2>11, <2>12 DEF Filled
    <2> QED
      BY <2>13 DEF t
  <1> QED
    BY <1>5, <1>6

\* A jsonSink has begun a container.
LEMMA JsonBegins ==
  ASSUME NEW s, IsJsonSink(s), s.err = "none", NEW token, NEW is \in Both,
         FirstValue(Append(s.out, token)) = [n |-> Len(s.out) + 1, open |-> Len(s.open) + 1]
  PROVE  Begun(s, Written(s, token, Append(s.open, Opened(is))), is)
  <1> DEFINE t == Written(s, token, Append(s.open, Opened(is)))
  <1>1. IsSeq(s.open) /\ Len(s.open) \in Nat /\ IsSeq(s.out) /\ s.kind = "json"
    BY SeqFacts DEF IsJsonSink
  <1>2. /\ t \in [kind : {"json"}, out : {t.out}, open : {t.open}, err : {t.err}]
        /\ t.out = Append(s.out, token) /\ t.open = Append(s.open, Opened(is))
        /\ t.err = "none" /\ t.kind = "json"
    BY DEF Written, IsJsonSink
  <1>3. IsSeq(t.out) /\ Len(t.out) = Len(s.out) + 1 /\ FirstValue(t.out) = [n |-> Len(t.out), open |-> Len(s.open) + 1]
    BY <1>1, <1>2, SeqAppend
  <1>4. /\ IsSeq(t.open) /\ Len(t.open) = Len(s.open) + 1
        /\ \A k \in 1..Len(s.open) : t.open[k] = s.open[k]
        /\ t.open[Len(s.open) + 1] = Opened(is)
    BY <1>1, <1>2, SeqAppend
  <1>5. /\ Opened(is) \in [is : Both, names : {Opened(is).names}, pending : BOOLEAN, count : Nat]
        /\ Opened(is).names = <<>> /\ Opened(is).is = is /\ Opened(is).pending = FALSE
        /\ Opened(is).count = 0
    BY DEF Opened
  <1>6. OpenIn(t) = t.open /\ OpenIn(s) = s.open
    BY <1>1, <1>2 DEF OpenIn
  <1> HIDE DEF t
  <1>7. IsSink(t)
    <2>1. ASSUME NEW k \in 1..Len(t.open)
          PROVE  /\ t.open[k] \in [is : Both, names : {t.open[k].names}, pending : BOOLEAN, count : Nat]
                 /\ IsSeq(t.open[k].names)
      <3>1. CASE k = Len(s.open) + 1
        BY <1>4, <1>5, <3>1, SeqEmpty
      <3>2. CASE k \in 1..Len(s.open)
        BY <1>1, <1>4, <3>2 DEF IsJsonSink
      <3> QED
        BY <1>1, <1>4, <3>1, <3>2
    <2> QED
      BY <1>2, <1>3, <1>4, <2>1 DEF IsSink, IsJsonSink
  <1>8. Holds(t, Len(OpenIn(t)), <<>>, FALSE) /\ Counts(t, Len(OpenIn(t)), 0)
    BY <1>2, <1>4, <1>5, <1>6 DEF Holds, Counts
  <1>9. OpenIn(t)[Len(OpenIn(t))].is = is /\ Len(OpenIn(t)) = Len(OpenIn(s)) + 1
    BY <1>4, <1>5, <1>6
  <1>10. \A k \in 1..Len(OpenIn(s)) : OpenIn(t)[k] = OpenIn(s)[k]
    BY <1>4, <1>6
  <1>11. Begun(s, t, is)
    BY <1>1, <1>2, <1>7, <1>8, <1>9, <1>10 DEF Begun
  <1> QED
    BY <1>11 DEF t

\* A jsonSink has been given a name.
LEMMA JsonNames ==
  ASSUME NEW s, IsJsonSink(s), s.err = "none", AtName(s), NEW token, NEW v,
         FirstValue(Append(s.out, token)) = [n |-> Len(s.out) + 1, open |-> Len(s.open)]
  PROVE  Named(s, Written(s, token, [s.open EXCEPT ![Len(s.open)].pending = TRUE,
                                                   ![Len(s.open)].names = Append(@, v)]), v)
  <1> DEFINE n == Len(s.open)
             a == s.open[n]
             b == [a EXCEPT !.pending = TRUE, !.names = Append(@, v)]
             t == Written(s, token, [s.open EXCEPT ![Len(s.open)].pending = TRUE,
                                                   ![Len(s.open)].names = Append(@, v)])
  <1>1. IsSeq(s.open) /\ n \in Nat /\ n > 0 /\ IsSeq(s.out) /\ s.kind = "json"
    BY SeqFacts DEF IsJsonSink, AtName, OpenIn
  <1>2. /\ t \in [kind : {"json"}, out : {t.out}, open : {t.open}, err : {t.err}]
        /\ t.out = Append(s.out, token)
        /\ t.open = [s.open EXCEPT ![n] = b]
        /\ t.err = "none" /\ t.kind = "json"
    BY <1>1 DEF Written, IsJsonSink
  <1> HIDE DEF t
  <1>3. IsSeq(t.out) /\ Len(t.out) = Len(s.out) + 1 /\ FirstValue(t.out) = [n |-> Len(t.out), open |-> n]
    BY <1>1, <1>2, SeqAppend
  <1>4. a \in [is : Both, names : {a.names}, pending : BOOLEAN, count : Nat] /\ IsSeq(a.names) /\ a.is = "Object"
    BY <1>1 DEF IsJsonSink, AtName, OpenIn, Last
  <1>5. /\ b \in [is : Both, names : {b.names}, pending : BOOLEAN, count : Nat]
        /\ b.names = Append(a.names, v) /\ b.is = a.is /\ b.pending = TRUE
    BY <1>4
  <1> HIDE DEF a, b
  <1>6. /\ IsSeq(t.open) /\ Len(t.open) = n
        /\ \A k \in 1..n : t.open[k] = IF k = n THEN b ELSE s.open[k]
    <2>1. n \in 1..Len(s.open) /\ DOMAIN s.open = 1..n
      BY <1>1, SeqFacts
    <2>2. DOMAIN t.open = DOMAIN s.open /\ t.open = [i \in DOMAIN s.open |-> t.open[i]]
      BY <1>2
    <2>3. \A k \in 1..n : t.open[k] = IF k = n THEN b ELSE s.open[k]
      BY <1>2, <2>1
    <2> QED
      BY <1>1, <2>2, <2>3, SeqUpdate
  <1> HIDE DEF n
  <1>7. OpenIn(t) = t.open /\ OpenIn(s) = s.open
    BY <1>1, <1>2 DEF OpenIn
  <1>8. IsSink(t)
    <2>1. ASSUME NEW k \in 1..Len(t.open)
          PROVE  /\ t.open[k] \in [is : Both, names : {t.open[k].names}, pending : BOOLEAN, count : Nat]
                 /\ IsSeq(t.open[k].names)
      <3>1. CASE k = n
        <4>1. t.open[k] = b
          BY <1>6, <3>1
        <4>2. IsSeq(b.names)
          BY <1>4, <1>5, SeqAppend
        <4> QED
          BY <1>5, <4>1, <4>2
      <3>2. CASE k # n
        BY <1>1, <1>6, <3>2 DEF IsJsonSink, n
      <3> QED
        BY <3>1, <3>2
    <2> QED
      BY <1>2, <1>3, <1>6, <2>1 DEF IsSink, IsJsonSink
  <1>9. \A names : Holds(s, n, names, FALSE) => Holds(t, n, Append(names, v), TRUE)
    BY <1>1, <1>2, <1>5, <1>6 DEF Holds, a
  <1>10. Len(OpenIn(t)) = n /\ Len(OpenIn(s)) = n /\ OpenIn(t)[n].is = "Object"
    BY <1>1, <1>4, <1>5, <1>6, <1>7 DEF n
  <1>11. \A k \in 1..n : k < n => OpenIn(t)[k] = OpenIn(s)[k]
    BY <1>6, <1>7
  <1>12. Named(s, t, v)
    BY <1>1, <1>2, <1>8, <1>9, <1>10, <1>11 DEF Named
  <1> QED
    BY <1>12 DEF t

----------------------------------------------------------------------------
(* dynamicSink *)

\* dynamicSink.put: a value has gone into the last of some containers.
LEMMA DynamicFills ==
  ASSUME NEW s, IsDynamicSink(s), s.err = "none",
         NEW m \in 0..Len(s.build.stack),
         NEW outer, IsSeq(outer), Len(outer) = m, \A k \in 1..m : outer[k] = s.build.stack[k],
         NEW build, build = [root |-> s.build.root, stack |-> outer],
         NEW value
  PROVE  Filled(s, [s EXCEPT !.build = Put(build, value)], m)
  <1> DEFINE t == [s EXCEPT !.build = Put(build, value)]
  <1>1. IsSeq(s.build.stack) /\ Len(s.build.stack) \in Nat /\ s.kind = "dynamic"
    BY SeqFacts DEF IsDynamicSink
  <1>2. /\ t \in [kind : {"dynamic"}, build : {t.build}, err : {t.err}]
        /\ t.build = Put(build, value) /\ t.err = "none" /\ t.kind = "dynamic"
    BY DEF IsDynamicSink
  <1>3. OpenIn(t) = t.build.stack /\ OpenIn(s) = s.build.stack
    BY <1>1, <1>2 DEF OpenIn
  <1> HIDE DEF t
  <1>4. CASE m = 0
    <2>1. outer = <<>>
      BY <1>4, SeqFacts
    <2>2. t.build = [root |-> <<value>>, stack |-> <<>>]
      BY <1>2, <2>1 DEF Put
    <2>3. IsSink(t)
      BY <1>2, <2>2, SeqEmpty DEF IsSink, IsDynamicSink
    <2>4. Rooted(t)
      <3>1. <<value>> # <<>>
        BY SeqOne, SeqFacts
      <3>2. t.build.root = <<value>>
        BY <2>2
      <3>3. t.build.root # <<>>
        BY <3>1, <3>2
      <3> QED
        BY <1>2, <3>3 DEF Rooted
    <2> QED
      BY <1>1, <1>2, <1>3, <1>4, <2>2, <2>3, <2>4, SeqEmpty DEF Filled, t
  <1>5. CASE m > 0
    <2>1. m # 0 /\ m \in Nat /\ m \in 1..m /\ m \in 1..Len(s.build.stack)
      BY <1>1, <1>5
    <2> DEFINE a == s.build.stack[m]
               part == IF a.is = "Object" THEN Member(a.field, value) ELSE value
               b == [a EXCEPT !.parts = Append(@, part)]
    <2>2. a \in [is : Both, field : {a.field}, parts : {a.parts}] /\ IsSeq(a.parts)
      BY <1>1, <2>1 DEF IsDynamicSink
    <2>3. /\ b \in [is : Both, field : {b.field}, parts : {b.parts}]
          /\ b.parts = Append(a.parts, part) /\ b.is = a.is /\ b.field = a.field
      <3> HIDE DEF a
      <3> QED
        BY <2>2
    <2>4. t.build = [root |-> s.build.root, stack |-> [outer EXCEPT ![m] = b]]
      <3>1. outer # <<>> /\ outer[m] = a /\ Last(outer) = a
        BY <2>1, SeqFacts DEF Last
      <3>2. Put(build, value) = [build EXCEPT !.stack[m].parts = Append(@, part)]
        BY <3>1 DEF Put
      <3> HIDE DEF part
      <3>3. [build EXCEPT !.stack[m].parts = Append(@, part)] = [build EXCEPT !.stack = [outer EXCEPT ![m] = b]]
        BY <3>1
      <3> HIDE DEF b
      <3>4. [build EXCEPT !.stack = [outer EXCEPT ![m] = b]]
              = [root |-> s.build.root, stack |-> [outer EXCEPT ![m] = b]]
        OBVIOUS
      <3> QED
        BY <1>2, <3>2, <3>3, <3>4
    <2> HIDE DEF a, b
    <2>5. /\ IsSeq(t.build.stack) /\ Len(t.build.stack) = m
          /\ \A k \in 1..m : t.build.stack[k] = IF k = m THEN b ELSE s.build.stack[k]
      <3>1. m \in 1..Len(outer) /\ Len(outer) = m /\ DOMAIN outer = 1..m
        BY <2>1, SeqFacts
      <3>2. t.build.stack = [outer EXCEPT ![m] = b]
        BY <2>4
      <3>3. DOMAIN t.build.stack = DOMAIN outer /\ t.build.stack = [i \in DOMAIN outer |-> t.build.stack[i]]
        BY <3>2
      <3>4. \A k \in 1..m : t.build.stack[k] = IF k = m THEN b ELSE outer[k]
        BY <3>1, <3>2
      <3> QED
        BY <3>1, <3>3, <3>4, SeqUpdate
    <2>6. IsSink(t)
      <3>1. ASSUME NEW k \in 1..m
            PROVE  /\ t.build.stack[k] \in [is : Both, field : {t.build.stack[k].field},
                                            parts : {t.build.stack[k].parts}]
                   /\ IsSeq(t.build.stack[k].parts)
        <4>1. CASE k = m
          <5>1. IsSeq(b.parts)
            BY <2>2, <2>3, SeqAppend
          <5> QED
            BY <2>3, <2>5, <4>1, <5>1
        <4>2. CASE k # m
          BY <1>1, <2>5, <4>2 DEF IsDynamicSink
        <4> QED
          BY <4>1, <4>2
      <3>2. t.build \in [root : {t.build.root}, stack : {t.build.stack}]
        BY <2>4
      <3> QED
        BY <1>2, <2>5, <3>1, <3>2 DEF IsSink, IsDynamicSink
    <2>7. ASSUME NEW names, IsSeq(names), Holds(s, m, names, TRUE), a.is = "Object"
          PROVE  Holds(t, m, names, FALSE)
      <3>1. names # <<>> /\ NamesIn(s, m) = Front(names) /\ a.field = Last(names)
        BY <1>1, <2>7 DEF Holds, a
      <3>2. part = Member(Last(names), value)
        BY <2>7, <3>1
      <3> DEFINE n == Len(a.parts)
      <3>3. n \in Nat /\ DOMAIN a.parts = 1..n
        BY <2>2, SeqFacts
      <3>4. NamesIn(s, m) = [i \in 1..n |-> a.parts[i].name]
        BY <1>1, <3>3 DEF NamesIn, a
      <3>5. /\ IsSeq(Front(names)) /\ Len(Front(names)) = Len(names) - 1 /\ Len(names) \in Nat
            /\ \A i \in 1..(Len(names) - 1) : Front(names)[i] = names[i]
        BY <2>7, <3>1, SeqFront, SeqFacts DEF Front
      <3>6. Len(names) - 1 = n
        <4>1. IsSeq(NamesIn(s, m)) /\ Len(NamesIn(s, m)) = n
          <5> DEFINE f == [i \in 1..n |-> a.parts[i].name]
          <5>1. DOMAIN f = 1..n /\ f = [i \in 1..n |-> f[i]]
            OBVIOUS
          <5> HIDE DEF f, n
          <5>2. IsSeq(f) /\ Len(f) = n
            BY <3>3, <5>1, SeqMake
          <5> QED
            BY <3>4, <5>2 DEF f
        <4> QED
          BY <3>1, <3>5, <4>1
      <3>7. \A i \in 1..n : names[i] = a.parts[i].name
        BY <3>1, <3>4, <3>5, <3>6
      <3>8. IsSeq(b.parts) /\ DOMAIN b.parts = 1..(n + 1) /\ b.parts[n + 1] = part
            /\ \A i \in 1..n : b.parts[i] = a.parts[i]
        BY <2>2, <2>3, SeqAppend, SeqFacts
      <3>9. NamesIn(t, m) = [i \in 1..(n + 1) |-> b.parts[i].name]
        BY <1>2, <2>1, <2>5, <3>8 DEF NamesIn
      <3>10. \A i \in 1..(n + 1) : b.parts[i].name = names[i]
        <4> TAKE i \in 1..(n + 1)
        <4> HIDE DEF part, n
        <4>1. CASE i = n + 1
          <5>1. Last(names) = names[n + 1] /\ part.name = Last(names)
            BY <3>2, <3>3, <3>5, <3>6 DEF Last, Member
          <5> QED
            BY <3>8, <4>1, <5>1
        <4>2. CASE i \in 1..n
          BY <3>7, <3>8, <4>2
        <4> QED
          BY <3>3, <4>1, <4>2
      <3>11. names = [i \in 1..(n + 1) |-> names[i]]
        <4>1. Len(names) = n + 1 /\ names = [i \in DOMAIN names |-> names[i]]
          BY <2>7, <3>3, <3>5, <3>6 DEF IsSeq
        <4> QED
          BY <2>7, <4>1, SeqFacts
      <3>12. NamesIn(t, m) = names
        BY <3>9, <3>10, <3>11
      <3> QED
        BY <1>2, <3>12 DEF Holds
    <2>8. OpenIn(t)[m].is = OpenIn(s)[m].is /\ OpenIn(s)[m].is = a.is
      BY <1>3, <2>1, <2>3, <2>5 DEF a
    <2>9. \A k \in 1..m : k < m => OpenIn(t)[k] = OpenIn(s)[k]
      BY <1>3, <2>5
    <2>10. Len(OpenIn(t)) = m
      BY <1>3, <2>5
    <2>11. Filled(s, t, m)
      BY <1>1, <1>2, <2>1, <2>6, <2>7, <2>8, <2>9, <2>10 DEF Filled, Counts
    <2> QED
      BY <2>11 DEF t
  <1> QED
    BY <1>4, <1>5

\* A dynamicSink has begun a container.
LEMMA DynamicBegins ==
  ASSUME NEW s, IsDynamicSink(s), s.err = "none", NEW is \in Both
  PROVE  Begun(s, [s EXCEPT !.build = Begin(s.build, is)], is)
  <1> DEFINE t == [s EXCEPT !.build = Begin(s.build, is)]
  <1>1. IsSeq(s.build.stack) /\ Len(s.build.stack) \in Nat /\ s.kind = "dynamic"
    BY SeqFacts DEF IsDynamicSink
  <1>2. /\ t \in [kind : {"dynamic"}, build : {t.build}, err : {t.err}]
        /\ t.build = Begin(s.build, is) /\ t.err = "none" /\ t.kind = "dynamic"
    BY DEF IsDynamicSink
  <1>3. /\ t.build \in [root : {t.build.root}, stack : {t.build.stack}]
        /\ t.build.stack = Append(s.build.stack, Filling(is))
    BY <1>2 DEF IsDynamicSink, Begin
  <1> HIDE DEF t
  <1>4. /\ IsSeq(t.build.stack) /\ Len(t.build.stack) = Len(s.build.stack) + 1
        /\ \A k \in 1..Len(s.build.stack) : t.build.stack[k] = s.build.stack[k]
        /\ t.build.stack[Len(s.build.stack) + 1] = Filling(is)
    BY <1>1, <1>3, SeqAppend
  <1>5. OpenIn(t) = t.build.stack /\ OpenIn(s) = s.build.stack
    BY <1>1, <1>2 DEF OpenIn
  <1> HIDE DEF t
  <1>6. /\ Filling(is) \in [is : Both, field : {Filling(is).field}, parts : {Filling(is).parts}]
        /\ Filling(is).parts = <<>> /\ Filling(is).is = is
    BY DEF Filling
  <1>7. IsSink(t)
    <2>1. ASSUME NEW k \in 1..Len(t.build.stack)
          PROVE  /\ t.build.stack[k] \in [is : Both, field : {t.build.stack[k].field},
                                          parts : {t.build.stack[k].parts}]
                 /\ IsSeq(t.build.stack[k].parts)
      <3>1. CASE k = Len(s.build.stack) + 1
        BY <1>4, <1>6, <3>1, SeqEmpty
      <3>2. CASE k \in 1..Len(s.build.stack)
        BY <1>1, <1>4, <3>2 DEF IsDynamicSink
      <3> QED
        BY <1>1, <1>4, <3>1, <3>2, SMTT(30)
    <2> QED
      BY <1>2, <1>3, <1>4, <2>1 DEF IsSink, IsDynamicSink
  <1>8. Holds(t, Len(OpenIn(t)), <<>>, FALSE)
    <2>1. t.build.stack[Len(OpenIn(t))].parts = <<>>
      BY <1>4, <1>5, <1>6
    <2>2. DOMAIN t.build.stack[Len(OpenIn(t))].parts = {}
      BY <2>1
    <2>3. NamesIn(t, Len(OpenIn(t))) = <<>>
      BY <1>2, <2>2 DEF NamesIn
    <2> QED
      BY <1>2, <2>3 DEF Holds
  <1>9. OpenIn(t)[Len(OpenIn(t))].is = is /\ Len(OpenIn(t)) = Len(OpenIn(s)) + 1
    BY <1>4, <1>5, <1>6
  <1>10. \A k \in 1..Len(OpenIn(s)) : OpenIn(t)[k] = OpenIn(s)[k]
    BY <1>4, <1>5
  <1>11. Begun(s, t, is)
    BY <1>1, <1>2, <1>7, <1>8, <1>9, <1>10 DEF Begun, Counts
  <1> QED
    BY <1>11 DEF t

\* A dynamicSink has been given a name.
LEMMA DynamicNames ==
  ASSUME NEW s, IsDynamicSink(s), s.err = "none", AtName(s), NEW v
  PROVE  Named(s, [s EXCEPT !.build = Name(s.build, v)], v)
  <1> DEFINE n == Len(s.build.stack)
             a == s.build.stack[n]
             b == [a EXCEPT !.field = v]
             t == [s EXCEPT !.build = Name(s.build, v)]
  <1>1. IsSeq(s.build.stack) /\ n \in Nat /\ n # 0 /\ n \in 1..n /\ s.kind = "dynamic"
    <2>1. s.build.stack # <<>> /\ IsSeq(s.build.stack) /\ s.kind = "dynamic"
      BY DEF AtName, OpenIn, IsDynamicSink
    <2> QED
      BY <2>1, SeqFacts
  <1>2. /\ t \in [kind : {"dynamic"}, build : {t.build}, err : {t.err}]
        /\ t.build = Name(s.build, v) /\ t.err = "none" /\ t.kind = "dynamic"
    BY DEF IsDynamicSink
  <1> HIDE DEF t
  <1>3. a \in [is : Both, field : {a.field}, parts : {a.parts}] /\ IsSeq(a.parts) /\ a.is = "Object"
    BY <1>1 DEF IsDynamicSink, AtName, OpenIn, Last
  <1>4. /\ b \in [is : Both, field : {b.field}, parts : {b.parts}]
        /\ b.parts = a.parts /\ b.is = a.is /\ b.field = v
    <2> HIDE DEF a
    <2> QED
      BY <1>3
  <1>5. t.build.stack = [s.build.stack EXCEPT ![n] = b]
        /\ t.build \in [root : {t.build.root}, stack : {t.build.stack}]
    BY <1>1, <1>2 DEF Name, IsDynamicSink
  <1> HIDE DEF a, b
  <1>6. /\ IsSeq(t.build.stack) /\ Len(t.build.stack) = n
        /\ \A k \in 1..n : t.build.stack[k] = IF k = n THEN b ELSE s.build.stack[k]
    <2>1. DOMAIN s.build.stack = 1..n
      BY <1>1, SeqFacts
    <2>2. DOMAIN t.build.stack = DOMAIN s.build.stack
          /\ t.build.stack = [i \in DOMAIN s.build.stack |-> t.build.stack[i]]
      BY <1>5
    <2>3. \A k \in 1..n : t.build.stack[k] = IF k = n THEN b ELSE s.build.stack[k]
      BY <1>5, <2>1
    <2> QED
      BY <1>1, <2>2, <2>3, SeqUpdate
  <1> HIDE DEF n
  <1>7. OpenIn(t) = t.build.stack /\ OpenIn(s) = s.build.stack
    BY <1>1, <1>2 DEF OpenIn
  <1>8. IsSink(t)
    <2>1. ASSUME NEW k \in 1..n
          PROVE  /\ t.build.stack[k] \in [is : Both, field : {t.build.stack[k].field},
                                          parts : {t.build.stack[k].parts}]
                 /\ IsSeq(t.build.stack[k].parts)
      <3>1. CASE k = n
        BY <1>3, <1>4, <1>6, <3>1
      <3>2. CASE k # n
        BY <1>1, <1>6, <3>2 DEF IsDynamicSink, n
      <3> QED
        BY <3>1, <3>2
    <2> QED
      BY <1>2, <1>5, <1>6, <2>1 DEF IsSink, IsDynamicSink
  <1>9. ASSUME NEW names, IsSeq(names), Holds(s, n, names, FALSE)
        PROVE  Holds(t, n, Append(names, v), TRUE)
    <2>1. NamesIn(s, n) = names
      BY <1>1, <1>9 DEF Holds
    <2>2. NamesIn(t, n) = NamesIn(s, n)
      BY <1>1, <1>2, <1>4, <1>6 DEF NamesIn, a
    <2> DEFINE more == Append(names, v)
    <2>3. /\ IsSeq(more) /\ Len(more) = Len(names) + 1 /\ Len(names) \in Nat
          /\ more[Len(names) + 1] = v /\ \A i \in 1..Len(names) : more[i] = names[i]
      BY <1>9, SeqAppend, SeqFacts
    <2> HIDE DEF more
    <2>4. more # <<>>
      <3>1. Len(more) # 0
        BY <2>3
      <3> QED
        BY <2>3, <3>1, SeqFacts
    <2>5. Last(more) = v
      BY <2>3 DEF Last
    <2>6. Front(more) = names
      <3>1. /\ IsSeq(Front(more)) /\ Len(Front(more)) = Len(more) - 1
            /\ \A i \in 1..(Len(more) - 1) : Front(more)[i] = more[i]
        BY <2>3, <2>4, SeqFront DEF Front
      <3> HIDE DEF Front
      <3>2. Len(Front(more)) = Len(names) /\ \A i \in 1..Len(names) : Front(more)[i] = names[i]
        BY <2>3, <3>1
      <3>3. \A i \in 1..Len(Front(more)) : Front(more)[i] = names[i]
        BY <3>2
      <3> QED
        BY <1>9, <3>1, <3>2, <3>3, SeqSame
    <2>7. t.build.stack[n].field = v
      BY <1>1, <1>4, <1>6
    <2> QED
      BY <1>2, <2>1, <2>2, <2>4, <2>5, <2>6, <2>7 DEF Holds, more
  <1>10. Len(OpenIn(t)) = n /\ Len(OpenIn(s)) = n /\ OpenIn(t)[n].is = "Object"
    BY <1>1, <1>3, <1>4, <1>6, <1>7 DEF n
  <1>11. \A k \in 1..n : k < n => OpenIn(t)[k] = OpenIn(s)[k]
    BY <1>6, <1>7
  <1>12. Named(s, t, v)
    BY <1>1, <1>2, <1>8, <1>9, <1>10, <1>11 DEF Named
  <1> QED
    BY <1>12 DEF t

----------------------------------------------------------------------------
(* Either sink *)

\* The containers either sink has open.
LEMMA Openings ==
  ASSUME NEW s, IsSink(s)
  PROVE  /\ IsSeq(OpenIn(s)) /\ Len(OpenIn(s)) \in Nat
         /\ OpenIn(s) = <<>> <=> Len(OpenIn(s)) = 0
         /\ OpenIn(s) # <<>> => Last(OpenIn(s)).is \in Both
         /\ IsJsonSink(s) <=> s.kind = "json"
         /\ IsDynamicSink(s) <=> s.kind = "dynamic"
         /\ s.kind \in {"json", "dynamic"}
  <1>1. ASSUME IsJsonSink(s) PROVE s.kind = "json" /\ OpenIn(s) = s.open /\ IsSeq(s.open)
    BY <1>1 DEF IsJsonSink, OpenIn
  <1>2. ASSUME IsDynamicSink(s)
        PROVE  s.kind = "dynamic" /\ OpenIn(s) = s.build.stack /\ IsSeq(s.build.stack)
    BY <1>2 DEF IsDynamicSink, OpenIn
  <1>3. IsSeq(OpenIn(s)) /\ Len(OpenIn(s)) \in Nat /\ (OpenIn(s) = <<>> <=> Len(OpenIn(s)) = 0)
    BY <1>1, <1>2, SeqFacts DEF IsSink
  <1>4. OpenIn(s) # <<>> => Len(OpenIn(s)) \in 1..Len(OpenIn(s))
    BY <1>3
  <1>5. OpenIn(s) # <<>> => Last(OpenIn(s)).is \in Both
    BY <1>1, <1>2, <1>4 DEF IsSink, Last, IsJsonSink, IsDynamicSink
  <1> QED
    BY <1>1, <1>2, <1>3, <1>5 DEF IsSink

\* The innermost container, when it is an object, is at a name or awaits a value.
LEMMA InnermostObject ==
  ASSUME NEW s, IsSink(s), OpenIn(s) # <<>>, Last(OpenIn(s)).is = "Object", NEW names
  PROVE  /\ Holds(s, Len(OpenIn(s)), names, FALSE) => AtName(s)
         /\ Holds(s, Len(OpenIn(s)), names, TRUE) => Ready(s)
         /\ s.kind = "json" /\ Holds(s, Len(OpenIn(s)), names, FALSE) => Last(s.open).names = names
  BY Openings DEF Holds, AtName, Ready, OpenIn, Last

\* A container left as it was holds what it held.
LEMMA HoldsSame ==
  ASSUME NEW s, NEW t, IsSink(s), IsSink(t), t.kind = s.kind, NEW k, OpenIn(t)[k] = OpenIn(s)[k],
         NEW names, NEW inside, Holds(s, k, names, inside)
  PROVE  Holds(t, k, names, inside)
  BY Openings DEF Holds, OpenIn, NamesIn

\* Nor has a list left as it was been given more.
LEMMA CountsSame ==
  ASSUME NEW s, NEW t, IsSink(s), IsSink(t), t.kind = s.kind, NEW k, OpenIn(t)[k] = OpenIn(s)[k],
         NEW n, Counts(s, k, n)
  PROVE  Counts(t, k, n)
  BY DEF Counts, OpenIn

\* A scalar's call, or Null, where a value may be written.
LEMMA ValueCall ==
  ASSUME NEW s, IsSink(s), s.err = "none", Ready(s), NEW op \in ScalarCalls \cup {"Null"}, NEW v
  PROVE  Filled(s, SinkCall(s, Call(op, v)), Len(OpenIn(s)))
  <1>1. Call(op, v).op = op
    BY DEF Call
  <1>2. CASE IsJsonSink(s)
    <2> DEFINE token == JsonToken(Call(op, v))
    <2>1. token.t \in {"string", "number", "null"}
      BY <1>1, TokenKinds DEF JsonToken, ScalarCalls
    <2>2. s.kind = "json" /\ OpenIn(s) = s.open /\ IsSeq(s.open)
      BY <1>2 DEF IsJsonSink, OpenIn
    <2> HIDE DEF token
    <2>3. SinkCall(s, Call(op, v)) = WriteToken(s, token)
      BY <2>2 DEF SinkCall, token
    <2>4. token \notin Opening /\ token \notin Closing
      BY <2>1, TokenKinds DEF Opening, Closing
    <2>5. FirstValue(Append(s.out, token)) = [n |-> Len(s.out) + 1, open |-> Len(s.open)]
      <3>1. s.open = <<>> => s.out = <<>>
        BY <2>2 DEF Ready
      <3> QED
        BY <1>2, <2>4, <3>1, ReadsOneMore
    <2>6. WriteToken(s, token) = Written(s, token, FilledJson(s.open))
      BY <1>2, <2>1, JsonValue
    <2>7. Len(s.open) \in 0..Len(s.open)
      BY <2>2, SeqFacts
    <2>8. Filled(s, Written(s, token, FilledJson(s.open)), Len(s.open))
      BY <1>2, <2>2, <2>5, <2>7, JsonFills
    <2> QED
      BY <2>2, <2>3, <2>6, <2>8
  <1>3. CASE IsDynamicSink(s)
    <2>1. s.kind = "dynamic" /\ OpenIn(s) = s.build.stack /\ IsSeq(s.build.stack)
          /\ s.build = [root |-> s.build.root, stack |-> s.build.stack]
      BY <1>3 DEF IsDynamicSink, OpenIn
    <2>2. \E tree : SinkCall(s, Call(op, v)) = [s EXCEPT !.build = Put(s.build, tree)]
      BY <1>1, <2>1 DEF SinkCall, DynamicCall, ScalarCalls
    <2>3. PICK tree : SinkCall(s, Call(op, v)) = [s EXCEPT !.build = Put(s.build, tree)]
      BY <2>2
    <2>4. Len(s.build.stack) \in 0..Len(s.build.stack)
      BY <2>1, SeqFacts
    <2>5. Filled(s, [s EXCEPT !.build = Put(s.build, tree)], Len(s.build.stack))
      BY <1>3, <2>1, <2>4, DynamicFills
    <2> QED
      BY <2>1, <2>3, <2>5
  <1> QED
    BY <1>2, <1>3 DEF IsSink

\* BeginObject or BeginList, where a value may be written.
LEMMA BeginCall ==
  ASSUME NEW s, IsSink(s), s.err = "none", Ready(s), NEW is \in Both, NEW v
  PROVE  Begun(s, SinkCall(s, Call(IF is = "Object" THEN "BeginObject" ELSE "BeginList", v)), is)
  <1> DEFINE call == Call(IF is = "Object" THEN "BeginObject" ELSE "BeginList", v)
  <1>1. call.op = IF is = "Object" THEN "BeginObject" ELSE "BeginList"
    BY DEF Call
  <1> HIDE DEF call
  <1>2. CASE IsJsonSink(s)
    <2> DEFINE token == IF is = "Object" THEN OpenObject ELSE OpenList
    <2>1. JsonToken(call) = token
      BY <1>1 DEF JsonToken, Both
    <2>2. s.kind = "json" /\ OpenIn(s) = s.open
      BY <1>2 DEF IsJsonSink, OpenIn
    <2>3. SinkCall(s, call) = WriteToken(s, token)
      BY <2>1, <2>2 DEF SinkCall
    <2>4. FirstValue(Append(s.out, token)) = [n |-> Len(s.out) + 1, open |-> Len(s.open) + 1]
      <3>1. s.open = <<>> => s.out = <<>>
        BY <2>2 DEF Ready
      <3>2. token \in Opening
        BY DEF Opening
      <3> HIDE DEF token
      <3> QED
        BY <1>2, <3>1, <3>2, ReadsOneMore
    <2>5. WriteToken(s, token) = Written(s, token, Append(s.open, Opened(is)))
      BY <1>2, JsonBegin DEF Both
    <2> HIDE DEF token
    <2>6. Begun(s, Written(s, token, Append(s.open, Opened(is))), is)
      BY <1>2, <2>4, JsonBegins
    <2> QED
      BY <2>3, <2>5, <2>6 DEF call
  <1>3. CASE IsDynamicSink(s)
    <2>1. SinkCall(s, call) = [s EXCEPT !.build = Begin(s.build, is)]
      BY <1>1, <1>3 DEF SinkCall, DynamicCall, IsDynamicSink, Both
    <2> QED
      BY <1>3, <2>1, DynamicBegins DEF call
  <1> QED
    BY <1>2, <1>3 DEF IsSink

\* FieldName, where a name may be written: only jsonSink refuses one.
LEMMA NameCall ==
  ASSUME NEW s, IsSink(s), s.err = "none", AtName(s), NEW v
  PROVE  \/ /\ Named(s, SinkCall(s, Call("FieldName", v)), v)
            /\ s.kind = "json" => ~Contains(Last(s.open).names, v)
         \/ /\ s.kind = "json" /\ Contains(Last(s.open).names, v)
            /\ SinkCall(s, Call("FieldName", v)) = [s EXCEPT !.err = "duplicate"]
  <1> DEFINE call == Call("FieldName", v)
  <1>1. call.op = "FieldName" /\ call.v = v
    BY DEF Call
  <1> HIDE DEF call
  <1>2. CASE IsJsonSink(s)
    <2>1. JsonToken(call) = Str(v)
      BY <1>1 DEF JsonToken
    <2>2. s.kind = "json" /\ OpenIn(s) = s.open
      BY <1>2 DEF IsJsonSink, OpenIn
    <2>3. SinkCall(s, call) = WriteToken(s, Str(v))
      BY <2>1, <2>2 DEF SinkCall
    <2>4. FirstValue(Append(s.out, Str(v))) = [n |-> Len(s.out) + 1, open |-> Len(s.open)]
      <3>1. s.open # <<>>
        BY <2>2 DEF AtName
      <3>2. Str(v) \notin Opening /\ Str(v) \notin Closing
        BY TokenKinds DEF Opening, Closing
      <3> QED
        BY <1>2, <3>1, <3>2, ReadsOneMore
    <2>5. CASE Contains(Last(s.open).names, v)
      BY <1>2, <2>2, <2>3, <2>5, JsonName DEF call
    <2>6. CASE ~Contains(Last(s.open).names, v)
      <3> DEFINE after == [s.open EXCEPT ![Len(s.open)].pending = TRUE,
                                         ![Len(s.open)].names = Append(@, v)]
      <3>1. WriteToken(s, Str(v)) = Written(s, Str(v), after)
        BY <1>2, <2>6, JsonName
      <3>2. Named(s, Written(s, Str(v), after), v)
        BY <1>2, <2>4, JsonNames
      <3> QED
        BY <2>3, <2>6, <3>1, <3>2 DEF call
    <2> QED
      BY <2>5, <2>6
  <1>3. CASE IsDynamicSink(s)
    <2>1. s.build.stack # <<>> /\ s.kind = "dynamic"
      BY <1>3 DEF AtName, OpenIn, IsDynamicSink
    <2>2. SinkCall(s, call) = [s EXCEPT !.build = Name(s.build, v)]
      BY <1>1, <2>1 DEF SinkCall, DynamicCall
    <2> QED
      BY <1>3, <2>1, <2>2, DynamicNames DEF call
  <1> QED
    BY <1>2, <1>3 DEF IsSink

\* EndObject or EndList, of the innermost container.
LEMMA EndCall ==
  ASSUME NEW s, IsSink(s), s.err = "none", NEW is \in Both, OpenIn(s) # <<>>,
         Last(OpenIn(s)).is = is, is = "Object" => AtName(s), NEW v
  PROVE  Filled(s, SinkCall(s, Call(IF is = "Object" THEN "EndObject" ELSE "EndList", v)),
                Len(OpenIn(s)) - 1)
  <1> DEFINE call == Call(IF is = "Object" THEN "EndObject" ELSE "EndList", v)
             outer == Front(OpenIn(s))
             m == Len(OpenIn(s)) - 1
  <1>1. call.op = IF is = "Object" THEN "EndObject" ELSE "EndList"
    BY DEF Call
  <1> HIDE DEF call
  <1>2. /\ IsSeq(outer) /\ Len(outer) = m /\ \A k \in 1..m : outer[k] = OpenIn(s)[k]
        /\ m \in 0..Len(OpenIn(s))
    <2> DEFINE o == OpenIn(s)
    <2>1. IsSeq(o) /\ Len(o) \in Nat /\ o # <<>> /\ Len(o) # 0
      BY Openings
    <2> HIDE DEF o
    <2>2. /\ IsSeq(Front(o)) /\ Len(Front(o)) = Len(o) - 1
          /\ \A k \in 1..(Len(o) - 1) : Front(o)[k] = o[k]
      BY <2>1, SeqFront DEF Front
    <2>3. Len(o) - 1 \in 0..Len(o)
      BY <2>1
    <2> QED
      BY <2>2, <2>3 DEF o
  <1>3. CASE IsJsonSink(s)
    <2> DEFINE token == IF is = "Object" THEN CloseObject ELSE CloseList
    <2>1. JsonToken(call) = token
      BY <1>1 DEF JsonToken, Both
    <2>2. s.kind = "json" /\ OpenIn(s) = s.open
      BY <1>3 DEF IsJsonSink, OpenIn
    <2>3. SinkCall(s, call) = WriteToken(s, token)
      BY <2>1, <2>2 DEF SinkCall
    <2>4. FirstValue(Append(s.out, token)) = [n |-> Len(s.out) + 1, open |-> m]
      <3>1. token \in Closing /\ token \notin Opening
        BY TokenKinds DEF Closing, Opening
      <3> HIDE DEF token
      <3> QED
        BY <1>3, <2>2, <3>1, ReadsOneMore
    <2>5. WriteToken(s, token) = Written(s, token, FilledJson(outer))
      BY <1>3, <2>2, JsonEnd DEF Both
    <2> HIDE DEF token, outer, m
    <2>6. Filled(s, Written(s, token, FilledJson(outer)), m)
      BY <1>3, <1>2, <2>2, <2>4, JsonFills
    <2> QED
      BY <2>3, <2>5, <2>6 DEF call, m
  <1>4. CASE IsDynamicSink(s)
    <2>1. s.kind = "dynamic" /\ OpenIn(s) = s.build.stack
          /\ s.build = [root |-> s.build.root, stack |-> s.build.stack]
      BY <1>4 DEF IsDynamicSink, OpenIn
    <2> DEFINE build == [root |-> s.build.root, stack |-> outer]
    <2>2. [s.build EXCEPT !.stack = Front(@)] = build
      BY <2>1
    <2>3. \E tree : End(s.build) = Put(build, tree)
      BY <2>2 DEF End
    <2>4. PICK tree : End(s.build) = Put(build, tree)
      BY <2>3
    <2>5. SinkCall(s, call) = [s EXCEPT !.build = End(s.build)]
      BY <1>1, <2>1 DEF SinkCall, DynamicCall, Both
    <2> HIDE DEF outer, m
    <2>6. Filled(s, [s EXCEPT !.build = Put(build, tree)], m)
      BY <1>4, <1>2, <2>1, DynamicFills
    <2> QED
      BY <2>4, <2>5, <2>6 DEF call, m
  <1> QED
    BY <1>3, <1>4 DEF IsSink

\* A tagSink's two calls, into an object that has just begun.
LEMMA TagCalls ==
  ASSUME NEW s, IsSink(s), s.err = "none", OpenIn(s) # <<>>, Last(OpenIn(s)).is = "Object",
         NEW n, n = Len(OpenIn(s)), Holds(s, n, <<>>, FALSE), NEW name, NEW value
  PROVE  LET t == SinkTag(s, name, value)
         IN  /\ IsSink(t) /\ t.kind = s.kind /\ t.err = "none"
             /\ Len(OpenIn(t)) = n
             /\ \A k \in 1..n : k < n => OpenIn(t)[k] = OpenIn(s)[k]
             /\ OpenIn(t)[n].is = "Object"
             /\ Holds(t, n, <<name>>, FALSE)
  <1> DEFINE u == SinkCall(s, Call("FieldName", name))
             t == SinkCall(u, Call("Text", value))
  <1>1. AtName(s) /\ (s.kind = "json" => Last(s.open).names = <<>>)
    BY InnermostObject
  <1>2. ~Contains(<<>>, name)
    BY SeqEmpty DEF Contains
  <1>3. Named(s, u, name)
    <2>1. s.kind = "json" => ~Contains(Last(s.open).names, name)
      BY <1>1, <1>2
    <2> QED
      BY <1>1, <2>1, NameCall
  <1> HIDE DEF u
  <1>4. Append(<<>>, name) = <<name>>
    OBVIOUS
  <1>5. n \in Nat /\ n # 0 /\ n \in 1..n /\ n > 0
    BY Openings
  <1>6. IsSink(u) /\ u.kind = s.kind /\ u.err = "none" /\ Len(OpenIn(u)) = n
        /\ OpenIn(u)[n].is = "Object" /\ Holds(u, n, <<name>>, TRUE)
        /\ \A k \in 1..n : k < n => OpenIn(u)[k] = OpenIn(s)[k]
    BY <1>3, <1>4, SeqEmpty DEF Named
  <1>7. OpenIn(u) # <<>> /\ Last(OpenIn(u)).is = "Object"
    BY <1>5, <1>6, Openings DEF Last
  <1>8. Ready(u)
    BY <1>6, <1>7, InnermostObject
  <1>9. Filled(u, t, n)
    BY <1>6, <1>8, ValueCall DEF ScalarCalls
  <1> HIDE DEF t
  <1>10. IsSink(t) /\ t.kind = s.kind /\ t.err = "none" /\ Len(OpenIn(t)) = n
         /\ OpenIn(t)[n].is = "Object"
    BY <1>5, <1>6, <1>9 DEF Filled
  <1>11. \A k \in 1..n : k < n => OpenIn(t)[k] = OpenIn(s)[k]
    BY <1>6, <1>9 DEF Filled
  <1>12. Holds(t, n, <<name>>, FALSE)
    BY <1>5, <1>6, <1>9, SeqOne DEF Filled
  <1> QED
    BY <1>10, <1>11, <1>12 DEF SinkTag, t, u

----------------------------------------------------------------------------
(* What a sink has been told. *)

\* The tokens of some calls.
Tokens(calls) == [k \in DOMAIN calls |-> JsonToken(calls[k])]

\* Calls and their tokens.
LEMMA TokensIs ==
  ASSUME NEW calls, IsSeq(calls)
  PROVE  /\ IsSeq(Tokens(calls)) /\ Len(Tokens(calls)) = Len(calls)
         /\ \A k \in 1..Len(calls) : Tokens(calls)[k] = JsonToken(calls[k])
  <1> DEFINE n == Len(calls)
             t == Tokens(calls)
  <1>1. n \in Nat /\ DOMAIN calls = 1..n
    BY SeqFacts
  <1>2. DOMAIN t = 1..n /\ t = [k \in 1..n |-> t[k]] /\ \A k \in 1..n : t[k] = JsonToken(calls[k])
    BY <1>1 DEF Tokens
  <1> HIDE DEF t
  <1>3. IsSeq(t) /\ Len(t) = n
    BY <1>1, <1>2, SeqMake
  <1> QED
    BY <1>2, <1>3 DEF t

\* Concatenation, in whichever order.
LEMMA SeqAssociates ==
  ASSUME NEW a, NEW b, NEW c, IsSeq(a), IsSeq(b), IsSeq(c)
  PROVE  (a \o b) \o c = a \o (b \o c)
  <1>1. PICK A : a \in Seq(A)
    BY DEF IsSeq
  <1>2. PICK B : b \in Seq(B)
    BY DEF IsSeq
  <1>3. PICK C : c \in Seq(C)
    BY DEF IsSeq
  <1> DEFINE S == A \cup B \cup C
  <1>4. a \in Seq(S) /\ b \in Seq(S) /\ c \in Seq(S)
    BY <1>1, <1>2, <1>3, SeqMonotonic
  <1> HIDE DEF S
  <1> QED
    BY <1>4, ConcatAssociative

\* One more is a sequence of one more.
LEMMA SeqAppends ==
  ASSUME NEW s, IsSeq(s), NEW e
  PROVE  Append(s, e) = s \o <<e>>
  <1>1. PICK S : s \in Seq(S)
    BY DEF IsSeq
  <1>2. s \in Seq(S \cup {e}) /\ e \in S \cup {e}
    BY <1>1, SeqMonotonic
  <1> QED
    BY <1>2, AppendIsConcat

\* Nothing before, and nothing after.
LEMMA SeqNothing ==
  ASSUME NEW s, IsSeq(s)
  PROVE  <<>> \o s = s /\ s \o <<>> = s
  <1>1. PICK S : s \in Seq(S)
    BY DEF IsSeq
  <1> QED
    BY <1>1, ConcatEmptySeq

\* What follows the first.
LEMMA SeqTail ==
  ASSUME NEW s, IsSeq(s), NEW e
  PROVE  /\ IsSeq(<<e>> \o s) /\ <<e>> \o s # <<>> /\ Tail(<<e>> \o s) = s
         /\ (<<e>> \o s)[1] = e
  <1> DEFINE t == <<e>> \o s
             n == Len(s)
  <1>1. n \in Nat
    BY SeqFacts
  <1>2. IsSeq(<<e>>) /\ Len(<<e>>) = 1 /\ <<e>>[1] = e
    BY SeqOne
  <1>3. /\ IsSeq(t) /\ Len(t) = 1 + n
        /\ \A i \in 1..(1 + n) : t[i] = IF i <= 1 THEN <<e>>[i] ELSE s[i - 1]
    BY <1>2, SeqConcat
  <1> HIDE DEF t
  <1>4. t # <<>> /\ t[1] = e
    BY <1>1, <1>2, <1>3, SeqFacts
  <1> DEFINE u == Tail(t)
  <1>5. IsSeq(u) /\ Len(u) = n /\ \A i \in 1..n : u[i] = t[i + 1]
    <2>1. PICK T : t \in Seq(T)
      BY <1>3 DEF IsSeq
    <2>2. /\ Tail(t) \in Seq(T) /\ Len(Tail(t)) = Len(t) - 1
          /\ \A i \in 1..Len(Tail(t)) : Tail(t)[i] = t[i + 1]
      BY <1>4, <2>1, HeadTailProperties
    <2> QED
      BY <1>1, <1>3, <2>2 DEF IsSeq
  <1> HIDE DEF u
  <1>6. \A i \in 1..n : u[i] = s[i]
    <2> TAKE i \in 1..n
    <2>1. i + 1 \in 1..(1 + n) /\ ~(i + 1 <= 1) /\ (i + 1) - 1 = i
      BY <1>1
    <2> QED
      BY <1>3, <1>5, <2>1
  <1>8. u = s
    BY <1>5, <1>6, SeqSame
  <1> QED
    BY <1>3, <1>4, <1>8 DEF t, u

\* The tokens of calls, and of those after them.
LEMMA TokensConcat ==
  ASSUME NEW a, NEW b, IsSeq(a), IsSeq(b)
  PROVE  Tokens(a \o b) = Tokens(a) \o Tokens(b)
  <1> DEFINE p == Len(a)
             q == Len(b)
             c == a \o b
             l == Tokens(c)
             x == Tokens(a)
             y == Tokens(b)
             r == x \o y
  <1>1. p \in Nat /\ q \in Nat
    BY SeqFacts
  <1>2. IsSeq(c) /\ Len(c) = p + q /\ \A i \in 1..(p + q) : c[i] = IF i <= p THEN a[i] ELSE b[i - p]
    BY SeqConcat
  <1> HIDE DEF c
  <1>3. IsSeq(l) /\ Len(l) = p + q /\ \A i \in 1..(p + q) : l[i] = JsonToken(c[i])
    BY <1>2, TokensIs
  <1>4. /\ IsSeq(x) /\ Len(x) = p /\ \A i \in 1..p : x[i] = JsonToken(a[i])
        /\ IsSeq(y) /\ Len(y) = q /\ \A i \in 1..q : y[i] = JsonToken(b[i])
    BY TokensIs
  <1> HIDE DEF l, x, y
  <1>5. IsSeq(r) /\ Len(r) = p + q /\ \A i \in 1..(p + q) : r[i] = IF i <= p THEN x[i] ELSE y[i - p]
    BY <1>4, SeqConcat
  <1> HIDE DEF r, p, q
  <1>6. ASSUME NEW i \in 1..(p + q) PROVE l[i] = r[i]
    <2>1. CASE i <= p
      <3>1. i \in 1..p
        BY <1>1, <2>1
      <3> QED
        BY <1>2, <1>3, <1>4, <1>5, <2>1, <3>1
    <2>2. CASE ~(i <= p)
      <3>1. i - p \in 1..q
        BY <1>1, <2>2
      <3> QED
        BY <1>2, <1>3, <1>4, <1>5, <2>2, <3>1
    <2> QED
      BY <2>1, <2>2
  <1>7. l = r
    BY <1>3, <1>5, <1>6, SeqSame
  <1> QED
    BY <1>7 DEF l, r, x, y, c

\* One call more, then others.
LEMMA TokensNext ==
  ASSUME NEW out, IsSeq(out), NEW call, NEW calls, IsSeq(calls)
  PROVE  /\ Append(out, JsonToken(call)) \o Tokens(calls) = out \o Tokens(<<call>> \o calls)
         /\ Append(out, JsonToken(call)) = out \o Tokens(<<call>>)
  <1> DEFINE t == JsonToken(call)
  <1>1. Tokens(<<call>>) = <<t>>
    <2>1. /\ IsSeq(<<call>>) /\ Len(<<call>>) = 1 /\ <<call>>[1] = call
          /\ IsSeq(<<t>>) /\ Len(<<t>>) = 1 /\ <<t>>[1] = t
      BY SeqOne
    <2>2. IsSeq(Tokens(<<call>>)) /\ Len(Tokens(<<call>>)) = 1 /\ Tokens(<<call>>)[1] = t
      BY <2>1, TokensIs
    <2> HIDE DEF Tokens, t
    <2> QED
      BY <2>1, <2>2, SeqSame
  <1>2. Append(out, t) = out \o <<t>> /\ IsSeq(<<t>>) /\ IsSeq(<<call>>) /\ IsSeq(Tokens(calls))
    BY SeqAppends, SeqOne, TokensIs
  <1>3. Tokens(<<call>> \o calls) = <<t>> \o Tokens(calls)
    BY <1>1, <1>2, TokensConcat
  <1> HIDE DEF t
  <1>4. (out \o <<t>>) \o Tokens(calls) = out \o (<<t>> \o Tokens(calls))
    BY <1>2, SeqAssociates
  <1>5. Append(out, t) \o Tokens(calls) = out \o Tokens(<<call>> \o calls)
    BY <1>2, <1>3, <1>4
  <1>6. Append(out, t) = out \o Tokens(<<call>>)
    BY <1>1, <1>2
  <1> QED
    BY <1>5, <1>6 DEF t

\* Calls, then others.
LEMMA TokensMore ==
  ASSUME NEW out, IsSeq(out), NEW a, NEW b, IsSeq(a), IsSeq(b)
  PROVE  /\ (out \o Tokens(a)) \o Tokens(b) = out \o Tokens(a \o b)
         /\ IsSeq(out \o Tokens(a))
  <1>1. IsSeq(Tokens(a)) /\ IsSeq(Tokens(b))
    BY TokensIs
  <1>2. Tokens(a \o b) = Tokens(a) \o Tokens(b)
    BY TokensConcat
  <1> DEFINE x == Tokens(a)
             y == Tokens(b)
  <1>3. IsSeq(x) /\ IsSeq(y)
    BY <1>1
  <1> HIDE DEF x, y
  <1>4. (out \o x) \o y = out \o (x \o y) /\ IsSeq(out \o x)
    BY <1>3, SeqAssociates, SeqConcat
  <1> QED
    BY <1>2, <1>4 DEF x, y

\* One call and the rest.
LEMMA ConsIs ==
  ASSUME NEW call, NEW calls, IsSeq(calls)
  PROVE  /\ IsSeq(Cons(call, calls)) /\ Tail(Cons(call, calls)) = calls
         /\ \A out : IsSeq(out) =>
              Append(out, JsonToken(call)) \o Tokens(calls) = out \o Tokens(Cons(call, calls))
  <1>1. IsSeq(<<call>> \o calls) /\ Tail(<<call>> \o calls) = calls
    BY SeqTail
  <1>2. ASSUME NEW out, IsSeq(out)
        PROVE  Append(out, JsonToken(call)) \o Tokens(calls) = out \o Tokens(Cons(call, calls))
    <2>1. PICK one : one = <<call>>
      OBVIOUS
    <2>2. Cons(call, calls) = one \o calls
      BY <2>1 DEF Cons
    <2>3. Append(out, JsonToken(call)) \o Tokens(calls) = out \o Tokens(one \o calls)
      BY <1>2, <2>1, TokensNext
    <2> QED
      BY <2>2, <2>3
  <1> QED
    BY <1>1, <1>2 DEF Cons

\* Three, one by one.
LEMMA ConsThree ==
  ASSUME NEW x, NEW y, NEW z, NEW rest, IsSeq(rest)
  PROVE  <<x, y, z>> \o rest = Cons(x, Cons(y, Cons(z, rest)))
  <1> DEFINE a == <<x>>
             b == Append(a, y)
             c == Append(b, z)
             d == <<x, y, z>>
  <1>1. /\ d \in Seq({x, y, z}) /\ Len(d) = 3 /\ d[1] = x /\ d[2] = y /\ d[3] = z
        /\ IsSeq(a) /\ Len(a) = 1 /\ a[1] = x /\ IsSeq(<<y>>) /\ IsSeq(<<z>>)
    BY SeqOne
  <1>2. b = a \o <<y>> /\ IsSeq(b) /\ Len(b) = 2 /\ b[1] = x /\ b[2] = y
    BY <1>1, SeqAppend, SeqAppends
  <1> HIDE DEF d, b
  <1>3. c = b \o <<z>> /\ IsSeq(c) /\ Len(c) = 3 /\ c[1] = x /\ c[2] = y /\ c[3] = z
    BY <1>2, SeqAppend, SeqAppends
  <1> HIDE DEF c
  <1>4. d = c
    <2>1. IsSeq(d)
      BY <1>1 DEF IsSeq
    <2>2. \A i \in 1..3 : d[i] = c[i]
      BY <1>1, <1>3
    <2> QED
      BY <1>1, <1>3, <2>1, <2>2, SeqSame
  <1> DEFINE last == Cons(z, rest)
             more == Cons(y, last)
  <1>5. c \o rest = b \o last
    BY <1>1, <1>2, <1>3, SeqAssociates DEF Cons
  <1>6. IsSeq(last)
    BY ConsIs
  <1> HIDE DEF last
  <1>7. b \o last = a \o more
    BY <1>1, <1>2, <1>6, SeqAssociates DEF Cons
  <1>8. a \o more = Cons(x, more)
    BY DEF Cons
  <1> HIDE DEF more, a
  <1> QED
    BY <1>4, <1>5, <1>7, <1>8 DEF d, more, last

----------------------------------------------------------------------------
(* A tree under construction. *)

\* What is built, with one container more on its stack.
Topped(build, is, field, parts) ==
  [root |-> build.root, stack |-> Append(build.stack, [is |-> is, field |-> field, parts |-> parts])]

\* And with more in the innermost.
More(build, parts) == [build EXCEPT !.stack[Len(build.stack)].parts = @ \o parts]

\* What a dynamicSink builds has this form.
IsBuild(b) == b = [root |-> b.root, stack |-> b.stack] /\ IsSeq(b.stack)

\* The container to be filled, as a tree.
Closed(is, parts) == IF is = "Object" THEN Object(parts) ELSE List(parts)
PartOf(is, field, value) == IF is = "Object" THEN Member(field, value) ELSE value

\* The last of a sequence.
LEMMA AppendUpdates ==
  ASSUME NEW s, IsSeq(s), NEW c, NEW d, NEW t, t = Append(s, c)
  PROVE  /\ t # <<>> /\ Last(t) = c /\ Front(t) = s /\ Len(t) \in DOMAIN t /\ t[Len(t)] = c
         /\ [t EXCEPT ![Len(t)] = d] = Append(s, d)
  <1> DEFINE n == Len(s)
  <1>1. n \in Nat
    BY SeqFacts
  <1>2. IsSeq(t) /\ Len(t) = n + 1 /\ t[n + 1] = c /\ \A i \in 1..n : t[i] = s[i]
    BY SeqAppend
  <1>3. t # <<>> /\ DOMAIN t = 1..(n + 1) /\ n + 1 \in 1..(n + 1) /\ (n + 1) - 1 = n
    BY <1>1, <1>2, SeqFacts
  <1>4. Front(t) = s
    <2> DEFINE f == SubSeq(t, 1, Len(t) - 1)
    <2>1. IsSeq(f) /\ Len(f) = n /\ \A i \in 1..n : f[i] = t[i]
      BY <1>2, <1>3, SeqFront
    <2>2. Front(t) = f
      BY DEF Front
    <2> HIDE DEF f
    <2>3. f = s
      BY <1>2, <2>1, SeqSame
    <2> QED
      BY <2>2, <2>3
  <1> DEFINE u == [t EXCEPT ![n + 1] = d]
             v == Append(s, d)
  <1>5. IsSeq(v) /\ Len(v) = n + 1 /\ v[n + 1] = d /\ \A i \in 1..n : v[i] = s[i]
    BY SeqAppend
  <1>6. /\ DOMAIN u = DOMAIN t /\ u = [i \in DOMAIN t |-> u[i]]
        /\ \A i \in 1..(n + 1) : u[i] = IF i = n + 1 THEN d ELSE t[i]
    BY <1>3
  <1>9. u = [t EXCEPT ![Len(t)] = d]
    BY <1>2
  <1> HIDE DEF u, v
  <1>7. IsSeq(u) /\ Len(u) = n + 1
    BY <1>2, <1>6, SeqUpdate
  <1>8. u = v
    <2>1. ASSUME NEW i \in 1..(n + 1) PROVE u[i] = v[i]
      <3>1. CASE i = n + 1
        BY <1>5, <1>6, <3>1
      <3>2. CASE i # n + 1
        <4>1. i \in 1..n
          BY <1>1, <3>2
        <4> QED
          BY <1>2, <1>5, <1>6, <3>2, <4>1
      <3> QED
        BY <3>1, <3>2
    <2> QED
      BY <1>5, <1>7, <2>1, SeqSame
  <1> QED
    BY <1>2, <1>3, <1>4, <1>8, <1>9 DEF Last, v

\* The innermost container, changed.
LEMMA TopChanged ==
  ASSUME NEW b, IsBuild(b), NEW is, NEW field, NEW parts,
         NEW t, t = Topped(b, is, field, parts), NEW n, n = Len(t.stack)
  PROVE  /\ \A name : [t EXCEPT !.stack[n].field = name] = Topped(b, is, name, parts)
         /\ \A q : [t EXCEPT !.stack[n].parts = q] = Topped(b, is, field, q)
         /\ t.stack # <<>> /\ Last(t.stack) = t.stack[n]
         /\ t.stack[n].is = is /\ t.stack[n].field = field /\ t.stack[n].parts = parts
         /\ [t EXCEPT !.stack = Front(@)] = b
  <1>1. PICK c : c = [is |-> is, field |-> field, parts |-> parts]
    OBVIOUS
  <1>2. PICK r, u : r = b.root /\ u = b.stack
    OBVIOUS
  <1>3. PICK s : s = Append(u, c)
    OBVIOUS
  <1>4. b = [root |-> r, stack |-> u] /\ IsSeq(u)
    BY <1>2 DEF IsBuild
  <1>5. /\ s # <<>> /\ Last(s) = c /\ Front(s) = u /\ Len(s) \in DOMAIN s /\ s[Len(s)] = c
        /\ \A d : [s EXCEPT ![Len(s)] = d] = Append(u, d)
    <2>1. ASSUME NEW d PROVE [s EXCEPT ![Len(s)] = d] = Append(u, d)
      BY <1>3, <1>4, AppendUpdates
    <2>2. s # <<>> /\ Last(s) = c /\ Front(s) = u /\ Len(s) \in DOMAIN s /\ s[Len(s)] = c
      BY <1>3, <1>4, AppendUpdates
    <2> QED
      BY <2>1, <2>2
  <1>6. t = [root |-> r, stack |-> s]
    BY <1>1, <1>2, <1>3 DEF Topped
  <1>7. t.root = r /\ t.stack = s /\ n = Len(s) /\ t.stack[n] = c
    BY <1>5, <1>6
  <1>8. c.is = is /\ c.field = field /\ c.parts = parts
    BY <1>1
  <1>9. ASSUME NEW name PROVE [t EXCEPT !.stack[n].field = name] = Topped(b, is, name, parts)
    <2>1. PICK d : d = [is |-> is, field |-> name, parts |-> parts]
      OBVIOUS
    <2>2. [c EXCEPT !.field = name] = d
      BY <1>1, <2>1
    <2>3. [t EXCEPT !.stack[n].field = name] = [root |-> r, stack |-> [s EXCEPT ![n] = [c EXCEPT !.field = name]]]
      BY <1>5, <1>6, <1>7
    <2>4. [s EXCEPT ![n] = d] = Append(u, d)
      BY <1>5, <1>7
    <2> QED
      BY <1>2, <2>1, <2>2, <2>3, <2>4 DEF Topped
  <1>10. ASSUME NEW q PROVE [t EXCEPT !.stack[n].parts = q] = Topped(b, is, field, q)
    <2>1. PICK d : d = [is |-> is, field |-> field, parts |-> q]
      OBVIOUS
    <2>2. [c EXCEPT !.parts = q] = d
      BY <1>1, <2>1
    <2>3. [t EXCEPT !.stack[n].parts = q] = [root |-> r, stack |-> [s EXCEPT ![n] = [c EXCEPT !.parts = q]]]
      BY <1>5, <1>6, <1>7
    <2>4. [s EXCEPT ![n] = d] = Append(u, d)
      BY <1>5, <1>7
    <2> QED
      BY <1>2, <2>1, <2>2, <2>3, <2>4 DEF Topped
  <1>11. [t EXCEPT !.stack = Front(@)] = b
    BY <1>4, <1>5, <1>6
  <1> QED
    BY <1>5, <1>7, <1>8, <1>9, <1>10, <1>11

\* Building on a container.
LEMMA Toppings ==
  ASSUME NEW b, IsBuild(b), NEW is, NEW field, NEW parts
  PROVE  LET t == Topped(b, is, field, parts)
         IN  /\ \A name : Name(t, name) = Topped(b, is, name, parts)
             /\ \A v : Put(t, v) = Topped(b, is, field, Append(parts, PartOf(is, field, v)))
             /\ \A q : More(t, q) = Topped(b, is, field, parts \o q)
             /\ End(t) = Put(b, Closed(is, parts))
  <1>1. PICK t : t = Topped(b, is, field, parts)
    OBVIOUS
  <1>2. PICK n : n = Len(t.stack)
    OBVIOUS
  <1>3. /\ t.stack # <<>> /\ Last(t.stack) = t.stack[n]
        /\ t.stack[n].is = is /\ t.stack[n].field = field /\ t.stack[n].parts = parts
        /\ [t EXCEPT !.stack = Front(@)] = b
    BY <1>1, <1>2, TopChanged
  <1>4. ASSUME NEW name PROVE Name(t, name) = Topped(b, is, name, parts)
    <2>1. Name(t, name) = [t EXCEPT !.stack[n].field = name]
      BY <1>2, Zenon DEF Name
    <2>2. [t EXCEPT !.stack[n].field = name] = Topped(b, is, name, parts)
      BY <1>1, <1>2, TopChanged
    <2> QED
      BY <2>1, <2>2
  <1>5. ASSUME NEW q PROVE [t EXCEPT !.stack[n].parts = q] = Topped(b, is, field, q)
    BY <1>1, <1>2, TopChanged
  <1>6. ASSUME NEW v PROVE Put(t, v) = Topped(b, is, field, Append(parts, PartOf(is, field, v)))
    <2> DEFINE q == Append(t.stack[n].parts, PartOf(is, field, v))
    <2>1. Put(t, v) = [t EXCEPT !.stack[n].parts = q]
      <3>1. PartOf(is, field, v) = IF Last(t.stack).is = "Object" THEN Member(Last(t.stack).field, v) ELSE v
        BY <1>3 DEF PartOf
      <3> QED
        BY <1>2, <1>3, <3>1, Zenon DEF Put
    <2> HIDE DEF q
    <2>2. [t EXCEPT !.stack[n].parts = q] = Topped(b, is, field, q)
      BY <1>5
    <2> QED
      BY <1>3, <2>1, <2>2 DEF q
  <1>7. ASSUME NEW q PROVE More(t, q) = Topped(b, is, field, parts \o q)
    <2> DEFINE r == t.stack[n].parts \o q
    <2>1. More(t, q) = [t EXCEPT !.stack[n].parts = r]
      BY <1>2, Zenon DEF More
    <2> HIDE DEF r
    <2>2. [t EXCEPT !.stack[n].parts = r] = Topped(b, is, field, r)
      BY <1>5
    <2> QED
      BY <1>3, <2>1, <2>2 DEF r
  <1>8. End(t) = Put(b, Closed(is, parts))
    BY <1>3, Zenon DEF End, Closed
  <1> QED
    BY <1>1, <1>4, <1>6, <1>7, <1>8

\* A container begun.
LEMMA BeginTopped ==
  ASSUME NEW b, IsBuild(b), NEW is
  PROVE  Begin(b, is) = Topped(b, is, "", <<>>)
  <1>1. PICK r, u : r = b.root /\ u = b.stack
    OBVIOUS
  <1>2. b = [root |-> r, stack |-> u]
    BY <1>1 DEF IsBuild
  <1>3. PICK s : s = Append(u, [is |-> is, field |-> "", parts |-> <<>>])
    OBVIOUS
  <1>4. Begin(b, is) = [b EXCEPT !.stack = s]
    BY <1>1, <1>3, Zenon DEF Begin, Filling
  <1> QED
    BY <1>1, <1>2, <1>3, <1>4 DEF Topped

\* A dynamicSink with a container open has it on top of what is under it.
LEMMA BuildTopped ==
  ASSUME NEW s, IsDynamicSink(s)
  PROVE  /\ IsBuild(s.build)
         /\ s.build.stack # <<>> =>
              \E b, field, parts : /\ IsBuild(b) /\ IsSeq(parts)
                                   /\ s.build = Topped(b, Last(s.build.stack).is, field, parts)
  <1> DEFINE st == s.build.stack
             n == Len(st)
  <1>1. /\ IsSeq(st) /\ s.build = [root |-> s.build.root, stack |-> st]
        /\ \A k \in 1..n : /\ st[k] = [is |-> st[k].is, field |-> st[k].field, parts |-> st[k].parts]
                           /\ IsSeq(st[k].parts)
    BY DEF IsDynamicSink
  <1>2. IsBuild(s.build)
    BY <1>1 DEF IsBuild
  <1>3. ASSUME st # <<>>
        PROVE  \E b, field, parts : /\ IsBuild(b) /\ IsSeq(parts)
                                    /\ s.build = Topped(b, Last(st).is, field, parts)
    <2> DEFINE c == st[n]
               f == Front(st)
               b == [root |-> s.build.root, stack |-> f]
               g == SubSeq(st, 1, n - 1)
    <2>1. n \in Nat /\ n # 0 /\ n \in 1..n
      BY <1>1, <1>3, SeqFacts
    <2>2. IsSeq(g) /\ Len(g) = n - 1 /\ \A i \in 1..(n - 1) : g[i] = st[i]
      BY <1>1, <1>3, SeqFront
    <2>3. f = g
      BY DEF Front
    <2> HIDE DEF g
    <2>4. IsSeq(f) /\ Len(f) = n - 1 /\ \A i \in 1..(n - 1) : f[i] = st[i]
      BY <2>2, <2>3
    <2>5. IsBuild(b) /\ b.stack = f /\ b.root = s.build.root
      BY <2>4 DEF IsBuild
    <2> DEFINE a == Append(f, c)
    <2> HIDE DEF f, b
    <2>6. IsSeq(a) /\ Len(a) = n /\ a[n] = c /\ \A i \in 1..(n - 1) : a[i] = f[i]
      BY <2>1, <2>4, SeqAppend
    <2> HIDE DEF a
    <2>7. a = st
      <3>1. ASSUME NEW i \in 1..n PROVE a[i] = st[i]
        <4>1. CASE i = n
          BY <2>6, <4>1
        <4>2. CASE i # n
          <5>1. i \in 1..(n - 1)
            BY <2>1, <4>2
          <5> QED
            BY <2>4, <2>6, <5>1
        <4> QED
          BY <4>1, <4>2
      <3> QED
        BY <1>1, <2>6, <3>1, SeqSame
    <2>8. c = [is |-> c.is, field |-> c.field, parts |-> c.parts] /\ IsSeq(c.parts)
      BY <1>1, <2>1
    <2>9. Last(st) = c
      BY DEF Last
    <2> HIDE DEF c, st
    <2>10. s.build = Topped(b, c.is, c.field, c.parts)
      BY <1>1, <2>5, <2>7, <2>8 DEF Topped, a
    <2> QED
      BY <2>5, <2>8, <2>9, <2>10
  <1> QED
    BY <1>2, <1>3
=============================================================================
