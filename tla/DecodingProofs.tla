--------------------------- MODULE DecodingProofs ---------------------------
(***************************************************************************)
(* A decode reads one value, whole, and its sources stay in step with its  *)
(* call stack, for every set of schemas, documents and strategies, however *)
(* wrong or incomplete the document is.                                    *)
(*                                                                         *)
(* The invariant, IInv, says of every state before a failure:              *)
(*   - there is one source per tagged union whose variant is being read,   *)
(*     and the one a request came with (Sourced);                          *)
(*   - a JSON document has been read up to a token (Place) after which     *)
(*     exactly the containers stand open that the records outside any      *)
(*     tagged union have begun (Fits);                                     *)
(*   - the last source has a value for a record that is about to read one  *)
(*     (Poised): a dynamicSource holds it, and in a JSON object its name   *)
(*     is what was read last.  Every other source has none (Rests): a      *)
(*     dynamicSource is empty, and a JSON object awaits a name or its end; *)
(*   - every record but the top one has called the one above it (Settled), *)
(*     and an object's has read a value of every required field it has     *)
(*     seen, but the one it is calling for (ReadAll, ReadBut).             *)
(* After a failure nothing more is read, and each record left gives its    *)
(* own source up.                                                          *)
(*                                                                         *)
(* The steps are proved in three layers: what one token, a skipped value   *)
(* or a buffered one does to a document read so far (Place...), what that  *)
(* means for jsonSource and for dynamicSource (Json..., Dynamic...), and   *)
(* what a call makes of whichever of the two it was given (ValueTaken to   *)
(* VariantRead), which is all an action's own lemma looks at.              *)
(***************************************************************************)
EXTENDS Decoding, DocumentFacts

----------------------------------------------------------------------------
(* A document, read up to some token. *)

Prefix(s, m) == SubSeq(s, 1, m)
Rest(s, m) == SubSeq(s, m + 1, Len(s))

\* A part of a sequence.
LEMMA SeqPart ==
  ASSUME NEW s, IsSeq(s), NEW a \in Nat, NEW b \in Nat, a <= b, b <= Len(s)
  PROVE  /\ IsSeq(SubSeq(s, a + 1, b)) /\ Len(SubSeq(s, a + 1, b)) = b - a
         /\ \A i \in 1..(b - a) : SubSeq(s, a + 1, b)[i] = s[a + i]
  <1>1. PICK S : s \in Seq(S)
    BY DEF IsSeq
  <1>2. Len(s) \in Nat
    BY <1>1
  <1> DEFINE c == a + 1
  <1>3. \A i \in c..b : s[i] \in S
    BY <1>1, <1>2
  <1>4. c \in Nat
    OBVIOUS
  <1> HIDE DEF c
  <1>5. /\ SubSeq(s, c, b) \in Seq(S)
        /\ Len(SubSeq(s, c, b)) = IF c <= b THEN b - c + 1 ELSE 0
        /\ \A i \in 1..(b - c + 1) : SubSeq(s, c, b)[i] = s[c + i - 1]
    BY <1>3, <1>4, SubSeqProperties
  <1>6. b - c + 1 = b - a /\ \A i \in Nat : c + i - 1 = a + i
    BY DEF c
  <1>7. Len(SubSeq(s, c, b)) = b - a
    BY <1>4, <1>5, <1>6 DEF c
  <1>8. \A i \in 1..(b - a) : SubSeq(s, c, b)[i] = s[a + i]
    <2> TAKE i \in 1..(b - a)
    <2>1. i \in 1..(b - c + 1) /\ c + i - 1 = a + i
      BY <1>6
    <2> QED
      BY <1>5, <2>1
  <1> QED
    BY <1>5, <1>7, <1>8 DEF IsSeq, c

\* What has been read.
LEMMA PrefixFacts ==
  ASSUME NEW s, IsSeq(s)
  PROVE  /\ Prefix(s, 0) = <<>> /\ Prefix(s, Len(s)) = s
         /\ \A m \in 0..Len(s) : IsSeq(Prefix(s, m)) /\ Len(Prefix(s, m)) = m
         /\ \A m \in 0..Len(s) : m < Len(s) => Prefix(s, m + 1) = Append(Prefix(s, m), s[m + 1])
  <1>1. Len(s) \in Nat
    BY SeqFacts
  <1>2. ASSUME NEW m \in 0..Len(s)
        PROVE  /\ IsSeq(Prefix(s, m)) /\ Len(Prefix(s, m)) = m
               /\ \A i \in 1..m : Prefix(s, m)[i] = s[i]
    <2>1. m \in Nat /\ 0 <= m /\ m <= Len(s) /\ 0 + 1 = 1 /\ m - 0 = m /\ \A i \in 1..m : 0 + i = i
      BY <1>1
    <2>2. /\ IsSeq(SubSeq(s, 0 + 1, m)) /\ Len(SubSeq(s, 0 + 1, m)) = m - 0
          /\ \A i \in 1..(m - 0) : SubSeq(s, 0 + 1, m)[i] = s[0 + i]
      BY <2>1, SeqPart
    <2> QED
      BY <2>1, <2>2 DEF Prefix
  <1>3. Prefix(s, 0) = <<>>
    BY <1>1, <1>2, SeqFacts
  <1>4. Prefix(s, Len(s)) = s
    <2>1. IsSeq(Prefix(s, Len(s))) /\ Len(Prefix(s, Len(s))) = Len(s)
          /\ \A i \in 1..Len(s) : Prefix(s, Len(s))[i] = s[i]
      BY <1>1, <1>2
    <2> QED
      BY <2>1, SeqSame
  <1>5. ASSUME NEW m \in 0..Len(s), m < Len(s)
        PROVE  Prefix(s, m + 1) = Append(Prefix(s, m), s[m + 1])
    <2>1. m + 1 \in 0..Len(s) /\ m \in Nat
      BY <1>1, <1>5
    <2>2. IsSeq(Prefix(s, m + 1)) /\ Len(Prefix(s, m + 1)) = m + 1
          /\ \A i \in 1..(m + 1) : Prefix(s, m + 1)[i] = s[i]
      BY <1>2, <2>1
    <2> DEFINE t == Prefix(s, m)
               e == s[m + 1]
    <2>3. IsSeq(t) /\ Len(t) = m /\ \A i \in 1..m : t[i] = s[i]
      BY <1>2
    <2> HIDE DEF t, e
    <2>4. IsSeq(Append(t, e)) /\ Len(Append(t, e)) = m + 1
          /\ (\A i \in 1..m : Append(t, e)[i] = t[i]) /\ Append(t, e)[m + 1] = e
      BY <2>3, SeqAppend
    <2>5. \A i \in 1..(m + 1) : Prefix(s, m + 1)[i] = Append(t, e)[i]
      <3> TAKE i \in 1..(m + 1)
      <3>1. CASE i = m + 1
        BY <2>1, <2>2, <2>4, <3>1 DEF e
      <3>2. CASE i \in 1..m
        BY <2>2, <2>3, <2>4, <3>2
      <3>3. i = m + 1 \/ i \in 1..m
        BY <2>1
      <3> QED
        BY <3>1, <3>2, <3>3
    <2>6. Prefix(s, m + 1) = Append(t, e)
      BY <2>2, <2>4, <2>5, SeqSame
    <2> QED
      BY <2>6 DEF t, e
  <1>6. \A m \in 0..Len(s) : IsSeq(Prefix(s, m)) /\ Len(Prefix(s, m)) = m
    BY <1>2
  <1>7. \A m \in 0..Len(s) : m < Len(s) => Prefix(s, m + 1) = Append(Prefix(s, m), s[m + 1])
    BY <1>5
  <1> QED
    BY <1>3, <1>4, <1>6, <1>7

\* What is left.
LEMMA RestFacts ==
  ASSUME NEW s, IsSeq(s), NEW m \in 0..Len(s)
  PROVE  /\ IsSeq(Rest(s, m)) /\ Len(Rest(s, m)) = Len(s) - m
         /\ \A i \in 1..(Len(s) - m) : Rest(s, m)[i] = s[m + i]
         /\ Rest(s, 0) = s
         /\ Rest(s, m) # <<>> => m < Len(s) /\ Head(Rest(s, m)) = s[m + 1] /\ Tail(Rest(s, m)) = Rest(s, m + 1)
         /\ \A n \in 0..(Len(s) - m) : SubSeq(Rest(s, m), n + 1, Len(Rest(s, m))) = Rest(s, m + n)
  <1>1. Len(s) \in Nat /\ m \in Nat /\ m <= Len(s)
    BY SeqFacts
  <1>2. ASSUME NEW k \in 0..Len(s)
        PROVE  /\ IsSeq(Rest(s, k)) /\ Len(Rest(s, k)) = Len(s) - k
               /\ \A i \in 1..(Len(s) - k) : Rest(s, k)[i] = s[k + i]
    BY <1>1, SeqPart DEF Rest
  <1>3. Rest(s, 0) = s
    <2>1. IsSeq(Rest(s, 0)) /\ Len(Rest(s, 0)) = Len(s) /\ \A i \in 1..Len(s) : Rest(s, 0)[i] = s[i]
      <3>1. 0 \in 0..Len(s) /\ Len(s) - 0 = Len(s) /\ \A i \in 1..Len(s) : 0 + i = i
        BY <1>1
      <3> QED
        BY <1>2, <3>1
    <2> QED
      BY <2>1, SeqSame
  <1>4. ASSUME NEW n \in 0..(Len(s) - m)
        PROVE  SubSeq(Rest(s, m), n + 1, Len(Rest(s, m))) = Rest(s, m + n)
    <2> DEFINE t == Rest(s, m)
               u == SubSeq(t, n + 1, Len(t))
    <2>1. IsSeq(t) /\ Len(t) = Len(s) - m /\ \A i \in 1..(Len(s) - m) : t[i] = s[m + i]
      BY <1>2
    <2>2. n \in Nat /\ Len(t) \in Nat /\ n <= Len(t)
      BY <1>1, <2>1
    <2> HIDE DEF t
    <2>3. IsSeq(u) /\ Len(u) = Len(t) - n /\ \A i \in 1..(Len(t) - n) : u[i] = t[n + i]
      <3>1. Len(t) <= Len(t)
        BY <2>2
      <3> QED
        BY <2>1, <2>2, <3>1, SeqPart, ZenonT(30)
    <2> HIDE DEF u
    <2>4. m + n \in 0..Len(s)
      BY <1>1
    <2>5. IsSeq(Rest(s, m + n)) /\ Len(Rest(s, m + n)) = Len(s) - (m + n)
          /\ \A i \in 1..(Len(s) - (m + n)) : Rest(s, m + n)[i] = s[(m + n) + i]
      BY <1>2, <2>4
    <2>6. Len(u) = Len(Rest(s, m + n))
      BY <1>1, <2>1, <2>3, <2>5
    <2>7. \A i \in 1..Len(u) : u[i] = Rest(s, m + n)[i]
      <3> TAKE i \in 1..Len(u)
      <3>1. i \in 1..(Len(t) - n) /\ n + i \in 1..(Len(s) - m) /\ m + (n + i) = (m + n) + i
            /\ i \in 1..(Len(s) - (m + n))
        BY <1>1, <2>1, <2>2, <2>3
      <3>2. u[i] = t[n + i]
        BY <2>3, <3>1
      <3>3. t[n + i] = s[m + (n + i)]
        BY <2>1, <3>1
      <3> QED
        BY <2>5, <3>1, <3>2, <3>3
    <2>8. u = Rest(s, m + n)
      BY <2>3, <2>5, <2>6, <2>7, SeqSame
    <2> QED
      BY <2>8 DEF u, t
  <1>5. ASSUME Rest(s, m) # <<>>
        PROVE  m < Len(s) /\ Head(Rest(s, m)) = s[m + 1] /\ Tail(Rest(s, m)) = Rest(s, m + 1)
    <2> DEFINE t == Rest(s, m)
    <2>1. IsSeq(t) /\ Len(t) = Len(s) - m /\ t # <<>> /\ \A i \in 1..(Len(s) - m) : t[i] = s[m + i]
      BY <1>2, <1>5
    <2>2. Len(t) # 0 /\ 1 \in 1..(Len(s) - m) /\ 1 \in 0..(Len(s) - m)
      BY <1>1, <2>1, SeqFacts
    <2>3. SubSeq(t, 1 + 1, Len(t)) = Rest(s, m + 1)
      BY <1>4, <2>2
    <2> HIDE DEF t
    <2>4. Head(t) = t[1] /\ Tail(t) = SubSeq(t, 2, Len(t))
      <3>1. PICK S : t \in Seq(S)
        BY <2>1 DEF IsSeq
      <3>2. Tail(t) = SubSeq(t, 2, Len(t))
        BY <2>1, <3>1, TailIsSubSeq
      <3>3. Head(t) = t[1]
        BY <3>1
      <3> QED
        BY <3>2, <3>3
    <2> QED
      BY <1>1, <2>1, <2>2, <2>3, <2>4, SMTT(30) DEF t
  <1> QED
    BY <1>2, <1>3, <1>4, <1>5

----------------------------------------------------------------------------
(* Where tokens leave off. *)

\* in is what StandsIn has come to after each of the first m tokens.
Stands(tokens, m, in) ==
  in = [i \in 0..m |-> IF i = 0 THEN <<>> ELSE Past(in[i - 1], tokens[i])]

\* There is always such a function.
LEMMA StandsExist ==
  \A tokens : \A m \in Nat : \E in : Stands(tokens, m, in)
  <1> TAKE tokens
  <1> DEFINE S == {m \in Nat : \E in : Stands(tokens, m, in)}
  <1>1. 0 \in S
    <2> DEFINE r == [i \in 0..0 |-> <<>>]
    <2>1. Stands(tokens, 0, r)
      BY DEF Stands
    <2> QED
      BY <2>1
  <1>2. ASSUME NEW m \in Nat, m \in S PROVE m + 1 \in S
    <2>1. PICK r : Stands(tokens, m, r)
      BY <1>2
    <2> DEFINE q == [i \in 0..(m + 1) |-> IF i = m + 1 THEN Past(r[m], tokens[m + 1]) ELSE r[i]]
    <2>2. \A i \in 0..(m + 1) : q[i] = IF i = 0 THEN <<>> ELSE Past(q[i - 1], tokens[i])
      <3> TAKE i \in 0..(m + 1)
      <3>1. CASE i = m + 1
        BY <3>1
      <3>2. CASE i \in 0..m /\ i # 0
        <4>1. i - 1 \in 0..(m + 1) /\ i - 1 # m + 1 /\ i # m + 1
          BY <3>2
        <4> QED
          BY <2>1, <3>2, <4>1 DEF Stands
      <3>3. CASE i = 0
        BY <2>1, <3>3 DEF Stands
      <3> QED
        BY <3>1, <3>2, <3>3
    <2>3. Stands(tokens, m + 1, q)
      <3>1. q = [i \in 0..(m + 1) |-> q[i]]
        OBVIOUS
      <3> HIDE DEF q
      <3> QED
        BY <2>2, <3>1 DEF Stands
    <2> QED
      BY <2>3
  <1>3. Nat \subseteq S
    BY <1>1, <1>2, SetInduction
  <1> QED
    BY <1>3

\* Tokens that agree up to m leave off alike there.
LEMMA StandsAgree ==
  ASSUME NEW m \in Nat, NEW s, NEW t, \A i \in 1..m : s[i] = t[i],
         NEW r, NEW q, Stands(s, m, r), Stands(t, m + 1, q)
  PROVE  r[m] = q[m]
  <1> DEFINE S == {i \in Nat : i <= m => r[i] = q[i]}
  <1>1. 0 \in S
    BY DEF Stands
  <1>2. ASSUME NEW i \in Nat, i \in S PROVE i + 1 \in S
    <2> SUFFICES ASSUME i + 1 <= m PROVE r[i + 1] = q[i + 1]
      OBVIOUS
    <2>1. i + 1 \in 0..m /\ i + 1 \in 0..(m + 1) /\ i + 1 # 0 /\ (i + 1) - 1 = i /\ i + 1 \in 1..m
      OBVIOUS
    <2>2. r[i] = q[i]
      BY <1>2
    <2>3. r[i + 1] = Past(r[i], s[i + 1])
      BY <2>1 DEF Stands
    <2>4. q[i + 1] = Past(q[i], t[i + 1])
      BY <2>1 DEF Stands
    <2> QED
      BY <2>1, <2>2, <2>3, <2>4
  <1>3. Nat \subseteq S
    BY <1>1, <1>2, SetInduction
  <1> QED
    BY <1>3

\* StandsIn is what such a function ends with.
LEMMA StandsReads ==
  ASSUME NEW tokens, IsSeq(tokens)
  PROVE  \E in : Stands(tokens, Len(tokens), in) /\ StandsIn(tokens) = in[Len(tokens)]
  <1>1. Len(tokens) \in Nat
    BY SeqFacts
  <1>2. \E in : Stands(tokens, Len(tokens), in)
    BY <1>1, StandsExist
  <1> QED
    BY <1>2 DEF StandsIn, Stands

\* Nothing is entered at first.
LEMMA StandsNone == StandsIn(<<>>) = <<>>
  <1>1. PICK in : Stands(<<>>, 0, in) /\ StandsIn(<<>>) = in[0]
    BY SeqEmpty, StandsReads
  <1> QED
    BY <1>1 DEF Stands

\* One token more is one step further.
LEMMA StandsNext ==
  ASSUME NEW tokens, IsSeq(tokens), NEW token
  PROVE  StandsIn(Append(tokens, token)) = Past(StandsIn(tokens), token)
  <1> DEFINE m == Len(tokens)
             more == Append(tokens, token)
  <1>1. /\ IsSeq(more) /\ Len(more) = m + 1 /\ m \in Nat
        /\ \A i \in 1..m : more[i] = tokens[i]
        /\ more[m + 1] = token
    BY SeqAppend, SeqFacts
  <1> HIDE DEF more
  <1>2. PICK r : Stands(tokens, m, r) /\ StandsIn(tokens) = r[m]
    BY StandsReads
  <1>3. PICK q : Stands(more, m + 1, q) /\ StandsIn(more) = q[m + 1]
    BY <1>1, StandsReads
  <1> HIDE DEF m
  <1>4. r[m] = q[m]
    <2>1. m \in Nat /\ (\A i \in 1..m : tokens[i] = more[i]) /\ Stands(tokens, m, r) /\ Stands(more, m + 1, q)
      BY <1>1, <1>2, <1>3
    <2> HIDE DEF Stands
    <2> QED
      BY <2>1, StandsAgree
  <1>5. q[m + 1] = Past(q[m], more[m + 1])
    BY <1>1, <1>3 DEF Stands
  <1> QED
    BY <1>1, <1>2, <1>3, <1>4, <1>5 DEF more

\* Containers entered, and the same ones.
IsOpen(open) ==
  IsSeq(open) /\ \A k \in 1..Len(open) : open[k] \in [is : Both, pending : BOOLEAN]

Alike(o, open) ==
  Len(o) = Len(open) /\ \A k \in 1..Len(open) : o[k].is = open[k].is

\* The innermost has been given a value, or a name.
LEMMA InnermostGiven ==
  ASSUME NEW open, IsOpen(open), open # <<>>, NEW pending \in BOOLEAN, NEW o,
         o = [open EXCEPT ![Len(open)].pending = pending]
  PROVE  /\ IsOpen(o) /\ Alike(o, open) /\ o # <<>> /\ Last(o).pending = pending
         /\ \A k \in 1..Len(open) : k < Len(open) => o[k] = open[k]
  <1> DEFINE n == Len(open)
  <1>1. n \in Nat /\ n # 0 /\ DOMAIN open = 1..n /\ IsSeq(open) /\ n \in 1..n
    BY SeqFacts DEF IsOpen
  <1>2. DOMAIN o = DOMAIN open /\ o = [i \in DOMAIN open |-> o[i]]
    OBVIOUS
  <1>3. IsSeq(o) /\ Len(o) = n
    BY <1>1, <1>2, SeqUpdate
  <1>4. open[n] \in [is : Both, pending : BOOLEAN]
    BY <1>1 DEF IsOpen
  <1>5. o[n] = [open[n] EXCEPT !.pending = pending]
    BY <1>1
  <1>6. o[n] \in [is : Both, pending : BOOLEAN] /\ o[n].is = open[n].is /\ o[n].pending = pending
    BY <1>4, <1>5
  <1>7. \A k \in 1..n : k < n => o[k] = open[k]
    BY <1>1
  <1> HIDE DEF n
  <1>8. \A k \in 1..n : o[k] \in [is : Both, pending : BOOLEAN] /\ o[k].is = open[k].is
    <2> TAKE k \in 1..n
    <2>1. CASE k = n
      BY <1>6, <2>1
    <2>2. CASE k < n
      <3>1. open[k] \in [is : Both, pending : BOOLEAN]
        BY DEF IsOpen, n
      <3> QED
        BY <1>7, <2>2, <3>1
    <2> QED
      BY <1>1, <2>1, <2>2
  <1>9. o # <<>>
    BY <1>1, <1>3, SeqFacts
  <1>10. Last(o) = o[n]
    BY <1>3 DEF Last
  <1> QED
    BY <1>3, <1>6, <1>7, <1>8, <1>9, <1>10 DEF IsOpen, Alike, n

\* A value has gone into the innermost.
LEMMA ValueGiven ==
  ASSUME NEW open, IsOpen(open)
  PROVE  /\ IsOpen(AfterValue(open)) /\ Alike(AfterValue(open), open)
         /\ open # <<>> => AfterValue(open) # <<>> /\ Last(AfterValue(open)).pending = FALSE
         /\ \A k \in 1..Len(open) : k < Len(open) => AfterValue(open)[k] = open[k]
  <1>1. CASE open = <<>>
    <2>1. AfterValue(open) = open /\ Len(open) = 0
      BY <1>1, SeqFacts DEF AfterValue, IsOpen
    <2> QED
      BY <1>1, <2>1 DEF Alike
  <1>2. CASE open # <<>>
    <2>1. AfterValue(open) = [open EXCEPT ![Len(open)].pending = FALSE]
      BY <1>2 DEF AfterValue
    <2> QED
      BY <1>2, <2>1, InnermostGiven, ZenonT(30)
  <1> QED
    BY <1>1, <1>2

\* The innermost, an object, awaits a value.
Awaiting(open) == [open EXCEPT ![Len(open)].pending = TRUE]

\* A name has gone into the innermost.
LEMMA NameGiven ==
  ASSUME NEW open, IsOpen(open), open # <<>>
  PROVE  /\ IsOpen(Awaiting(open)) /\ Alike(Awaiting(open), open)
         /\ Awaiting(open) # <<>> /\ Last(Awaiting(open)).pending = TRUE
         /\ \A k \in 1..Len(open) : k < Len(open) => Awaiting(open)[k] = open[k]
  <1>1. Awaiting(open) = [open EXCEPT ![Len(open)].pending = TRUE]
    BY DEF Awaiting
  <1> QED
    BY <1>1, InnermostGiven, ZenonT(30)

\* A container is entered.
LEMMA ContainerEntered ==
  ASSUME NEW open, IsOpen(open), NEW is \in Both
  PROVE  /\ IsOpen(Append(open, Entered(is)))
         /\ Len(Append(open, Entered(is))) = Len(open) + 1
         /\ Last(Append(open, Entered(is))) = Entered(is)
         /\ Append(open, Entered(is)) # <<>>
         /\ Front(Append(open, Entered(is))) = open
         /\ \A k \in 1..Len(open) : Append(open, Entered(is))[k] = open[k]
  <1> DEFINE e == Entered(is)
             o == Append(open, e)
             n == Len(open)
  <1>1. e \in [is : Both, pending : BOOLEAN]
    BY DEF Entered
  <1>2. IsSeq(open) /\ n \in Nat /\ \A k \in 1..n : open[k] \in [is : Both, pending : BOOLEAN]
    BY SeqFacts DEF IsOpen
  <1> HIDE DEF e, n
  <1>3. IsSeq(o) /\ Len(o) = n + 1 /\ (\A k \in 1..n : o[k] = open[k]) /\ o[n + 1] = e
    BY <1>2, SeqAppend DEF n
  <1> HIDE DEF o
  <1>4. o # <<>> /\ n + 1 \in Nat /\ (n + 1) - 1 = n
    BY <1>2, <1>3, SeqFacts
  <1>5. \A k \in 1..(n + 1) : o[k] \in [is : Both, pending : BOOLEAN]
    <2> TAKE k \in 1..(n + 1)
    <2>1. CASE k \in 1..n
      BY <1>2, <1>3, <2>1
    <2>2. CASE k = n + 1
      BY <1>1, <1>3, <2>2
    <2>3. k \in 1..n \/ k = n + 1
      BY <1>2
    <2> QED
      BY <2>1, <2>2, <2>3
  <1>6. Front(o) = open
    <2>1. /\ IsSeq(SubSeq(o, 1, Len(o) - 1)) /\ Len(SubSeq(o, 1, Len(o) - 1)) = n
          /\ \A k \in 1..n : SubSeq(o, 1, Len(o) - 1)[k] = o[k]
      BY <1>3, <1>4, SeqFront
    <2>2. \A k \in 1..n : SubSeq(o, 1, Len(o) - 1)[k] = open[k]
      BY <1>3, <2>1
    <2>3. SubSeq(o, 1, Len(o) - 1) = open
      BY <1>2, <2>1, <2>2, SeqSame DEF n
    <2> QED
      BY <2>3 DEF Front
  <1>7. Last(o) = e
    BY <1>3 DEF Last
  <1> QED
    BY <1>3, <1>4, <1>5, <1>6, <1>7 DEF IsOpen, o, e, n

\* A container is left.
LEMMA ContainerLeft ==
  ASSUME NEW open, IsOpen(open), open # <<>>
  PROVE  /\ IsOpen(Front(open)) /\ Len(Front(open)) = Len(open) - 1
         /\ \A k \in 1..(Len(open) - 1) : Front(open)[k] = open[k]
  <1>1. IsSeq(open) /\ Len(open) \in Nat
    BY SeqFacts DEF IsOpen
  <1>2. /\ IsSeq(Front(open)) /\ Len(Front(open)) = Len(open) - 1
        /\ \A k \in 1..(Len(open) - 1) : Front(open)[k] = open[k]
    BY <1>1, SeqFront DEF Front
  <1>3. \A k \in 1..(Len(open) - 1) : k \in 1..Len(open)
    BY <1>1
  <1> QED
    BY <1>2, <1>3 DEF IsOpen

\* The kinds of token, and what each comes to.
LEMMA PastTokens ==
  ASSUME NEW open, NEW token
  PROVE  /\ Past(open, OpenObject) = Append(open, Entered("Object"))
         /\ Past(open, OpenList) = Append(open, Entered("List"))
         /\ token \in Closing => Past(open, token) = AfterValue(Front(open))
         /\ token \notin Opening \cup Closing =>
              Past(open, token) = IF token.t = "string" /\ AwaitsName(open)
                                  THEN Awaiting(open) ELSE AfterValue(open)
         /\ token.t \in {"string", "number", "null"} => token \notin Opening \cup Closing
         /\ Opening \cap Closing = {}
  <1>1. OpenObject # OpenList /\ OpenObject \notin Closing /\ OpenList \notin Closing
    BY TokenKinds DEF Closing
  <1>2. token.t \in {"string", "number", "null"} => token \notin Opening \cup Closing
    BY TokenKinds DEF Opening, Closing
  <1>3. Past(open, OpenObject) = Append(open, Entered("Object"))
    <2>1. OpenObject = OpenObject /\ OpenObject # OpenList /\ OpenObject \notin Closing /\ OpenObject.t # "string"
      BY <1>1, TokenKinds
    <2> QED
      BY <2>1 DEF Past
  <1>4. Past(open, OpenList) = Append(open, Entered("List"))
    <2>1. OpenList # OpenObject /\ OpenList \notin Closing /\ OpenList.t # "string"
      BY <1>1, TokenKinds
    <2> QED
      BY <2>1 DEF Past
  <1>5. token \in Closing => Past(open, token) = AfterValue(Front(open))
    <2> SUFFICES ASSUME token \in Closing PROVE Past(open, token) = AfterValue(Front(open))
      OBVIOUS
    <2>1. token # OpenObject /\ token # OpenList /\ token.t # "string"
      BY <1>1, TokenKinds DEF Closing
    <2> QED
      BY <2>1 DEF Past
  <1>6. token \notin Opening \cup Closing =>
          Past(open, token) = IF token.t = "string" /\ AwaitsName(open)
                              THEN Awaiting(open) ELSE AfterValue(open)
    <2> SUFFICES ASSUME token \notin Opening \cup Closing
                 PROVE  Past(open, token) = IF token.t = "string" /\ AwaitsName(open)
                              THEN Awaiting(open) ELSE AfterValue(open)
      OBVIOUS
    <2>1. token # OpenObject /\ token # OpenList /\ token \notin Closing
      BY DEF Opening
    <2> HIDE DEF AwaitsName, AfterValue
    <2> QED
      BY <2>1 DEF Past, Awaiting
  <1>7. Opening \cap Closing = {}
    BY <1>1 DEF Opening
  <1> QED
    BY <1>2, <1>3, <1>4, <1>5, <1>6, <1>7

----------------------------------------------------------------------------
(* A reader of a document, m tokens into the first value there, which leave *)
(* off in open.                                                             *)

Place(doc, m, open) ==
  /\ m \in 0..Len(doc) /\ IsOpen(open)
  /\ open = StandsIn(Prefix(doc, m))
  /\ FirstValue(Prefix(doc, m)) = [n |-> m, open |-> Len(open)]

\* At first.
LEMMA PlaceStart ==
  ASSUME NEW doc, IsSeq(doc)
  PROVE  Place(doc, 0, <<>>)
  <1>1. Len(doc) \in Nat /\ 0 \in 0..Len(doc)
    BY SeqFacts
  <1>2. Prefix(doc, 0) = <<>>
    BY PrefixFacts
  <1>3. IsOpen(<<>>) /\ Len(<<>>) = 0
    BY SeqEmpty DEF IsOpen
  <1> QED
    BY <1>1, <1>2, <1>3, StandsNone, FirstValueNone DEF Place

\* What a token comes to, containers counted.
LEMMA PastCounts ==
  ASSUME NEW open, IsOpen(open), NEW token, token \in Closing => open # <<>>
  PROVE  /\ IsOpen(Past(open, token))
         /\ Len(Past(open, token)) = IF token \in Opening THEN Len(open) + 1
                                     ELSE IF token \in Closing THEN Len(open) - 1 ELSE Len(open)
         /\ \A k \in 1..Len(open) :
              k < Len(open) /\ k <= Len(Past(open, token)) /\ (token \in Closing => k < Len(open) - 1)
                => Past(open, token)[k] = open[k]
         /\ token \in Opening => \A k \in 1..Len(open) : Past(open, token)[k] = open[k]
  <1>0. Len(open) \in Nat /\ (open = <<>> <=> Len(open) = 0)
    BY SeqFacts DEF IsOpen
  <1>1. CASE token \in Opening
    <2>1. PICK is \in Both : Past(open, token) = Append(open, Entered(is))
      BY <1>1, PastTokens DEF Opening, Both
    <2>2. token \notin Closing
      BY <1>1, PastTokens
    <2> QED
      BY <1>1, <2>1, <2>2, ContainerEntered
  <1>2. CASE token \in Closing
    <2> DEFINE o == Front(open)
    <2>1. Past(open, token) = AfterValue(o) /\ token \notin Opening /\ open # <<>>
      BY <1>2, PastTokens
    <2>2. IsOpen(o) /\ Len(o) = Len(open) - 1 /\ \A k \in 1..(Len(open) - 1) : o[k] = open[k]
      BY <2>1, ContainerLeft
    <2> HIDE DEF o
    <2>3. /\ IsOpen(AfterValue(o)) /\ Len(AfterValue(o)) = Len(o)
          /\ \A k \in 1..Len(o) : k < Len(o) => AfterValue(o)[k] = o[k]
      BY <2>2, ValueGiven DEF Alike
    <2>4. \A k \in 1..Len(open) : k < Len(open) - 1 => k \in 1..Len(o) /\ k < Len(o) /\ k \in 1..(Len(open) - 1)
      BY <1>0, <2>2
    <2> QED
      BY <1>2, <2>1, <2>2, <2>3, <2>4
  <1>3. CASE token \notin Opening \cup Closing
    <2>1. \/ Past(open, token) = AfterValue(open)
          \/ open # <<>> /\ Past(open, token) = Awaiting(open)
      BY <1>3, PastTokens DEF AwaitsName
    <2>2. /\ IsOpen(Past(open, token)) /\ Len(Past(open, token)) = Len(open)
          /\ \A k \in 1..Len(open) : k < Len(open) => Past(open, token)[k] = open[k]
      <3>1. CASE Past(open, token) = AfterValue(open)
        BY <3>1, ValueGiven DEF Alike
      <3>2. CASE open # <<>> /\ Past(open, token) = Awaiting(open)
        <4> HIDE DEF Awaiting, Past
        <4> QED
          BY <3>2, NameGiven DEF Alike
      <3> QED
        BY <2>1, <3>1, <3>2
    <2> QED
      BY <1>3, <2>2
  <1> QED
    BY <1>1, <1>2, <1>3

\* One token on.
LEMMA PlaceNext ==
  ASSUME NEW doc, IsSeq(doc), NEW m, NEW open, Place(doc, m, open), m < Len(doc),
         m = 0 \/ open # <<>>, doc[m + 1] \in Closing => open # <<>>
  PROVE  Place(doc, m + 1, Past(open, doc[m + 1]))
  <1> DEFINE token == doc[m + 1]
             read == Prefix(doc, m)
  <1>1. /\ m \in 0..Len(doc) /\ m \in Nat /\ m + 1 \in 0..Len(doc) /\ Len(doc) \in Nat
        /\ IsOpen(open) /\ open = StandsIn(read)
        /\ FirstValue(read) = [n |-> m, open |-> Len(open)]
    BY SeqFacts DEF Place
  <1>2. IsSeq(read) /\ Prefix(doc, m + 1) = Append(read, token)
    BY <1>1, PrefixFacts
  <1>3. token \in Closing => open # <<>>
    OBVIOUS
  <1>4. Len(open) \in Nat /\ (open = <<>> <=> Len(open) = 0)
    BY <1>1, SeqFacts DEF IsOpen
  <1> HIDE DEF token, read
  <1>5. StandsIn(Append(read, token)) = Past(open, token)
    BY <1>1, <1>2, StandsNext
  <1>6. FirstValue(Append(read, token)) = ReadOn([n |-> m, open |-> Len(open)], token)
    BY <1>1, <1>2, FirstValueNext
  <1>7. /\ IsOpen(Past(open, token))
        /\ Len(Past(open, token)) = IF token \in Opening THEN Len(open) + 1
                                     ELSE IF token \in Closing THEN Len(open) - 1 ELSE Len(open)
    BY <1>1, <1>3, PastCounts
  <1>8. FirstValue(Append(read, token)) = [n |-> m + 1, open |-> Len(Past(open, token))]
    BY <1>1, <1>4, <1>6, <1>7 DEF ReadOn
  <1> QED
    BY <1>1, <1>2, <1>5, <1>7, <1>8 DEF Place, token

\* A value is whole when nothing is open after it.
LEMMA PlaceWhole ==
  ASSUME NEW doc, IsSeq(doc), NEW m, Place(doc, m, <<>>), m > 0
  PROVE  HasValue(doc) /\ ValueLength(doc) = m
  <1>1. Len(doc) \in Nat /\ m \in 0..Len(doc) /\ m \in Nat
        /\ FirstValue(Prefix(doc, m)) = [n |-> m, open |-> 0]
    BY SeqEmpty, SeqFacts DEF Place
  <1> DEFINE S == {j \in Nat : m + j <= Len(doc) => FirstValue(Prefix(doc, m + j)) = [n |-> m, open |-> 0]}
  <1>2. 0 \in S
    BY <1>1
  <1>3. ASSUME NEW j \in Nat, j \in S PROVE j + 1 \in S
    <2> SUFFICES ASSUME m + (j + 1) <= Len(doc)
                 PROVE  FirstValue(Prefix(doc, m + (j + 1))) = [n |-> m, open |-> 0]
      OBVIOUS
    <2>1. m + j \in 0..Len(doc) /\ m + j < Len(doc) /\ m + (j + 1) = (m + j) + 1 /\ m + j <= Len(doc)
      BY <1>1
    <2>2. FirstValue(Prefix(doc, m + j)) = [n |-> m, open |-> 0]
      BY <1>3, <2>1
    <2>3. IsSeq(Prefix(doc, m + j)) /\ Prefix(doc, (m + j) + 1) = Append(Prefix(doc, m + j), doc[(m + j) + 1])
      BY <2>1, PrefixFacts
    <2>4. FirstValue(Prefix(doc, (m + j) + 1)) = ReadOn([n |-> m, open |-> 0], doc[(m + j) + 1])
      BY <2>2, <2>3, FirstValueNext
    <2>5. ReadOn([n |-> m, open |-> 0], doc[(m + j) + 1]) = [n |-> m, open |-> 0]
      BY DEF ReadOn
    <2> QED
      BY <2>1, <2>4, <2>5
  <1>4. Nat \subseteq S
    BY <1>2, <1>3, SetInduction
  <1>5. Len(doc) - m \in Nat /\ m + (Len(doc) - m) = Len(doc) /\ Len(doc) <= Len(doc)
    BY <1>1
  <1>6. FirstValue(Prefix(doc, Len(doc))) = [n |-> m, open |-> 0]
    BY <1>4, <1>5
  <1>7. FirstValue(doc) = [n |-> m, open |-> 0]
    BY <1>6, PrefixFacts
  <1> QED
    BY <1>7 DEF HasValue, ValueLength

\* From open, d containers deeper in the value that is being read there.
Deeper(open, d, o) ==
  /\ Len(o) = Len(open) + d
  /\ \A k \in 1..Len(open) : o[k] = open[k]

\* m tokens into a document, which leave off in open, and n further, into the
\* first value there, with d containers open in it.
SkippedTo(doc, m, open, n, d) ==
  /\ d \in Nat /\ n \in Nat
  /\ IF n > 0 /\ d = 0 THEN Place(doc, m + n, AfterValue(open))
     ELSE \E o : Place(doc, m + n, o) /\ Deeper(open, d, o)

\* One token of a value that is skipped.
LEMMA SkippedOn ==
  ASSUME NEW doc, IsSeq(doc), NEW m, NEW open, Place(doc, m, open), m = 0 \/ open # <<>>,
         ~AwaitsName(open), NEW n, NEW d, SkippedTo(doc, m, open, n, d), m + n < Len(doc),
         n = 0 => d = 0, n > 0 => d > 0, n = 0 => doc[m + 1] \notin Closing
  PROVE  LET token == doc[m + n + 1]
         IN  SkippedTo(doc, m, open, n + 1, IF token \in Opening THEN d + 1
                                            ELSE IF token \in Closing THEN d - 1 ELSE d)
  <1> DEFINE token == doc[m + n + 1]
             past(o) == Past(o, token)
             d1 == IF token \in Opening THEN d + 1 ELSE IF token \in Closing THEN d - 1 ELSE d
  <1>1. /\ m \in Nat /\ n \in Nat /\ d \in Nat /\ m + (n + 1) = (m + n) + 1
        /\ IsOpen(open) /\ Len(open) \in Nat /\ (open = <<>> <=> Len(open) = 0)
    BY SeqFacts DEF Place, IsOpen, SkippedTo
  <1>2. PICK o : Place(doc, m + n, o) /\ Deeper(open, d, o)
    BY DEF SkippedTo
  <1>3. IsOpen(o) /\ Len(o) = Len(open) + d /\ (o = <<>> <=> Len(o) = 0) /\ \A k \in 1..Len(open) : o[k] = open[k]
    BY <1>2, SeqFacts DEF Place, IsOpen, Deeper
  <1>4. n = 0 => o = open /\ token \notin Closing
    <2> SUFFICES ASSUME n = 0 PROVE o = open /\ token \notin Closing
      OBVIOUS
    <2>1. m + n + 1 = m + 1 /\ Len(o) = Len(open)
      BY <1>1, <1>3
    <2>2. o = open
      BY <1>1, <1>3, <2>1, SeqSame DEF IsOpen
    <2> QED
      BY <2>1, <2>2
  <1>5. m + n = 0 \/ o # <<>>
    BY <1>1, <1>3, <1>4
  <1>6. token \in Closing => o # <<>> /\ d > 0
    BY <1>1, <1>3, <1>4
  <1>7. Opening \cap Closing = {}
    BY PastTokens
  <1> HIDE DEF token
  <1>8. Place(doc, m + (n + 1), past(o))
    <2>1. token = doc[(m + n) + 1]
      BY DEF token
    <2>2. Place(doc, (m + n) + 1, Past(o, doc[(m + n) + 1]))
      BY <1>2, <1>5, <1>6, <2>1, PlaceNext
    <2> QED
      BY <1>1, <2>1, <2>2
  <1>9. /\ Len(past(o)) = IF token \in Opening THEN Len(o) + 1
                          ELSE IF token \in Closing THEN Len(o) - 1 ELSE Len(o)
        /\ \A k \in 1..Len(o) :
             k < Len(o) /\ k <= Len(past(o)) /\ (token \in Closing => k < Len(o) - 1)
               => past(o)[k] = o[k]
        /\ token \in Opening => \A k \in 1..Len(o) : past(o)[k] = o[k]
    BY <1>3, <1>6, PastCounts
  <1>10. d1 \in Nat /\ Len(past(o)) = Len(open) + d1
    BY <1>1, <1>3, <1>6, <1>9
  <1>11. CASE d1 = 0
    <2>1. CASE token \in Closing
      <3>1. d = 1 /\ Len(o) = Len(open) + 1
        BY <1>1, <1>3, <1>7, <1>11, <2>1
      <3>2. past(o) = AfterValue(Front(o))
        BY <2>1, PastTokens
      <3>3. IsSeq(Front(o)) /\ Len(Front(o)) = Len(open) /\ \A k \in 1..Len(open) : Front(o)[k] = o[k]
        <4>1. IsOpen(Front(o)) /\ Len(Front(o)) = Len(o) - 1 /\ \A k \in 1..(Len(o) - 1) : Front(o)[k] = o[k]
          BY <1>3, <1>6, <2>1, ContainerLeft
        <4>2. Len(o) - 1 = Len(open)
          BY <1>1, <3>1
        <4> QED
          BY <4>1, <4>2 DEF IsOpen
      <3>4. Front(o) = open
        BY <1>1, <1>3, <3>3, SeqSame DEF IsOpen
      <3> QED
        BY <1>1, <1>8, <1>11, <3>2, <3>4 DEF SkippedTo, token
    <2>2. CASE token \notin Closing
      <3>1. token \notin Opening /\ d = 0 /\ n = 0
        BY <1>1, <1>11, <2>2
      <3>2. past(o) = AfterValue(open)
        BY <1>4, <2>2, <3>1, PastTokens
      <3> QED
        BY <1>1, <1>8, <1>11, <3>2 DEF SkippedTo, token
    <2> QED
      BY <2>1, <2>2
  <1>12. CASE d1 # 0
    <2>1. \A k \in 1..Len(open) : past(o)[k] = o[k]
      <3> TAKE k \in 1..Len(open)
      <3>1. k \in 1..Len(o) /\ k <= Len(past(o))
        BY <1>1, <1>3, <1>10
      <3>2. CASE token \in Opening
        BY <1>9, <3>1, <3>2
      <3>3. CASE token \in Closing
        <4>1. d1 = d - 1 /\ d > 0
          BY <1>6, <1>7, <3>3
        <4>2. d > 1 /\ k < Len(o) - 1 /\ k < Len(o)
          BY <1>1, <1>3, <1>12, <4>1
        <4> QED
          BY <1>9, <3>1, <4>2
      <3>4. CASE token \notin Opening \cup Closing
        <4>1. d > 0 /\ k < Len(o)
          BY <1>1, <1>3, <1>12, <3>4
        <4> QED
          BY <1>9, <3>1, <3>4, <4>1
      <3> QED
        BY <3>2, <3>3, <3>4
    <2>2. Deeper(open, d1, past(o))
      BY <1>3, <1>10, <2>1 DEF Deeper
    <2> QED
      BY <1>1, <1>8, <1>10, <1>12, <2>2 DEF SkippedTo, token
  <1> QED
    BY <1>11, <1>12

\* A whole value is skipped.
LEMMA PlaceSkip ==
  ASSUME NEW doc, IsSeq(doc), NEW m, NEW open, Place(doc, m, open), m = 0 \/ open # <<>>,
         ~AwaitsName(open), NEW t, t = Rest(doc, m), t # <<>>, Head(t) \notin Closing, HasValue(t)
  PROVE  ValueLength(t) \in 1..Len(t) /\ Place(doc, m + ValueLength(t), AfterValue(open))
  <1>1. m \in 0..Len(doc) /\ m \in Nat /\ Len(doc) \in Nat /\ IsOpen(open)
    BY SeqFacts DEF Place
  <1>2. /\ IsSeq(t) /\ Len(t) = Len(doc) - m /\ Len(t) \in Nat
        /\ \A i \in 1..(Len(doc) - m) : t[i] = doc[m + i]
        /\ Head(t) = doc[m + 1]
    BY <1>1, RestFacts
  <1>3. PICK r : ReadsTo(t, Len(t), r) /\ FirstValue(t) = r[Len(t)]
    BY <1>2, FirstValueReads
  <1>4. r[0] = [n |-> 0, open |-> 0]
    BY <1>2, <1>3 DEF ReadsTo
  <1>5. \A j \in Nat : j + 1 <= Len(t) => r[j + 1] = ReadOn(r[j], t[j + 1])
    <2> TAKE j \in Nat
    <2> HAVE j + 1 <= Len(t)
    <2>1. j + 1 \in 0..Len(t) /\ j + 1 # 0 /\ (j + 1) - 1 = j
      BY <1>2
    <2> QED
      BY <1>3, <2>1 DEF ReadsTo
  <1> DEFINE Fine(j) == /\ SkippedTo(doc, m, open, r[j].n, r[j].open)
                        /\ r[j].n \in 0..j /\ (j > 0 => r[j].n > 0) /\ (j = 0 => r[j].open = 0)
                        /\ r[j].open > 0 => r[j].n = j
             S == {j \in Nat : j <= Len(t) => Fine(j)}
  <1>6. 0 \in S
    <2>1. r[0].n = 0 /\ r[0].open = 0
      BY <1>4
    <2>2. Deeper(open, 0, open) /\ m + 0 = m
      BY <1>1, SeqFacts DEF Deeper, IsOpen
    <2>3. SkippedTo(doc, m, open, 0, 0)
      BY <2>2 DEF SkippedTo
    <2> QED
      BY <2>1, <2>3
  <1>7. ASSUME NEW j \in Nat, j \in S PROVE j + 1 \in S
    <2> SUFFICES ASSUME j + 1 <= Len(t) PROVE Fine(j + 1)
      OBVIOUS
    <2> DEFINE n == r[j].n
               d == r[j].open
               token == t[j + 1]
    <2>1. SkippedTo(doc, m, open, n, d) /\ n \in 0..j /\ (j > 0 => n > 0) /\ (j = 0 => d = 0) /\ (d > 0 => n = j)
      BY <1>2, <1>7
    <2>2. r[j + 1] = ReadOn(r[j], token) /\ d \in Nat /\ n \in Nat
      BY <1>5, <2>1 DEF SkippedTo
    <2>3. CASE n > 0 /\ d = 0
      <3>1. r[j + 1] = r[j]
        BY <2>2, <2>3 DEF ReadOn
      <3> QED
        BY <2>1, <2>3, <3>1
    <2>4. CASE ~(n > 0 /\ d = 0)
      <3>1. n = j /\ (n = 0 => d = 0) /\ (n > 0 => d > 0)
        BY <2>1, <2>2, <2>4
      <3>2. r[j + 1] = [n |-> n + 1, open |-> IF token \in Opening THEN d + 1
                                              ELSE IF token \in Closing THEN d - 1 ELSE d]
        BY <2>2, <2>4 DEF ReadOn
      <3>3. token = doc[m + n + 1] /\ m + n < Len(doc)
        <4>1. j + 1 \in 1..(Len(doc) - m) /\ m + (j + 1) = m + j + 1
          BY <1>1, <1>2
        <4> QED
          BY <1>1, <1>2, <3>1, <4>1
      <3>4. n = 0 => doc[m + 1] \notin Closing
        BY <1>2
      <3> HIDE DEF token, n, d, S, Fine
      <3>5. SkippedTo(doc, m, open, n + 1, IF token \in Opening THEN d + 1
                                           ELSE IF token \in Closing THEN d - 1 ELSE d)
        BY <2>1, <3>1, <3>3, <3>4, SkippedOn
      <3>6. n + 1 \in 0..(j + 1) /\ n + 1 > 0 /\ j + 1 # 0 /\ n + 1 = j + 1
        BY <2>2, <3>1
      <3> QED
        BY <3>2, <3>5, <3>6 DEF Fine
    <2> QED
      BY <2>3, <2>4
  <1>8. Nat \subseteq S
    <2> HIDE DEF S
    <2> QED
      BY <1>6, <1>7, SetInduction
  <1>9. Fine(Len(t))
    BY <1>2, <1>8
  <1>10. Len(t) > 0
    BY <1>2, SeqFacts
  <1>11. r[Len(t)].n > 0 /\ r[Len(t)].open = 0
    BY <1>3 DEF HasValue
  <1>12. Place(doc, m + r[Len(t)].n, AfterValue(open))
    BY <1>9, <1>11 DEF SkippedTo
  <1> QED
    BY <1>2, <1>3, <1>9, <1>11, <1>12 DEF ValueLength

----------------------------------------------------------------------------
(* jsonSource, where a value may be read next, and elsewhere. *)

JsonReady(doc, source, open) ==
  \E m : /\ source = JsonSource(Rest(doc, m)) /\ Place(doc, m, open)
         /\ open = <<>> => m = 0
         /\ open # <<>> /\ Last(open).is = "Object" => Last(open).pending = TRUE

JsonRests(doc, source, open) ==
  \E m : /\ source = JsonSource(Rest(doc, m)) /\ Place(doc, m, open)
         /\ open = <<>> => m > 0
         /\ open # <<>> /\ Last(open).is = "Object" => Last(open).pending = FALSE

\* What is ahead of it.
LEMMA JsonAhead ==
  ASSUME NEW doc, IsSeq(doc), NEW m \in 0..Len(doc), NEW source, source = JsonSource(Rest(doc, m)),
         HasNext(source)
  PROVE  /\ m < Len(doc) /\ Ahead(source) = doc[m + 1]
         /\ Take(source) = JsonSource(Rest(doc, m + 1))
  <1>1. source.kind = "json" /\ source.rest = Rest(doc, m) /\ source = [kind |-> "json", rest |-> Rest(doc, m)]
    BY DEF JsonSource
  <1>2. Rest(doc, m) # <<>>
    BY <1>1 DEF HasNext
  <1>3. m < Len(doc) /\ Head(Rest(doc, m)) = doc[m + 1] /\ Tail(Rest(doc, m)) = Rest(doc, m + 1)
    BY <1>2, RestFacts
  <1> QED
    BY <1>1, <1>3 DEF Ahead, Take, JsonSource

\* At first.
LEMMA JsonStarts ==
  ASSUME NEW doc, IsSeq(doc)
  PROVE  JsonReady(doc, JsonSource(doc), <<>>)
  <1>1. Place(doc, 0, <<>>)
    BY PlaceStart
  <1>2. Rest(doc, 0) = doc
    BY <1>1, RestFacts DEF Place
  <1> QED
    BY <1>1, <1>2 DEF JsonReady

\* Text, Integer, Number, Bytes, Timestamp and Null.
LEMMA JsonTaken ==
  ASSUME NEW doc, IsSeq(doc), NEW source, NEW open, JsonReady(doc, source, open),
         HasNext(source), Ahead(source).t \in {"string", "number", "null"}
  PROVE  JsonRests(doc, Take(source), AfterValue(open))
  <1>1. PICK m : /\ source = JsonSource(Rest(doc, m)) /\ Place(doc, m, open)
                 /\ open = <<>> => m = 0
                 /\ open # <<>> /\ Last(open).is = "Object" => Last(open).pending = TRUE
    BY DEF JsonReady
  <1>2. m \in 0..Len(doc) /\ m \in Nat /\ IsOpen(open)
    BY <1>1 DEF Place
  <1> DEFINE token == doc[m + 1]
  <1>3. m < Len(doc) /\ token.t \in {"string", "number", "null"} /\ Take(source) = JsonSource(Rest(doc, m + 1))
    BY <1>1, <1>2, JsonAhead
  <1>4. ~AwaitsName(open)
    BY <1>1 DEF AwaitsName
  <1>5. token \notin Closing /\ Past(open, token) = AfterValue(open)
    BY <1>3, <1>4, PastTokens
  <1>6. Place(doc, m + 1, Past(open, token))
    BY <1>1, <1>3, <1>5, PlaceNext
  <1>7. AfterValue(open) # <<>> => Last(AfterValue(open)).pending = FALSE
    BY <1>2, ValueGiven DEF AfterValue
  <1> QED
    BY <1>2, <1>3, <1>5, <1>6, <1>7 DEF JsonRests

\* A member's name.
LEMMA JsonNamed ==
  ASSUME NEW doc, IsSeq(doc), NEW source, NEW open, JsonRests(doc, source, open),
         HasNext(source), Ahead(source).t = "string", open # <<>>, Last(open).is = "Object"
  PROVE  JsonReady(doc, Take(source), Awaiting(open))
  <1>1. PICK m : /\ source = JsonSource(Rest(doc, m)) /\ Place(doc, m, open)
                 /\ open # <<>> /\ Last(open).is = "Object" => Last(open).pending = FALSE
    BY DEF JsonRests
  <1>2. m \in 0..Len(doc) /\ m \in Nat /\ IsOpen(open)
    BY <1>1 DEF Place
  <1> DEFINE token == doc[m + 1]
  <1>3. m < Len(doc) /\ token.t = "string" /\ Take(source) = JsonSource(Rest(doc, m + 1))
    BY <1>1, <1>2, JsonAhead
  <1>4. AwaitsName(open)
    BY <1>1 DEF AwaitsName
  <1>5. token \notin Closing /\ Past(open, token) = Awaiting(open)
    BY <1>3, <1>4, PastTokens
  <1>6. Place(doc, m + 1, Past(open, token))
    BY <1>1, <1>3, PlaceNext
  <1>7. Awaiting(open) # <<>> /\ Last(Awaiting(open)).pending = TRUE
    BY <1>2, NameGiven
  <1> QED
    BY <1>3, <1>5, <1>6, <1>7 DEF JsonReady

\* Skip.
LEMMA JsonSkipped ==
  ASSUME NEW doc, IsSeq(doc), NEW source, NEW open, JsonReady(doc, source, open), HasWhole(source)
  PROVE  JsonRests(doc, Skip(source), AfterValue(open))
  <1>1. PICK m : /\ source = JsonSource(Rest(doc, m)) /\ Place(doc, m, open)
                 /\ open = <<>> => m = 0
                 /\ open # <<>> /\ Last(open).is = "Object" => Last(open).pending = TRUE
    BY DEF JsonReady
  <1>2. m \in 0..Len(doc) /\ m \in Nat /\ IsOpen(open) /\ Len(doc) \in Nat
    BY <1>1, SeqFacts DEF Place
  <1> DEFINE t == Rest(doc, m)
             n == ValueLength(t)
  <1>3. source = [kind |-> "json", rest |-> t] /\ source.kind = "json" /\ source.rest = t
    BY <1>1 DEF JsonSource
  <1>4. t # <<>> /\ Head(t) \notin Closing /\ HasValue(t)
    BY <1>3 DEF HasWhole, HasNext, Ahead
  <1>5. ~AwaitsName(open)
    BY <1>1 DEF AwaitsName
  <1>6. n \in 1..Len(t) /\ Place(doc, m + n, AfterValue(open))
    BY <1>1, <1>4, <1>5, PlaceSkip
  <1>7. Len(t) = Len(doc) - m /\ SubSeq(t, n + 1, Len(t)) = Rest(doc, m + n)
    <2>1. Len(t) = Len(doc) - m
      BY <1>2, RestFacts
    <2>2. n \in 0..(Len(doc) - m)
      BY <1>2, <1>6, <2>1
    <2> HIDE DEF n
    <2> QED
      BY <1>2, <2>1, <2>2, RestFacts
  <1> HIDE DEF t, n
  <1>8. Skip(source) = JsonSource(Rest(doc, m + n))
    <2>1. Skip(source) = JsonSource(SubSeq(t, n + 1, Len(t)))
      BY <1>3 DEF Skip, JsonSource, n
    <2> QED
      BY <1>7, <2>1
  <1>9. AfterValue(open) # <<>> => Last(AfterValue(open)).pending = FALSE
    BY <1>2, ValueGiven DEF AfterValue
  <1>10. m + n > 0
    BY <1>2, <1>6, <1>7
  <1> QED
    BY <1>6, <1>8, <1>9, <1>10 DEF JsonRests

\* The beginning of a container.
LEMMA JsonEntered ==
  ASSUME NEW doc, IsSeq(doc), NEW source, NEW open, JsonReady(doc, source, open),
         HasNext(source), NEW is \in Both,
         Ahead(source) = IF is = "Object" THEN OpenObject ELSE OpenList
  PROVE  JsonRests(doc, Take(source), Append(open, Entered(is)))
  <1>1. PICK m : /\ source = JsonSource(Rest(doc, m)) /\ Place(doc, m, open)
                 /\ open = <<>> => m = 0
    BY DEF JsonReady
  <1>2. m \in 0..Len(doc) /\ m \in Nat /\ IsOpen(open)
    BY <1>1 DEF Place
  <1> DEFINE token == doc[m + 1]
             o == Append(open, Entered(is))
  <1>3. /\ m < Len(doc) /\ token = (IF is = "Object" THEN OpenObject ELSE OpenList)
        /\ Take(source) = JsonSource(Rest(doc, m + 1))
    BY <1>1, <1>2, JsonAhead
  <1>4. token \notin Closing
    BY <1>3, PastTokens DEF Opening
  <1>5. Past(open, token) = o
    BY <1>3, PastTokens DEF Both
  <1>6. Place(doc, m + 1, Past(open, token))
    BY <1>1, <1>3, <1>4, PlaceNext
  <1>7. o # <<>> /\ Last(o).pending = FALSE
    BY <1>2, ContainerEntered DEF Entered
  <1> QED
    BY <1>3, <1>5, <1>6, <1>7 DEF JsonRests

\* The end of one.
LEMMA JsonLeft ==
  ASSUME NEW doc, IsSeq(doc), NEW source, NEW open, JsonRests(doc, source, open),
         HasNext(source), Ahead(source) \in Closing, open # <<>>
  PROVE  JsonRests(doc, Take(source), AfterValue(Front(open)))
  <1>1. PICK m : source = JsonSource(Rest(doc, m)) /\ Place(doc, m, open)
    BY DEF JsonRests
  <1>2. m \in 0..Len(doc) /\ m \in Nat /\ IsOpen(open)
    BY <1>1 DEF Place
  <1> DEFINE token == doc[m + 1]
             o == Front(open)
  <1>3. m < Len(doc) /\ token \in Closing /\ Take(source) = JsonSource(Rest(doc, m + 1))
    BY <1>1, <1>2, JsonAhead
  <1>4. Past(open, token) = AfterValue(o)
    BY <1>3, PastTokens
  <1>5. Place(doc, m + 1, Past(open, token))
    BY <1>1, <1>3, PlaceNext
  <1>6. IsOpen(o)
    BY <1>2, ContainerLeft
  <1> HIDE DEF o
  <1>7. AfterValue(o) # <<>> => Last(AfterValue(o)).pending = FALSE
    BY <1>6, ValueGiven DEF AfterValue
  <1> QED
    BY <1>2, <1>3, <1>4, <1>5, <1>7 DEF JsonRests, o

\* The next element.
LEMMA JsonElement ==
  ASSUME NEW doc, NEW source, NEW open, JsonRests(doc, source, open), open # <<>>, Last(open).is = "List"
  PROVE  JsonReady(doc, source, open)
  BY DEF JsonRests, JsonReady

----------------------------------------------------------------------------
(* The records, and the containers and sources they account for.           *)

\* A sequence one longer than another, that begins with it.
LEMMA SeqOneMore ==
  ASSUME NEW b, IsSeq(b), NEW t, IsSeq(t), Len(t) = Len(b) + 1, \A i \in 1..Len(b) : t[i] = b[i],
         NEW e, t[Len(b) + 1] = e
  PROVE  t = Append(b, e)
  <1> DEFINE n == Len(b)
             u == Append(b, e)
  <1>1. IsSeq(u) /\ Len(u) = n + 1 /\ (\A i \in 1..n : u[i] = b[i]) /\ u[n + 1] = e /\ n \in Nat
    BY SeqAppend, SeqFacts
  <1>2. Len(t) = n + 1 /\ (\A i \in 1..n : t[i] = b[i]) /\ t[n + 1] = e
    OBVIOUS
  <1> HIDE DEF u, n
  <1>3. \A i \in 1..(n + 1) : i \in 1..n \/ i = n + 1
    BY <1>1
  <1>4. \A i \in 1..(n + 1) : t[i] = u[i]
    BY <1>1, <1>2, <1>3
  <1> QED
    BY <1>1, <1>2, <1>4, SeqSame DEF u

\* A sequence, and its last.
LEMMA SeqSplit ==
  ASSUME NEW s, IsSeq(s), s # <<>>
  PROVE  /\ s = Append(Front(s), Last(s)) /\ IsSeq(Front(s)) /\ Len(s) = Len(Front(s)) + 1
         /\ \A e : [s EXCEPT ![Len(s)] = e] = Append(Front(s), e)
  <1>1. /\ Len(s) \in Nat /\ Len(s) # 0 /\ DOMAIN s = 1..Len(s)
        /\ IsSeq(Front(s)) /\ Len(Front(s)) = Len(s) - 1
        /\ \A i \in 1..(Len(s) - 1) : Front(s)[i] = s[i]
    BY SeqFacts, SeqFront DEF Front
  <1> DEFINE b == Front(s)
             n == Len(b)
  <1>2. IsSeq(b) /\ n \in Nat /\ Len(s) = n + 1 /\ \A i \in 1..n : s[i] = b[i]
    BY <1>1
  <1>3. DOMAIN s = 1..(n + 1) /\ Last(s) = s[n + 1]
    BY <1>1, <1>2 DEF Last
  <1> HIDE DEF b
  <1>4. s = Append(b, s[n + 1])
    BY <1>2, SeqOneMore
  <1>5. ASSUME NEW e PROVE [s EXCEPT ![n + 1] = e] = Append(b, e)
    <2> DEFINE t == [s EXCEPT ![n + 1] = e]
    <2> HIDE DEF n
    <2>1. DOMAIN t = DOMAIN s /\ t = [i \in DOMAIN s |-> t[i]]
      OBVIOUS
    <2>2. n + 1 \in DOMAIN s /\ \A i \in 1..n : i \in DOMAIN s /\ i # n + 1
      BY <1>2, <1>3
    <2>3. t[n + 1] = e /\ \A i \in 1..n : t[i] = s[i]
      BY <2>2
    <2> HIDE DEF t
    <2>4. IsSeq(t) /\ Len(t) = n + 1
      BY <1>2, <2>1, SeqUpdate
    <2>5. \A i \in 1..n : t[i] = b[i]
      BY <1>2, <2>3
    <2>6. t = Append(b, e)
      BY <1>2, <2>3, <2>4, <2>5, SeqOneMore DEF n
    <2> QED
      BY <2>6 DEF t
  <1> HIDE DEF n
  <1> QED
    BY <1>2, <1>3, <1>4, <1>5 DEF b, n

\* A sequence, and one more.
LEMMA SeqMore ==
  ASSUME NEW s, IsSeq(s), NEW e
  PROVE  /\ IsSeq(Append(s, e)) /\ Append(s, e) # <<>> /\ Front(Append(s, e)) = s /\ Last(Append(s, e)) = e
         /\ Len(Append(s, e)) = Len(s) + 1 /\ Len(s) \in Nat
         /\ \A i \in 1..Len(s) : Append(s, e)[i] = s[i]
         /\ Append(s, e)[Len(s) + 1] = e
  <1> DEFINE t == Append(s, e)
  <1>1. /\ IsSeq(t) /\ Len(t) = Len(s) + 1 /\ Len(s) \in Nat
        /\ (\A i \in 1..Len(s) : t[i] = s[i]) /\ t[Len(s) + 1] = e
    BY SeqAppend, SeqFacts
  <1> HIDE DEF t
  <1>2. t # <<>> /\ Last(t) = e
    BY <1>1, SeqFacts DEF Last
  <1>3. IsSeq(Front(t)) /\ Len(Front(t)) = Len(s) /\ \A i \in 1..Len(s) : Front(t)[i] = s[i]
    <2>1. Len(t) - 1 = Len(s)
      BY <1>1
    <2>2. /\ IsSeq(SubSeq(t, 1, Len(t) - 1)) /\ Len(SubSeq(t, 1, Len(t) - 1)) = Len(t) - 1
          /\ \A i \in 1..(Len(t) - 1) : SubSeq(t, 1, Len(t) - 1)[i] = t[i]
      BY <1>1, <1>2, SeqFront
    <2> QED
      BY <1>1, <2>1, <2>2 DEF Front
  <1>4. Front(t) = s
    BY <1>3, SeqSame
  <1> QED
    BY <1>1, <1>2, <1>4 DEF t

IsRequest(r) == r.kind \in {"json", "dynamic"} /\ (r.kind = "json" => IsSeq(r.document))

\* Record f has a tagged union's variant under it, or a container of its own.
IsTagged(f) == f.begun /\ Kind(f) = "tagged"
Encloses(f) == f.begun /\ Kind(f) \in ObjectLike \cup {"list"}
Is(f) == IF Kind(f) = "list" THEN "List" ELSE "Object"

TaggedIx(fr) == {i \in DOMAIN fr : IsTagged(fr[i])}
Tags(fr) == UpTo(Len(fr), TaggedIx(fr))

\* Source k is what the whole JSON document is read from.
Outer(r, k) == k = 1 /\ r.kind = "json"

OuterIx(r, fr) == {i \in DOMAIN fr : Encloses(fr[i]) /\ Outer(r, 1 + UpTo(i - 1, TaggedIx(fr)))}

\* The containers entered in the document are the records'.
Fits(r, fr, open) ==
  /\ Len(open) = UpTo(Len(fr), OuterIx(r, fr))
  /\ \A i \in OuterIx(r, fr) : open[UpTo(i, OuterIx(r, fr))].is = Is(fr[i])

\* One record more.
LEMMA IxMore ==
  ASSUME NEW r, NEW b, IsSeq(b), NEW f
  PROVE  LET fr == Append(b, f)
             n == Len(b)
         IN  /\ DOMAIN fr = 1..(n + 1) /\ DOMAIN b = 1..n /\ n \in Nat /\ Len(fr) = n + 1
             /\ fr[n + 1] = f /\ \A i \in 1..n : fr[i] = b[i]
             /\ \A i \in 1..n : i \in TaggedIx(fr) <=> i \in TaggedIx(b)
             /\ \A i \in 0..n : UpTo(i, TaggedIx(fr)) = UpTo(i, TaggedIx(b))
             /\ n + 1 \in TaggedIx(fr) <=> IsTagged(f)
             /\ \A i \in 1..n : i \in OuterIx(r, fr) <=> i \in OuterIx(r, b)
             /\ \A i \in 0..n : UpTo(i, OuterIx(r, fr)) = UpTo(i, OuterIx(r, b))
             /\ n + 1 \in OuterIx(r, fr) <=> Encloses(f) /\ Outer(r, 1 + Tags(b))
             /\ n + 1 \notin TaggedIx(b) /\ n + 1 \notin OuterIx(r, b)
  <1> DEFINE fr == Append(b, f)
             n == Len(b)
  <1>1. /\ IsSeq(fr) /\ Len(fr) = n + 1 /\ n \in Nat /\ fr[n + 1] = f /\ \A i \in 1..n : fr[i] = b[i]
    BY SeqMore
  <1>2. DOMAIN fr = 1..(n + 1) /\ DOMAIN b = 1..n
    BY <1>1, SeqFacts
  <1> HIDE DEF fr
  <1>3. \A i \in 1..n : i \in TaggedIx(fr) <=> i \in TaggedIx(b)
    BY <1>1, <1>2 DEF TaggedIx
  <1>4. \A i \in 0..n : UpTo(i, TaggedIx(fr)) = UpTo(i, TaggedIx(b))
    <2> TAKE i \in 0..n
    <2>1. i \in Nat /\ \A j \in 1..i : j \in TaggedIx(fr) <=> j \in TaggedIx(b)
      BY <1>1, <1>3
    <2> QED
      BY <2>1, UpToSame
  <1>5. n + 1 \in TaggedIx(fr) <=> IsTagged(f)
    BY <1>1, <1>2 DEF TaggedIx
  <1>6. \A i \in 1..n : i \in OuterIx(r, fr) <=> i \in OuterIx(r, b)
    <2> TAKE i \in 1..n
    <2>1. i - 1 \in 0..n /\ i \in 1..(n + 1)
      BY <1>1
    <2>2. UpTo(i - 1, TaggedIx(fr)) = UpTo(i - 1, TaggedIx(b)) /\ fr[i] = b[i]
      BY <1>1, <1>4, <2>1
    <2> QED
      BY <1>2, <2>1, <2>2 DEF OuterIx
  <1>7. \A i \in 0..n : UpTo(i, OuterIx(r, fr)) = UpTo(i, OuterIx(r, b))
    <2> TAKE i \in 0..n
    <2>1. i \in Nat /\ \A j \in 1..i : j \in OuterIx(r, fr) <=> j \in OuterIx(r, b)
      BY <1>1, <1>6
    <2> QED
      BY <2>1, UpToSame
  <1>8. n + 1 \in OuterIx(r, fr) <=> Encloses(f) /\ Outer(r, 1 + Tags(b))
    <2>1. (n + 1) - 1 = n /\ n \in 0..n /\ n + 1 \in 1..(n + 1)
      BY <1>1
    <2>2. UpTo((n + 1) - 1, TaggedIx(fr)) = Tags(b)
      BY <1>4, <2>1 DEF Tags
    <2> QED
      BY <1>1, <1>2, <2>1, <2>2 DEF OuterIx
  <1>9. n + 1 \notin TaggedIx(b) /\ n + 1 \notin OuterIx(r, b)
    BY <1>1, <1>2 DEF TaggedIx, OuterIx
  <1> QED
    BY <1>1, <1>2, <1>3, <1>4, <1>5, <1>6, <1>7, <1>8, <1>9 DEF fr

\* A source more for a tagged union's record.
LEMMA TagsMore ==
  ASSUME NEW b, IsSeq(b), NEW f
  PROVE  /\ Tags(b) \in Nat
         /\ IsTagged(f) => Tags(Append(b, f)) = Tags(b) + 1
         /\ ~IsTagged(f) => Tags(Append(b, f)) = Tags(b)
  <1> DEFINE fr == Append(b, f)
             n == Len(b)
  <1>1. /\ n \in Nat /\ Len(fr) = n + 1
        /\ UpTo(n, TaggedIx(fr)) = UpTo(n, TaggedIx(b))
        /\ n + 1 \in TaggedIx(fr) <=> IsTagged(f)
    <2>1. n \in Nat /\ n \in 0..n
      BY SeqFacts
    <2> QED
      BY <2>1, IxMore
  <1> HIDE DEF fr
  <1>2. UpTo(n + 1, TaggedIx(fr)) = UpTo(n, TaggedIx(fr)) + (IF n + 1 \in TaggedIx(fr) THEN 1 ELSE 0)
    BY <1>1, UpToNext
  <1>3. Tags(b) \in Nat /\ UpTo(n, TaggedIx(fr)) = Tags(b) /\ Tags(fr) = UpTo(n + 1, TaggedIx(fr))
    BY <1>1, UpToNat DEF Tags
  <1> QED
    BY <1>1, <1>2, <1>3 DEF fr

\* Each record's container is one of those entered.
LEMMA OuterPlaces ==
  ASSUME NEW r, NEW b, IsSeq(b)
  PROVE  /\ UpTo(Len(b), OuterIx(r, b)) \in Nat
         /\ \A i \in OuterIx(r, b) :
              i \in 1..Len(b) /\ UpTo(i, OuterIx(r, b)) \in 1..UpTo(Len(b), OuterIx(r, b))
  <1> DEFINE S == OuterIx(r, b)
             n == Len(b)
  <1>1. n \in Nat /\ \A i \in S : i \in 1..n
    BY SeqFacts DEF OuterIx
  <1> HIDE DEF S, n
  <1>2. ASSUME NEW i \in S PROVE UpTo(i, S) \in 1..UpTo(n, S)
    <2>1. i \in Nat /\ 0 < i /\ i <= n /\ 0 \in Nat
      BY <1>1
    <2>2. UpTo(0, S) = 0 /\ UpTo(0, S) < UpTo(i, S)
      BY <1>2, <2>1, UpToNone, UpToLess
    <2>3. UpTo(i, S) <= UpTo(n, S) /\ UpTo(i, S) \in Nat /\ UpTo(n, S) \in Nat
      BY <1>1, <2>1, UpToGrows, UpToNat
    <2> QED
      BY <2>2, <2>3
  <1>3. UpTo(n, S) \in Nat
    BY <1>1, UpToNat
  <1> QED
    BY <1>1, <1>2, <1>3 DEF S, n

\* A container for a record more.
LEMMA FitsInside ==
  ASSUME NEW r, NEW b, IsSeq(b), NEW f, Encloses(f), Outer(r, 1 + Tags(b)), NEW open, IsOpen(open)
  PROVE  Fits(r, Append(b, f), open) <=>
           open # <<>> /\ Last(open).is = Is(f) /\ Fits(r, b, Front(open))
  <1> DEFINE fr == Append(b, f)
             n == Len(b)
             S == OuterIx(r, fr)
             T == OuterIx(r, b)
             inner == Front(open)
  <1>1. /\ DOMAIN fr = 1..(n + 1) /\ DOMAIN b = 1..n /\ n \in Nat /\ Len(fr) = n + 1
        /\ fr[n + 1] = f /\ \A i \in 1..n : fr[i] = b[i]
        /\ \A i \in 1..n : i \in S <=> i \in T
        /\ \A i \in 0..n : UpTo(i, S) = UpTo(i, T)
        /\ n + 1 \in S
    BY IxMore
  <1>2. S \subseteq DOMAIN fr /\ T \subseteq DOMAIN b
    BY DEF OuterIx
  <1>3. UpTo(n, T) \in Nat /\ \A i \in T : UpTo(i, T) \in 1..UpTo(n, T)
    BY OuterPlaces
  <1>4. Len(open) \in Nat /\ (open = <<>> <=> Len(open) = 0) /\ Last(open) = open[Len(open)]
    BY SeqFacts DEF IsOpen, Last
  <1>5. Fits(r, fr, open) <=> /\ Len(open) = UpTo(n + 1, S)
                              /\ \A i \in S : open[UpTo(i, S)].is = Is(fr[i])
    BY <1>1 DEF Fits
  <1>6. Fits(r, b, inner) <=> /\ Len(inner) = UpTo(n, T)
                              /\ \A i \in T : inner[UpTo(i, T)].is = Is(b[i])
    BY DEF Fits
  <1>7. open # <<>> => Len(inner) = Len(open) - 1 /\ \A k \in 1..(Len(open) - 1) : inner[k] = open[k]
    BY ContainerLeft
  <1> HIDE DEF fr, S, T, inner, n
  <1>8. UpTo(n + 1, S) = UpTo(n, T) + 1
    <2>1. UpTo(n + 1, S) = UpTo(n, S) + 1
      BY <1>1, UpToNext
    <2>2. n \in 0..n
      BY <1>1
    <2> QED
      BY <1>1, <2>1, <2>2
  <1>9. \A i \in T : i \in 1..n /\ i \in 0..n
    BY <1>1, <1>2
  <1>10. \A i \in S : i = n + 1 \/ i \in T
    <2> TAKE i \in S
    <2>1. i \in 1..(n + 1)
      BY <1>1, <1>2
    <2>2. i = n + 1 \/ i \in 1..n
      BY <1>1, <2>1
    <2> QED
      BY <1>1, <2>2
  <1>11. ASSUME Fits(r, fr, open) PROVE open # <<>> /\ Last(open).is = Is(f) /\ Fits(r, b, inner)
    <2>1. Len(open) = UpTo(n, T) + 1 /\ open # <<>>
      BY <1>3, <1>4, <1>5, <1>8, <1>11
    <2>2. Last(open).is = Is(f)
      BY <1>1, <1>4, <1>5, <1>8, <1>11, <2>1
    <2>3. Len(inner) = UpTo(n, T) /\ \A k \in 1..UpTo(n, T) : inner[k] = open[k]
      <3>1. Len(open) - 1 = UpTo(n, T)
        BY <1>3, <2>1
      <3> QED
        BY <1>7, <2>1, <3>1
    <2>4. \A i \in T : inner[UpTo(i, T)].is = Is(b[i])
      <3> TAKE i \in T
      <3>1. i \in S /\ UpTo(i, S) = UpTo(i, T) /\ fr[i] = b[i]
        BY <1>1, <1>9
      <3>2. inner[UpTo(i, T)] = open[UpTo(i, T)]
        BY <1>3, <2>3
      <3> QED
        BY <1>5, <1>11, <3>1, <3>2
    <2> QED
      BY <1>6, <2>1, <2>2, <2>3, <2>4
  <1>12. ASSUME open # <<>>, Last(open).is = Is(f), Fits(r, b, inner) PROVE Fits(r, fr, open)
    <2>1. Len(inner) = UpTo(n, T) /\ Len(open) = UpTo(n, T) + 1 /\ \A k \in 1..UpTo(n, T) : inner[k] = open[k]
      <3>1. Len(inner) = UpTo(n, T) /\ Len(inner) = Len(open) - 1
        BY <1>6, <1>7, <1>12
      <3>2. Len(open) - 1 = UpTo(n, T) /\ Len(open) = UpTo(n, T) + 1
        BY <1>3, <1>4, <3>1
      <3> QED
        BY <1>7, <1>12, <3>1, <3>2
    <2>2. \A i \in S : open[UpTo(i, S)].is = Is(fr[i])
      <3> TAKE i \in S
      <3>1. CASE i = n + 1
        BY <1>1, <1>4, <1>8, <1>12, <2>1, <3>1
      <3>2. CASE i \in T
        <4>1. UpTo(i, S) = UpTo(i, T) /\ fr[i] = b[i] /\ inner[UpTo(i, T)] = open[UpTo(i, T)]
          BY <1>1, <1>3, <1>9, <2>1, <3>2
        <4> QED
          BY <1>6, <1>12, <3>2, <4>1
      <3> QED
        BY <1>10, <3>1, <3>2
    <2> QED
      BY <1>5, <1>8, <2>1, <2>2
  <1> QED
    BY <1>11, <1>12 DEF fr, inner

\* None for a record that has none, or has it in a buffered part.
LEMMA FitsOutside ==
  ASSUME NEW r, NEW b, IsSeq(b), NEW f, ~(Encloses(f) /\ Outer(r, 1 + Tags(b))), NEW open
  PROVE  Fits(r, Append(b, f), open) <=> Fits(r, b, open)
  <1> DEFINE fr == Append(b, f)
             n == Len(b)
             S == OuterIx(r, fr)
             T == OuterIx(r, b)
  <1>1. /\ DOMAIN fr = 1..(n + 1) /\ DOMAIN b = 1..n /\ n \in Nat /\ Len(fr) = n + 1
        /\ \A i \in 1..n : fr[i] = b[i]
        /\ \A i \in 1..n : i \in S <=> i \in T
        /\ \A i \in 0..n : UpTo(i, S) = UpTo(i, T)
        /\ n + 1 \notin S
    BY IxMore
  <1>2. S \subseteq DOMAIN fr /\ T \subseteq DOMAIN b
    BY DEF OuterIx
  <1>3. Fits(r, fr, open) <=> /\ Len(open) = UpTo(n + 1, S)
                              /\ \A i \in S : open[UpTo(i, S)].is = Is(fr[i])
    BY <1>1 DEF Fits
  <1>4. Fits(r, b, open) <=> /\ Len(open) = UpTo(n, T)
                             /\ \A i \in T : open[UpTo(i, T)].is = Is(b[i])
    BY DEF Fits
  <1> HIDE DEF fr, S, T, n
  <1>5. UpTo(n + 1, S) = UpTo(n, T)
    <2>1. UpTo(n + 1, S) = UpTo(n, S) /\ n \in 0..n
      BY <1>1, UpToNext, UpToNat
    <2> QED
      BY <1>1, <2>1
  <1>6. S = T
    <2>1. \A i \in 1..(n + 1) : i \in 1..n \/ i = n + 1
      BY <1>1
    <2> QED
      BY <1>1, <1>2, <2>1
  <1>7. \A i \in T : UpTo(i, S) = UpTo(i, T) /\ fr[i] = b[i]
    BY <1>1, <1>2, <1>6
  <1> QED
    BY <1>3, <1>4, <1>5, <1>6, <1>7 DEF fr

\* The same containers, whatever they have been given.
LEMMA FitsAlike ==
  ASSUME NEW r, NEW b, IsSeq(b), NEW open, NEW o, Fits(r, b, open), Alike(o, open)
  PROVE  Fits(r, b, o)
  <1>1. \A i \in OuterIx(r, b) : UpTo(i, OuterIx(r, b)) \in 1..Len(open)
    BY OuterPlaces DEF Fits
  <1> QED
    BY <1>1 DEF Fits, Alike

\* No record, no container.
LEMMA FitsNone ==
  /\ Tags(<<>>) = 0
  /\ \A r, open : IsOpen(open) => (Fits(r, <<>>, open) <=> open = <<>>)
  <1>1. \A r : OuterIx(r, <<>>) = {}
    BY SeqEmpty, SeqFacts DEF OuterIx
  <1>2. Len(<<>>) = 0
    BY SeqEmpty
  <1> QED
    BY <1>1, <1>2, UpToNone, SeqFacts DEF Fits, Tags, IsOpen

----------------------------------------------------------------------------
(* The sources: the last is read from, and each below it awaits the return *)
(* of the variant the one above is read for.                               *)

DynamicHolds(source, n) ==
  source = DynamicSource(source.stack) /\ IsSeq(source.stack) /\ Len(source.stack) = n

\* Where source k may be read from next, and elsewhere.
ReadyAt(r, k, source, open) ==
  IF Outer(r, k) THEN JsonReady(r.document, source, open) ELSE DynamicHolds(source, 1)

RestsAt(r, k, source, open) ==
  IF Outer(r, k) THEN JsonRests(r.document, source, open) ELSE DynamicHolds(source, 0)

Under(r, below, open) == \A k \in 1..Len(below) : RestsAt(r, k, below[k], open)

\* Records fr, over the sources below and source.
Sourced(fr, below) == IsSeq(below) /\ IsSeq(fr) /\ Len(below) = Tags(fr)

Poised(r, fr, below, source) ==
  /\ Sourced(fr, below)
  /\ \E open : /\ IsOpen(open) /\ Fits(r, fr, open)
               /\ Under(r, below, open) /\ ReadyAt(r, 1 + Tags(fr), source, open)

Rests(r, fr, below, source) ==
  /\ Sourced(fr, below)
  /\ \E open : /\ IsOpen(open) /\ Fits(r, fr, open)
               /\ Under(r, below, open) /\ RestsAt(r, 1 + Tags(fr), source, open)

\* Which kind of source one is.
LEMMA SourceKinds ==
  ASSUME NEW r, NEW k, NEW source, NEW open, ReadyAt(r, k, source, open) \/ RestsAt(r, k, source, open)
  PROVE  /\ source.kind = "json" <=> Outer(r, k)
         /\ source.kind = "dynamic" <=> ~Outer(r, k)
  BY DEF ReadyAt, RestsAt, JsonReady, JsonRests, DynamicHolds, JsonSource, DynamicSource

\* A dynamicSource gives its value up.
LEMMA DynamicTaken ==
  ASSUME NEW source, DynamicHolds(source, 1)
  PROVE  DynamicHolds(Take(source), 0)
  <1> DEFINE stack == source.stack
  <1>1. source = [kind |-> "dynamic", stack |-> stack] /\ IsSeq(stack) /\ Len(stack) = 1
    BY DEF DynamicHolds, DynamicSource
  <1>2. stack # <<>>
    BY <1>1, SeqFacts
  <1>3. IsSeq(Front(stack)) /\ Len(Front(stack)) = 0
    <2> DEFINE t == SubSeq(stack, 1, Len(stack) - 1)
    <2>1. IsSeq(t) /\ Len(t) = Len(stack) - 1
      BY <1>1, <1>2, SeqFront
    <2>2. Len(t) = 0
      BY <1>1, <2>1
    <2> QED
      BY <2>1, <2>2 DEF Front
  <1> HIDE DEF stack
  <1>4. Take(source) = [kind |-> "dynamic", stack |-> Front(stack)]
    BY <1>1 DEF Take
  <1> QED
    BY <1>3, <1>4 DEF DynamicHolds, DynamicSource

\* ReadObject and ReadList hand it one.
LEMMA DynamicHanded ==
  ASSUME NEW source, DynamicHolds(source, 0), NEW e
  PROVE  DynamicHolds(DynamicSource(Append(source.stack, e)), 1)
  <1>1. IsSeq(source.stack) /\ Len(source.stack) = 0
    BY DEF DynamicHolds
  <1>2. IsSeq(Append(source.stack, e)) /\ Len(Append(source.stack, e)) = 1
    BY <1>1, SeqMore
  <1> QED
    BY <1>2 DEF DynamicHolds, DynamicSource

\* A document read by its own records alone.
LEMMA UnderMoved ==
  ASSUME NEW r, NEW below, NEW open, NEW o, Under(r, below, open), IsSeq(below),
         Outer(r, 1 + Len(below)) \/ o = open
  PROVE  Under(r, below, o)
  <1>1. CASE o = open
    BY <1>1
  <1>2. CASE Outer(r, 1 + Len(below))
    <2>1. Len(below) = 0
      BY <1>2, SeqFacts DEF Outer
    <2> QED
      BY <2>1 DEF Under
  <1> QED
    BY <1>1, <1>2

\* A value has been taken, of one token.
LEMMA ValueTaken ==
  ASSUME NEW r, IsRequest(r), NEW fr, NEW below, NEW source, Poised(r, fr, below, source), HasNext(source),
         source.kind = "json" => Ahead(source).t \in {"string", "number", "null"}
  PROVE  Rests(r, fr, below, Take(source))
  <1> DEFINE k == 1 + Tags(fr)
  <1>1. PICK open : /\ IsOpen(open) /\ Fits(r, fr, open) /\ Under(r, below, open)
                    /\ ReadyAt(r, k, source, open)
    BY DEF Poised
  <1>2. Sourced(fr, below) /\ IsSeq(fr) /\ IsSeq(below) /\ k = 1 + Len(below)
    BY DEF Poised, Sourced
  <1> HIDE DEF k
  <1>3. CASE Outer(r, k)
    <2> DEFINE o == AfterValue(open)
    <2>1. source.kind = "json" /\ JsonReady(r.document, source, open) /\ IsSeq(r.document)
      BY <1>1, <1>3, SourceKinds DEF ReadyAt, IsRequest, Outer
    <2>2. JsonRests(r.document, Take(source), o)
      BY <2>1, JsonTaken
    <2>3. IsOpen(o) /\ Alike(o, open)
      BY <1>1, ValueGiven
    <2>4. Fits(r, fr, o) /\ Under(r, below, o)
      BY <1>1, <1>2, <1>3, <2>3, FitsAlike, UnderMoved
    <2> QED
      BY <1>2, <1>3, <2>2, <2>3, <2>4 DEF Rests, RestsAt, k
  <1>4. CASE ~Outer(r, k)
    <2>1. DynamicHolds(Take(source), 0)
      BY <1>1, <1>4, DynamicTaken DEF ReadyAt
    <2> QED
      BY <1>1, <1>2, <1>4, <2>1 DEF Rests, RestsAt, k
  <1> QED
    BY <1>3, <1>4

\* A value has been skipped.
LEMMA ValueSkipped ==
  ASSUME NEW r, IsRequest(r), NEW fr, NEW below, NEW source, Poised(r, fr, below, source), HasWhole(source)
  PROVE  Rests(r, fr, below, Skip(source))
  <1> DEFINE k == 1 + Tags(fr)
  <1>1. PICK open : /\ IsOpen(open) /\ Fits(r, fr, open) /\ Under(r, below, open)
                    /\ ReadyAt(r, k, source, open)
    BY DEF Poised
  <1>2. Sourced(fr, below) /\ IsSeq(fr) /\ IsSeq(below) /\ k = 1 + Len(below)
    BY DEF Poised, Sourced
  <1> HIDE DEF k
  <1>3. CASE Outer(r, k)
    <2> DEFINE o == AfterValue(open)
    <2>1. JsonReady(r.document, source, open) /\ IsSeq(r.document)
      BY <1>1, <1>3 DEF ReadyAt, IsRequest, Outer
    <2>2. JsonRests(r.document, Skip(source), o)
      BY <2>1, JsonSkipped
    <2>3. IsOpen(o) /\ Alike(o, open)
      BY <1>1, ValueGiven
    <2>4. Fits(r, fr, o) /\ Under(r, below, o)
      BY <1>1, <1>2, <1>3, <2>3, FitsAlike, UnderMoved
    <2> QED
      BY <1>2, <1>3, <2>2, <2>3, <2>4 DEF Rests, RestsAt, k
  <1>4. CASE ~Outer(r, k)
    <2>1. DynamicHolds(Take(source), 0)
      BY <1>1, <1>4, DynamicTaken DEF ReadyAt
    <2>2. Skip(source) = Take(source)
      BY <1>1, <1>4, SourceKinds DEF Skip
    <2> QED
      BY <1>1, <1>2, <1>4, <2>1, <2>2 DEF Rests, RestsAt, k
  <1> QED
    BY <1>3, <1>4

\* A member's name has been read, and its value is next.
LEMMA MemberNext ==
  ASSUME NEW r, IsRequest(r), NEW b, IsSeq(b), NEW f, f.begun, Kind(f) \in ObjectLike,
         NEW below, NEW source, Rests(r, Append(b, f), below, source),
         source.kind = "json" => HasNext(source) /\ Ahead(source).t = "string", NEW e
  PROVE  Poised(r, Append(b, f), below,
                IF source.kind = "json" THEN Take(source) ELSE DynamicSource(Append(source.stack, e)))
  <1> DEFINE fr == Append(b, f)
             k == 1 + Tags(fr)
  <1>1. PICK open : /\ IsOpen(open) /\ Fits(r, fr, open) /\ Under(r, below, open)
                    /\ RestsAt(r, k, source, open)
    BY DEF Rests
  <1>2. Sourced(fr, below) /\ IsSeq(fr) /\ IsSeq(below) /\ k = 1 + Len(below)
    BY DEF Rests, Sourced
  <1>3. Tags(fr) = Tags(b) /\ Encloses(f) /\ Is(f) = "Object"
    BY TagsMore DEF IsTagged, Encloses, Is, ObjectLike
  <1> HIDE DEF k
  <1>4. CASE Outer(r, k)
    <2> DEFINE o == Awaiting(open)
    <2>1. open # <<>> /\ Last(open).is = "Object"
      BY <1>1, <1>3, <1>4, FitsInside DEF k
    <2>2. source.kind = "json" /\ JsonRests(r.document, source, open) /\ IsSeq(r.document)
      BY <1>1, <1>4, SourceKinds DEF RestsAt, IsRequest, Outer
    <2>3. JsonReady(r.document, Take(source), o)
      BY <2>1, <2>2, JsonNamed
    <2>4. IsOpen(o) /\ Alike(o, open)
      BY <1>1, <2>1, NameGiven
    <2>5. Fits(r, fr, o) /\ Under(r, below, o)
      BY <1>1, <1>2, <1>4, <2>4, FitsAlike, UnderMoved
    <2> QED
      BY <1>2, <1>4, <2>2, <2>3, <2>4, <2>5 DEF Poised, ReadyAt, k
  <1>5. CASE ~Outer(r, k)
    <2>1. DynamicHolds(DynamicSource(Append(source.stack, e)), 1) /\ source.kind # "json"
      BY <1>1, <1>5, DynamicHanded, SourceKinds DEF RestsAt
    <2> QED
      BY <1>1, <1>2, <1>5, <2>1 DEF Poised, ReadyAt, k
  <1> QED
    BY <1>4, <1>5

\* A list's next element.
LEMMA ElementNext ==
  ASSUME NEW r, IsRequest(r), NEW b, IsSeq(b), NEW f, f.begun, Kind(f) = "list",
         NEW below, NEW source, Rests(r, Append(b, f), below, source), NEW e
  PROVE  Poised(r, Append(b, f), below,
                IF source.kind = "json" THEN source ELSE DynamicSource(Append(source.stack, e)))
  <1> DEFINE fr == Append(b, f)
             k == 1 + Tags(fr)
  <1>1. PICK open : /\ IsOpen(open) /\ Fits(r, fr, open) /\ Under(r, below, open)
                    /\ RestsAt(r, k, source, open)
    BY DEF Rests
  <1>2. Sourced(fr, below)
    BY DEF Rests
  <1>3. Tags(fr) = Tags(b) /\ Encloses(f) /\ Is(f) = "List"
    BY TagsMore DEF IsTagged, Encloses, Is
  <1> HIDE DEF k
  <1>4. CASE Outer(r, k)
    <2>1. open # <<>> /\ Last(open).is = "List"
      BY <1>1, <1>3, <1>4, FitsInside DEF k
    <2>2. source.kind = "json" /\ JsonReady(r.document, source, open)
      BY <1>1, <1>4, <2>1, JsonElement, SourceKinds DEF RestsAt
    <2> QED
      BY <1>1, <1>2, <1>4, <2>2 DEF Poised, ReadyAt, k
  <1>5. CASE ~Outer(r, k)
    <2>1. DynamicHolds(DynamicSource(Append(source.stack, e)), 1) /\ source.kind # "json"
      BY <1>1, <1>5, DynamicHanded, SourceKinds DEF RestsAt
    <2> QED
      BY <1>1, <1>2, <1>5, <2>1 DEF Poised, ReadyAt, k
  <1> QED
    BY <1>4, <1>5

\* A container has begun.
LEMMA ContainerBegun ==
  ASSUME NEW r, IsRequest(r), NEW b, IsSeq(b), NEW f, Encloses(f),
         NEW below, NEW source, Poised(r, b, below, source), Begins(source, Is(f))
  PROVE  Rests(r, Append(b, f), below, Take(source))
  <1> DEFINE fr == Append(b, f)
             k == 1 + Tags(b)
  <1>1. PICK open : /\ IsOpen(open) /\ Fits(r, b, open) /\ Under(r, below, open)
                    /\ ReadyAt(r, k, source, open)
    BY DEF Poised
  <1>2. Sourced(b, below) /\ IsSeq(below) /\ k = 1 + Len(below) /\ IsSeq(fr) /\ Tags(fr) = Tags(b)
    BY TagsMore, SeqMore DEF Poised, Sourced, IsTagged, Encloses, ObjectLike
  <1>3. Sourced(fr, below) /\ k = 1 + Tags(fr)
    BY <1>2 DEF Sourced
  <1>4. HasNext(source) /\ Is(f) \in Both
    BY DEF Begins, Is, Both
  <1> HIDE DEF k, fr
  <1>5. CASE Outer(r, k)
    <2> DEFINE o == Append(open, Entered(Is(f)))
    <2>1. /\ source.kind = "json" /\ source.kind # "dynamic"
          /\ JsonReady(r.document, source, open) /\ IsSeq(r.document)
      BY <1>1, <1>5, SourceKinds DEF ReadyAt, IsRequest, Outer
    <2>2. Ahead(source) = IF Is(f) = "Object" THEN OpenObject ELSE OpenList
      BY <2>1 DEF Begins
    <2>3. JsonRests(r.document, Take(source), o)
      BY <1>4, <2>1, <2>2, JsonEntered
    <2>4. IsOpen(o) /\ o # <<>> /\ Last(o) = Entered(Is(f)) /\ Front(o) = open
      BY <1>1, <1>4, ContainerEntered
    <2>5. Last(o).is = Is(f)
      BY <2>4 DEF Entered
    <2> HIDE DEF o
    <2>6. Fits(r, fr, o)
      BY <1>1, <1>5, <2>4, <2>5, FitsInside DEF fr, k
    <2>7. Under(r, below, o)
      BY <1>1, <1>2, <1>5, UnderMoved
    <2> QED
      BY <1>3, <1>5, <2>3, <2>4, <2>6, <2>7 DEF Rests, RestsAt, fr
  <1>6. CASE ~Outer(r, k)
    <2>1. DynamicHolds(Take(source), 0)
      BY <1>1, <1>6, DynamicTaken DEF ReadyAt
    <2>2. Fits(r, fr, open)
      BY <1>1, <1>6, FitsOutside DEF fr, k
    <2> QED
      BY <1>1, <1>3, <1>6, <2>1, <2>2 DEF Rests, RestsAt, fr
  <1> QED
    BY <1>5, <1>6

\* A container has ended.
LEMMA ContainerEnded ==
  ASSUME NEW r, IsRequest(r), NEW b, IsSeq(b), NEW f, Encloses(f),
         NEW below, NEW source, Rests(r, Append(b, f), below, source),
         source.kind = "json" => HasNext(source) /\ Ahead(source) \in Closing
  PROVE  Rests(r, b, below, IF source.kind = "json" THEN Take(source) ELSE source)
  <1> DEFINE fr == Append(b, f)
             k == 1 + Tags(b)
  <1>1. Sourced(fr, below) /\ IsSeq(below) /\ Tags(fr) = Tags(b)
    BY TagsMore DEF Rests, Sourced, IsTagged, Encloses, ObjectLike
  <1>2. Sourced(b, below) /\ k = 1 + Len(below) /\ k = 1 + Tags(fr)
    BY <1>1 DEF Sourced
  <1>3. PICK open : /\ IsOpen(open) /\ Fits(r, fr, open) /\ Under(r, below, open)
                    /\ RestsAt(r, k, source, open)
    BY <1>2 DEF Rests
  <1> HIDE DEF k, fr
  <1>4. CASE Outer(r, k)
    <2> DEFINE inner == Front(open)
               o == AfterValue(inner)
    <2>1. open # <<>> /\ Fits(r, b, inner)
      BY <1>3, <1>4, FitsInside DEF fr, k
    <2>2. source.kind = "json" /\ JsonRests(r.document, source, open) /\ IsSeq(r.document)
      BY <1>3, <1>4, SourceKinds DEF RestsAt, IsRequest, Outer
    <2>3. JsonRests(r.document, Take(source), o)
      BY <2>1, <2>2, JsonLeft
    <2>4. IsOpen(inner)
      BY <1>3, <2>1, ContainerLeft
    <2> HIDE DEF inner
    <2>5. IsOpen(o) /\ Alike(o, inner)
      BY <2>4, ValueGiven
    <2>6. Fits(r, b, o)
      BY <2>1, <2>5, FitsAlike
    <2>7. Under(r, below, o)
      BY <1>1, <1>2, <1>3, <1>4, UnderMoved
    <2> QED
      BY <1>2, <1>4, <2>2, <2>3, <2>5, <2>6, <2>7 DEF Rests, RestsAt, k
  <1>5. CASE ~Outer(r, k)
    <2>1. source.kind # "json"
      BY <1>3, <1>5, SourceKinds
    <2>2. Fits(r, b, open)
      BY <1>3, <1>5, FitsOutside DEF fr, k
    <2> QED
      BY <1>2, <1>3, <2>1, <2>2 DEF Rests, k
  <1> QED
    BY <1>4, <1>5

\* A record with neither a container nor a source of its own.
LEMMA RecordOver ==
  ASSUME NEW r, NEW b, IsSeq(b), NEW f, ~Encloses(f), ~IsTagged(f), NEW below, NEW source
  PROVE  /\ Poised(r, Append(b, f), below, source) <=> Poised(r, b, below, source)
         /\ Rests(r, Append(b, f), below, source) <=> Rests(r, b, below, source)
  <1> DEFINE fr == Append(b, f)
  <1>1. Tags(fr) = Tags(b) /\ IsSeq(fr)
    BY TagsMore, SeqMore
  <1>2. \A open : Fits(r, fr, open) <=> Fits(r, b, open)
    BY FitsOutside
  <1> HIDE DEF fr
  <1>3. Sourced(fr, below) <=> Sourced(b, below)
    BY <1>1 DEF Sourced
  <1> QED
    BY <1>1, <1>2, <1>3 DEF Poised, Rests, fr

\* A record that has read more of its container.
LEMMA RecordKept ==
  ASSUME NEW r, NEW b, IsSeq(b), NEW f, NEW g, g.shape = f.shape, g.begun = f.begun, NEW below, NEW source
  PROVE  /\ Poised(r, Append(b, f), below, source) => Poised(r, Append(b, g), below, source)
         /\ Rests(r, Append(b, f), below, source) => Rests(r, Append(b, g), below, source)
  <1> DEFINE fr == Append(b, f)
             gr == Append(b, g)
  <1>1. /\ Encloses(g) <=> Encloses(f)
        /\ IsTagged(g) <=> IsTagged(f)
        /\ Is(g) = Is(f)
    BY DEF Encloses, IsTagged, Is, Kind
  <1>2. Tags(gr) = Tags(fr) /\ IsSeq(gr) /\ IsSeq(fr)
    BY <1>1, TagsMore, SeqMore
  <1>3. \A open : IsOpen(open) => (Fits(r, gr, open) <=> Fits(r, fr, open))
    <2> TAKE open
    <2> HAVE IsOpen(open)
    <2>1. CASE Encloses(f) /\ Outer(r, 1 + Tags(b))
      BY <1>1, <2>1, FitsInside
    <2>2. CASE ~(Encloses(f) /\ Outer(r, 1 + Tags(b)))
      BY <1>1, <2>2, FitsOutside
    <2> QED
      BY <2>1, <2>2
  <1> HIDE DEF fr, gr
  <1>4. Sourced(gr, below) <=> Sourced(fr, below)
    BY <1>2 DEF Sourced
  <1> QED
    BY <1>2, <1>3, <1>4 DEF Poised, Rests, fr, gr

\* A tagged union has buffered its object, and its variant is next.
LEMMA VariantNext ==
  ASSUME NEW r, NEW b, IsSeq(b), NEW f, IsTagged(f), NEW below, NEW source, Rests(r, b, below, source), NEW d
  PROVE  Poised(r, Append(b, f), Append(below, source), DynamicSource(<<d>>))
  <1> DEFINE fr == Append(b, f)
             both == Append(below, source)
             n == Len(below)
  <1>1. Sourced(b, below) /\ IsSeq(below) /\ n = Tags(b) /\ n \in Nat
    BY SeqFacts DEF Rests, Sourced
  <1>2. Tags(fr) = n + 1 /\ IsSeq(fr)
    BY <1>1, TagsMore, SeqMore
  <1>3. IsSeq(both) /\ Len(both) = n + 1 /\ (\A k \in 1..n : both[k] = below[k]) /\ both[n + 1] = source
    BY <1>1, SeqMore
  <1>4. PICK open : /\ IsOpen(open) /\ Fits(r, b, open) /\ Under(r, below, open)
                    /\ RestsAt(r, 1 + n, source, open)
    BY <1>1 DEF Rests
  <1>5. ~Encloses(f)
    BY DEF IsTagged, Encloses, ObjectLike
  <1>6. Fits(r, fr, open)
    BY <1>4, <1>5, FitsOutside
  <1>7. DynamicHolds(DynamicSource(<<d>>), 1)
    BY SeqOne DEF DynamicHolds, DynamicSource
  <1>8. \A k \in 1..n : RestsAt(r, k, below[k], open)
    BY <1>4 DEF Under
  <1> HIDE DEF fr, both, n
  <1>9. Sourced(fr, both)
    BY <1>2, <1>3 DEF Sourced
  <1>10. Under(r, both, open)
    <2>1. \A k \in 1..(n + 1) : k \in 1..n \/ k = 1 + n
      BY <1>1
    <2>2. 1 + n = n + 1
      BY <1>1
    <2> QED
      BY <1>3, <1>4, <1>8, <2>1, <2>2 DEF Under
  <1>11. ReadyAt(r, 1 + Tags(fr), DynamicSource(<<d>>), open)
    <2>1. 1 + Tags(fr) # 1
      BY <1>1, <1>2
    <2> QED
      BY <1>7, <2>1 DEF ReadyAt, Outer
  <1> QED
    BY <1>4, <1>6, <1>9, <1>10, <1>11 DEF Poised, fr, both

\* The variant has returned.
LEMMA VariantRead ==
  ASSUME NEW r, NEW b, IsSeq(b), NEW f, IsTagged(f), NEW below, NEW source, Rests(r, Append(b, f), below, source)
  PROVE  below # <<>> /\ Rests(r, b, Front(below), Last(below))
  <1> DEFINE fr == Append(b, f)
             n == Tags(b)
             lower == Front(below)
  <1>1. IsSeq(below) /\ Len(below) = n + 1 /\ n \in Nat
    BY TagsMore DEF Rests, Sourced
  <1>2. below # <<>>
    BY <1>1, SeqFacts
  <1>3. IsSeq(lower) /\ Len(below) = Len(lower) + 1 /\ Len(lower) \in Nat
        /\ \A k \in 1..(Len(below) - 1) : lower[k] = below[k]
    <2>1. IsSeq(lower) /\ Len(below) = Len(lower) + 1
      BY <1>1, <1>2, SeqSplit
    <2>2. Len(lower) \in Nat
      BY <2>1, SeqFacts
    <2> QED
      BY <1>1, <1>2, <2>1, <2>2, SeqFront DEF Front
  <1>4. PICK open : IsOpen(open) /\ Fits(r, fr, open) /\ Under(r, below, open)
    BY DEF Rests
  <1>5. ~Encloses(f)
    BY DEF IsTagged, Encloses, ObjectLike
  <1>6. Fits(r, b, open)
    BY <1>4, <1>5, FitsOutside
  <1>7. \A k \in 1..(n + 1) : RestsAt(r, k, below[k], open)
    BY <1>1, <1>4 DEF Under
  <1>8. Last(below) = below[n + 1]
    BY <1>1 DEF Last
  <1> HIDE DEF fr, n, lower
  <1>9. Len(lower) = n /\ Sourced(b, lower)
    <2>1. Len(lower) = n
      BY <1>1, <1>3
    <2> QED
      BY <1>3, <2>1 DEF Sourced, n
  <1>10. Under(r, lower, open)
    <2>1. \A k \in 1..n : k \in 1..(n + 1) /\ k \in 1..(Len(below) - 1)
      BY <1>1
    <2> QED
      BY <1>3, <1>7, <1>9, <2>1 DEF Under
  <1>11. RestsAt(r, 1 + n, Last(below), open)
    <2>1. n + 1 \in 1..(n + 1) /\ 1 + n = n + 1
      BY <1>1
    <2> QED
      BY <1>7, <1>8, <2>1
  <1> QED
    BY <1>2, <1>4, <1>6, <1>9, <1>10, <1>11 DEF Rests, n, lower

----------------------------------------------------------------------------
(* What a record keeps. *)

HasFields(f) ==
  f \in [shape : DOMAIN Shape, begun : BOOLEAN, label : {f.label}, members : {f.members},
         names : {f.names}, acc : {f.acc}, seen : {f.seen}]

IsRecord(r, f) ==
  /\ HasFields(f) /\ Len(f.label) \in {0, 1}
  /\ IF f.begun THEN Kind(f) = "object" => /\ DOMAIN f.acc = DOMAIN Fields(f)
                                           /\ ~SpellingFault(Fields(f), r.strategy)
     ELSE f.seen = {}

\* A value was read of each required field a member was seen of ...
Kept(r, f, i) ==
  \/ Fields(f)[i].optional \/ SpelledName(Fields(f), r.strategy, i) \notin f.seen
  \/ f.acc[i] # <<>>

ReadAll(r, f) ==
  f.begun /\ Kind(f) = "object" => \A i \in DOMAIN Fields(f) : Kept(r, f, i)

\* ... but for the one that is being read.
ReadBut(r, f) ==
  Kind(f) = "object" =>
    \A i \in DOMAIN Fields(f) :
      Kept(r, f, i) \/ f.label = Label("object", SpelledName(Fields(f), r.strategy, i))

\* Each record has called the one above it, and the last has called or is called.
Settled(r, fr) ==
  IsSeq(fr) /\ \A i \in 1..Len(fr) : IsRecord(r, fr[i]) /\ fr[i].begun /\ ReadBut(r, fr[i])

\* The last runs.
Calls(r, fr) ==
  /\ IsSeq(fr) /\ fr # <<>> /\ Settled(r, Front(fr))
  /\ IsRecord(r, Last(fr)) /\ ReadAll(r, Last(fr))

\* One record more that has called.
LEMMA SettledMore ==
  ASSUME NEW r, NEW b, IsSeq(b), NEW f
  PROVE  Settled(r, Append(b, f)) <=> Settled(r, b) /\ IsRecord(r, f) /\ f.begun /\ ReadBut(r, f)
  <1> DEFINE fr == Append(b, f)
             n == Len(b)
  <1>1. /\ IsSeq(fr) /\ Len(fr) = n + 1 /\ n \in Nat
        /\ (\A i \in 1..n : fr[i] = b[i]) /\ fr[n + 1] = f
    BY SeqMore
  <1> HIDE DEF fr, n
  <1>2. 1..(n + 1) = (1..n) \cup {n + 1}
    BY <1>1
  <1> QED
    BY <1>1, <1>2 DEF Settled, fr, n

\* One that runs.
LEMMA CallsMore ==
  ASSUME NEW r, NEW b, IsSeq(b), NEW f
  PROVE  Calls(r, Append(b, f)) <=> Settled(r, b) /\ IsRecord(r, f) /\ ReadAll(r, f)
  <1>1. /\ IsSeq(Append(b, f)) /\ Append(b, f) # <<>>
        /\ Front(Append(b, f)) = b /\ Last(Append(b, f)) = f
    BY SeqMore
  <1> QED
    BY <1>1 DEF Calls

\* A record that reads nothing new is as before.
LEMMA RecordSame ==
  ASSUME NEW r, NEW f, IsRecord(r, f), NEW g, HasFields(g), g.shape = f.shape, g.begun = f.begun,
         g.acc = f.acc, g.seen = f.seen, Len(g.label) \in {0, 1}
  PROVE  /\ IsRecord(r, g) /\ Kind(g) = Kind(f) /\ Fields(g) = Fields(f)
         /\ ReadAll(r, f) => ReadAll(r, g)
  <1>1. Kind(g) = Kind(f) /\ Fields(g) = Fields(f)
    BY DEF Kind, Fields
  <1>2. \A i : Kept(r, f, i) <=> Kept(r, g, i)
    BY <1>1 DEF Kept
  <1>3. IsRecord(r, g)
    BY <1>1 DEF IsRecord
  <1>4. ReadAll(r, f) => ReadAll(r, g)
    BY <1>1, <1>2 DEF ReadAll
  <1> QED
    BY <1>1, <1>3, <1>4

\* A record of anything but an object.
LEMMA RecordOther ==
  ASSUME NEW r, NEW f, IsRecord(r, f), NEW g, HasFields(g), g.shape = f.shape, g.begun = TRUE,
         Kind(f) # "object", Len(g.label) \in {0, 1}
  PROVE  IsRecord(r, g) /\ ReadAll(r, g) /\ ReadBut(r, g) /\ Kind(g) = Kind(f)
  <1>1. Kind(g) = Kind(f)
    BY DEF Kind
  <1> QED
    BY <1>1 DEF IsRecord, ReadAll, ReadBut

\* A label has one part.
LEMMA LabelOne ==
  ASSUME NEW in, NEW part
  PROVE  Len(Label(in, part)) = 1 /\ Label(in, part)[1].part = part
  <1>1. /\ IsSeq(<<part>>) /\ Len(<<part>>) = 1 /\ <<part>>[1] = part /\ DOMAIN <<part>> = 1..1
    BY SeqOne, SeqFacts
  <1> DEFINE l == [i \in DOMAIN <<part>> |-> [in |-> in, part |-> <<part>>[i]]]
  <1>2. DOMAIN l = 1..1 /\ l = [i \in 1..1 |-> l[i]] /\ l[1].part = part
    BY <1>1
  <1>3. Label(in, part) = l
    BY DEF Label, Labels
  <1> HIDE DEF l
  <1>4. Len(l) = 1
    BY <1>2, SeqMake
  <1> QED
    BY <1>2, <1>3, <1>4

\* A record as it is made.
LEMMA FrameIs ==
  ASSUME NEW r, NEW s \in DOMAIN Shape
  PROVE  /\ IsRecord(r, Frame(s)) /\ ReadAll(r, Frame(s)) /\ ~Frame(s).begun
         /\ ~Encloses(Frame(s)) /\ ~IsTagged(Frame(s))
  <1>1. HasFields(Frame(s)) /\ Frame(s).label = <<>> /\ Frame(s).seen = {} /\ Frame(s).begun = FALSE
    BY DEF HasFields, Frame
  <1>2. Len(<<>>) = 0
    BY SeqEmpty
  <1> QED
    BY <1>1, <1>2 DEF IsRecord, ReadAll, Encloses, IsTagged

\* The field a name is of.
LEMMA FieldNamed ==
  ASSUME NEW fields, Listed(fields), NEW s, ~SpellingFault(fields, s), NEW i \in DOMAIN fields
  PROVE  ByName(fields, s, SpelledName(fields, s, i)) = i
  <1> DEFINE n == SpelledName(fields, s, i)
  <1>1. \A j \in DOMAIN fields : j \in Nat
    BY DEF Listed
  <1>2. \A j \in DOMAIN fields : SpelledName(fields, s, j) = n => j = i
    BY <1>1 DEF SpellingFault
  <1>3. \A j \in DOMAIN fields : SpelledName(fields, s, j) = n => j <= i
    BY <1>1, <1>2
  <1> HIDE DEF n
  <1>4. ByName(fields, s, n) = i
    <2>1. i \in DOMAIN fields /\ SpelledName(fields, s, i) = n
      BY DEF n
    <2> QED
      BY <1>2, <1>3, <2>1 DEF ByName
  <1> QED
    BY <1>4 DEF n

\* The shapes a shape is made of.
LEMMA PartShapes ==
  ASSUME NEW s \in DOMAIN Shape
  PROVE  /\ Shape[s].kind \in Wrappers \cup {"list", "map"} => Shape[s].of \in DOMAIN Shape
         /\ Shape[s].kind = "object" => /\ Listed(Shape[s].fields)
                                        /\ \A i \in DOMAIN Shape[s].fields : Shape[s].fields[i].of \in DOMAIN Shape
         /\ Shape[s].kind \in {"union", "tagged"} =>
              \A i \in DOMAIN Shape[s].variants : Shape[s].variants[i].of \in DOMAIN Shape
  <1> DEFINE shape == Shape[s]
  <1>1. shape.kind \in {"list", "map", "nullable", "refined"} => Usable(shape.of)
    BY ShapeAssumption
  <1>2. shape.kind = "suspend" => shape.of \in DOMAIN Shape
    BY ShapeAssumption
  <1>3. shape.kind = "object" => Listed(shape.fields) /\ FieldsSound(shape.fields)
    BY ShapeAssumption
  <1>4. shape.kind \in {"union", "tagged"} => VariantsSound(shape.variants)
    BY ShapeAssumption
  <1> QED
    BY <1>1, <1>2, <1>3, <1>4 DEF Usable, AllUsable, FieldsSound, VariantsSound, Wrappers

----------------------------------------------------------------------------
(* The inductive invariant *)

\* What a call has returned, or failed with.
One(s) == s = <<>> \/ \E v : s = <<v>>

\* A call runs: the sources stand where the records stand.
Running ==
  /\ Calls(request, frames)
  /\ IF Top.begun THEN Rests(request, frames, Front(sources), Current)
     ELSE Poised(request, frames, Front(sources), Current)

\* A call has returned: each record that is left awaits one.
Returning == Settled(request, frames) /\ Rests(request, frames, Front(sources), Current)

IInv ==
  /\ request \in Requests /\ One(returned) /\ One(failure)
  /\ IsSeq(sources) /\ Len(sources) = 1 + Tags(frames) /\ sources # <<>>
  /\ IF failure # <<>> THEN returned = <<>> /\ Settled(request, frames)
     ELSE IF returned # <<>> THEN Returning ELSE Running

\* The document of a request is a sequence.
LEMMA RequestIs ==
  ASSUME NEW r \in Requests
  PROVE  IsRequest(r) /\ r.shape \in DOMAIN Shape
  BY RequestAssumption DEF IsRequest, IsSeq

\* A record of no value but one.
LEMMA OneIs == \A v : One(<<v>>) /\ <<v>> # <<>> /\ <<v>>[1] = v
  <1> TAKE v
  <1>1. IsSeq(<<v>>) /\ Len(<<v>>) = 1 /\ <<v>>[1] = v
    BY SeqOne
  <1>2. <<v>> # <<>>
    BY <1>1, SeqFacts
  <1> QED
    BY <1>1, <1>2 DEF One

\* The sources, put together.
LEMMA SourcesAre ==
  ASSUME NEW fr, NEW below, NEW source, Sourced(fr, below), NEW src, src = Append(below, source)
  PROVE  /\ IsSeq(src) /\ src # <<>> /\ Len(src) = 1 + Tags(fr)
         /\ Front(src) = below /\ Last(src) = source
  <1>1. IsSeq(below) /\ Len(below) = Tags(fr)
    BY DEF Sourced
  <1>2. /\ IsSeq(src) /\ src # <<>> /\ Front(src) = below /\ Last(src) = source
        /\ Len(src) = Len(below) + 1 /\ Len(below) \in Nat
    BY <1>1, SeqMore
  <1> QED
    BY <1>1, <1>2

\* Return.
LEMMA IReturned ==
  ASSUME request \in Requests, request' = request, NEW b, Settled(request, b), frames' = b,
         NEW v, returned' = <<v>>, failure' = <<>>,
         NEW below, NEW source, Rests(request, b, below, source), sources' = Append(below, source)
  PROVE  IInv'
  <1>1. /\ IsSeq(sources') /\ sources' # <<>> /\ Len(sources') = 1 + Tags(frames')
        /\ Front(sources') = below /\ Last(sources') = source
    BY SourcesAre DEF Rests
  <1>2. One(returned') /\ One(failure') /\ returned' # <<>>
    BY OneIs DEF One
  <1>3. Returning'
    BY <1>1 DEF Returning, Current
  <1> QED
    BY <1>1, <1>2, <1>3 DEF IInv

\* Fail.
LEMMA IFailed ==
  ASSUME request \in Requests, request' = request, NEW b, Settled(request, b), frames' = b,
         NEW path, returned' = <<>>, failure' = <<path>>,
         IsSeq(sources'), sources' # <<>>, Len(sources') = 1 + Tags(b)
  PROVE  IInv'
  <1>1. One(returned') /\ One(failure') /\ failure' # <<>>
    BY OneIs DEF One
  <1> QED
    BY <1>1 DEF IInv

\* Go.
LEMMA IGoes ==
  ASSUME request \in Requests, request' = request, NEW b, IsSeq(b), NEW f, Settled(request, b),
         IsRecord(request, f), f.begun, ReadAll(request, f), frames' = Append(b, f),
         returned' = <<>>, failure' = <<>>,
         NEW below, NEW source, Rests(request, Append(b, f), below, source), sources' = Append(below, source)
  PROVE  IInv'
  <1>1. /\ IsSeq(sources') /\ sources' # <<>> /\ Len(sources') = 1 + Tags(frames')
        /\ Front(sources') = below /\ Last(sources') = source
    BY SourcesAre DEF Rests
  <1>2. One(returned') /\ One(failure')
    BY DEF One
  <1>3. Calls(request', frames') /\ Last(frames') = f
    BY CallsMore, SeqMore
  <1>4. Running'
    BY <1>1, <1>3 DEF Running, Current, Top
  <1> QED
    BY <1>1, <1>2, <1>4 DEF IInv

\* Enter.
LEMMA ICalls ==
  ASSUME request \in Requests, request' = request, NEW b, IsSeq(b), NEW f, Settled(request, b),
         IsRecord(request, f), f.begun, ReadBut(request, f), NEW s \in DOMAIN Shape,
         frames' = Append(Append(b, f), Frame(s)), returned' = <<>>, failure' = <<>>,
         NEW below, NEW source, Poised(request, Append(b, f), below, source),
         sources' = Append(below, source)
  PROVE  IInv'
  <1> DEFINE c == Append(b, f)
             fr == Append(c, Frame(s))
  <1>1. Settled(request, c) /\ IsSeq(c)
    BY SettledMore, SeqMore
  <1>2. /\ IsRecord(request, Frame(s)) /\ ReadAll(request, Frame(s)) /\ ~Frame(s).begun
        /\ ~Encloses(Frame(s)) /\ ~IsTagged(Frame(s))
    BY FrameIs
  <1> HIDE DEF c
  <1>3. Calls(request, fr) /\ Last(fr) = Frame(s)
    BY <1>1, <1>2, CallsMore, SeqMore
  <1>4. Poised(request, fr, below, source)
    <2>1. Poised(request, c, below, source)
      BY DEF c
    <2> QED
      BY <1>1, <1>2, <2>1, RecordOver
  <1>5. frames' = fr
    BY DEF c
  <1> HIDE DEF fr
  <1>6. /\ IsSeq(sources') /\ sources' # <<>> /\ Len(sources') = 1 + Tags(frames')
        /\ Front(sources') = below /\ Last(sources') = source
    <2>1. Sourced(fr, below)
      BY <1>4 DEF Poised
    <2>2. sources' = Append(below, source)
      OBVIOUS
    <2> QED
      BY <1>5, <2>1, <2>2, SourcesAre
  <1>7. One(returned') /\ One(failure')
    BY DEF One
  <1>8. Running'
    BY <1>2, <1>3, <1>4, <1>5, <1>6 DEF Running, Current, Top
  <1> QED
    BY <1>6, <1>7, <1>8 DEF IInv

\* What holds where a step begins.
LEMMA Now ==
  ASSUME IInv, frames # <<>>
  PROVE  LET b == Front(frames)
             below == Front(sources)
         IN  /\ request \in Requests /\ IsRequest(request)
             /\ IsSeq(b) /\ frames = Append(b, Top) /\ Settled(request, b) /\ IsRecord(request, Top)
             /\ \A g : [frames EXCEPT ![Len(frames)] = g] = Append(b, g)
             /\ sources = Append(below, Current) /\ IsSeq(below) /\ IsSeq(sources) /\ sources # <<>>
             /\ \A x : /\ [sources EXCEPT ![Len(sources)] = x] = Append(below, x)
                       /\ IsSeq(Append(below, x)) /\ Append(below, x) # <<>>
                       /\ Len(Append(below, x)) = Len(sources)
             /\ ~IsTagged(Top) => Len(sources) = 1 + Tags(b)
             /\ Calling /\ ~Top.begun => Poised(request, b, below, Current)
             /\ Calling /\ Top.begun => ReadAll(request, Top) /\ Rests(request, Append(b, Top), below, Current)
             /\ Active /\ returned # <<>> => /\ Top.begun /\ ReadBut(request, Top)
                                             /\ Rests(request, Append(b, Top), below, Current)
             /\ failure # <<>> => Top.begun
             /\ Active => failure = <<>>
  <1> DEFINE b == Front(frames)
             below == Front(sources)
  <1>1. request \in Requests /\ IsRequest(request)
    BY RequestIs DEF IInv
  <1>2. \/ Settled(request, frames)
        \/ Calls(request, frames)
    BY DEF IInv, Returning, Running
  <1>3. IsSeq(frames)
    BY <1>2 DEF Settled, Calls
  <1>4. /\ IsSeq(b) /\ frames = Append(b, Top)
        /\ \A g : [frames EXCEPT ![Len(frames)] = g] = Append(b, g)
    BY <1>3, SeqSplit DEF Top
  <1>5. IsSeq(sources) /\ sources # <<>> /\ Len(sources) = 1 + Tags(frames)
    BY DEF IInv
  <1>6. /\ sources = Append(below, Current) /\ IsSeq(below) /\ Len(sources) = Len(below) + 1
        /\ \A x : [sources EXCEPT ![Len(sources)] = x] = Append(below, x)
    BY <1>5, SeqSplit DEF Current
  <1> HIDE DEF b, below
  <1>7. \A x : IsSeq(Append(below, x)) /\ Append(below, x) # <<>> /\ Len(Append(below, x)) = Len(sources)
    BY <1>6, SeqMore
  <1>8. Settled(request, frames) => /\ Settled(request, b) /\ IsRecord(request, Top)
                                    /\ Top.begun /\ ReadBut(request, Top)
    BY <1>4, SettledMore
  <1>9. Calls(request, frames) => Settled(request, b) /\ IsRecord(request, Top) /\ ReadAll(request, Top)
    BY <1>4, CallsMore
  <1>10. ~IsTagged(Top) => Len(sources) = 1 + Tags(b)
    BY <1>4, <1>5, TagsMore
  <1>11. ASSUME Calling, ~Top.begun PROVE Poised(request, b, below, Current)
    <2>1. Poised(request, frames, below, Current)
      BY <1>11 DEF Calling, Active, IInv, Running, below
    <2>2. ~Encloses(Top) /\ ~IsTagged(Top)
      BY <1>11 DEF Encloses, IsTagged
    <2> QED
      BY <1>4, <2>1, <2>2, RecordOver
  <1>12. ASSUME Calling, Top.begun
         PROVE  ReadAll(request, Top) /\ Rests(request, Append(b, Top), below, Current)
    BY <1>4, <1>9, <1>12 DEF Calling, Active, IInv, Running, below
  <1>13. ASSUME Active, returned # <<>>
         PROVE  Top.begun /\ ReadBut(request, Top) /\ Rests(request, Append(b, Top), below, Current)
    BY <1>4, <1>8, <1>13 DEF Active, IInv, Returning, below
  <1>14. failure # <<>> => Top.begun
    BY <1>8 DEF IInv
  <1>15. Active => failure = <<>>
    BY DEF Active
  <1> QED
    BY <1>1, <1>2, <1>4, <1>5, <1>6, <1>7, <1>8, <1>9, <1>10, <1>11, <1>12, <1>13, <1>14, <1>15 DEF b, below

\* A call fails that has no source of its own.
LEMMA FailsHere ==
  ASSUME IInv, frames # <<>>, ~IsTagged(Top), request' = request, NEW path, Fail(path),
         sources' = sources \/ \E x : sources' = Append(Front(sources), x)
  PROVE  IInv'
  <1>1. /\ request \in Requests /\ Settled(request, Front(frames))
        /\ IsSeq(sources) /\ sources # <<>> /\ Len(sources) = 1 + Tags(Front(frames))
        /\ \A x : /\ IsSeq(Append(Front(sources), x)) /\ Append(Front(sources), x) # <<>>
                  /\ Len(Append(Front(sources), x)) = Len(sources)
    BY Now
  <1>2. IsSeq(sources') /\ sources' # <<>> /\ Len(sources') = 1 + Tags(Front(frames))
    BY <1>1
  <1> QED
    BY <1>1, <1>2, IFailed DEF Fail

----------------------------------------------------------------------------
(* Each step *)

\* What an action's first conjunct says.
LEMMA Guards ==
  ASSUME NEW kinds
  PROVE  /\ Entering(kinds) => Calling /\ frames # <<>> /\ ~Top.begun /\ Kind(Top) \in kinds /\ ~IsTagged(Top)
         /\ Reading(kinds) => Calling /\ frames # <<>> /\ Top.begun /\ Kind(Top) \in kinds
         /\ Resuming(kinds) => Active /\ frames # <<>> /\ returned # <<>> /\ Kind(Top) \in kinds
         /\ CallsBack(kinds) => Reading(kinds) /\ ~AtEnd(CloseObject) /\ NamedNext
         /\ Calling => Active /\ returned = <<>>
         /\ Active => failure = <<>>
  BY DEF Entering, Reading, Resuming, CallsBack, Calling, Active, IsTagged

\* A name is next.
LEMMA NameAhead ==
  ASSUME NamedNext, Current.kind = "json"
  PROVE  HasNext(Current) /\ Ahead(Current).t = "string"
  BY DEF NamedNext, HasNext, Ahead

\* The end of a container is.
LEMMA EndAhead ==
  ASSUME NEW closing \in Closing, AtEnd(closing), Current.kind = "json"
  PROVE  HasNext(Current) /\ Ahead(Current) \in Closing
  BY DEF AtEnd, HasNext, Ahead

\* A schema that refuses.
LEMMA RefuseStep ==
  ASSUME IInv, Refuse
  PROVE  IInv'
  <1>1. frames # <<>> /\ ~IsTagged(Top)
    BY Guards DEF Refuse
  <1> QED
    BY <1>1, FailsHere DEF Refuse

\* A scalar that can be read is one token.
LEMMA ScalarAhead ==
  ASSUME NEW source, NEW kind, kind \in Scalars, Reads(source, kind)
  PROVE  HasNext(source) /\ (source.kind = "json" => Ahead(source).t \in {"string", "number", "null"})
  <1>1. HasNext(source) /\ (source.kind = "json" => JsonReads(Ahead(source), kind))
    BY DEF Reads
  <1>2. ASSUME NEW token, JsonReads(token, kind) PROVE token.t \in {"string", "number", "null"}
    BY <1>2 DEF JsonReads, Scalars
  <1> QED
    BY <1>1, <1>2

\* A scalar.
LEMMA ScalarStep ==
  ASSUME IInv, ReadScalar
  PROVE  IInv'
  <1> DEFINE b == Front(frames)
             below == Front(sources)
  <1>1. frames # <<>> /\ Calling /\ ~Top.begun /\ Kind(Top) \in Scalars /\ ~IsTagged(Top) /\ failure = <<>>
    BY Guards DEF ReadScalar
  <1>2. CASE Reads(Current, Kind(Top))
    <2>1. /\ request' = request /\ frames' = b /\ returned' = <<Read(Current, Kind(Top))>> /\ failure' = <<>>
          /\ sources' = [sources EXCEPT ![Len(sources)] = Take(Current)]
      BY <1>1, <1>2 DEF ReadScalar, Return, Source
    <2>2. /\ request \in Requests /\ IsRequest(request) /\ Settled(request, b)
          /\ Poised(request, b, below, Current)
          /\ [sources EXCEPT ![Len(sources)] = Take(Current)] = Append(below, Take(Current))
      BY <1>1, Now
    <2>3. Rests(request, b, below, Take(Current))
      BY <1>1, <1>2, <2>2, ScalarAhead, ValueTaken
    <2> HIDE DEF b, below
    <2> QED
      BY <2>1, <2>2, <2>3, IReturned
  <1>3. CASE ~Reads(Current, Kind(Top))
    <2>1. request' = request /\ Fail(<<>>) /\ sources' = sources
      BY <1>3 DEF ReadScalar
    <2> QED
      BY <1>1, <2>1, FailsHere
  <1> QED
    BY <1>2, <1>3

\* A null is one token, in JSON.
LEMMA NullAhead ==
  ASSUME NEW source, IsNull(source)
  PROVE  HasNext(source) /\ (source.kind = "json" => Ahead(source).t \in {"string", "number", "null"})
  BY TokenKinds DEF IsNull

\* A null.
LEMMA NullStep ==
  ASSUME IInv, ReadNull
  PROVE  IInv'
  <1> DEFINE b == Front(frames)
             below == Front(sources)
  <1>1. frames # <<>> /\ Calling /\ ~Top.begun /\ failure = <<>>
    BY Guards DEF ReadNull
  <1>2. /\ request' = request /\ frames' = b /\ returned' = <<(<<>>)>> /\ failure' = <<>>
        /\ sources' = [sources EXCEPT ![Len(sources)] = Take(Current)] /\ IsNull(Current)
    BY <1>1 DEF ReadNull, Return, Source
  <1>3. /\ request \in Requests /\ IsRequest(request) /\ Settled(request, b)
        /\ Poised(request, b, below, Current)
        /\ [sources EXCEPT ![Len(sources)] = Take(Current)] = Append(below, Take(Current))
    BY <1>1, Now
  <1> HIDE DEF b, below
  <1>4. Rests(request, b, below, Take(Current))
    BY <1>2, <1>3, NullAhead, ValueTaken
  <1> QED
    BY <1>2, <1>3, <1>4, IReturned

\* A wrapper's inner schema is called.
LEMMA InnerStep ==
  ASSUME IInv, EnterInner
  PROVE  IInv'
  <1> DEFINE b == Front(frames)
             below == Front(sources)
             g == [Top EXCEPT !.begun = TRUE]
             s == Shape[Top.shape].of
  <1>1. frames # <<>> /\ Calling /\ ~Top.begun /\ Kind(Top) \in Wrappers /\ ~IsTagged(Top) /\ failure = <<>>
    BY Guards DEF EnterInner
  <1>2. CASE Fail(<<>>)
    <2>1. request' = request /\ sources' = sources
      BY DEF EnterInner
    <2> QED
      BY <1>1, <1>2, <2>1, FailsHere
  <1>3. CASE Enter(g, s)
    <2>1. /\ request' = request /\ sources' = sources /\ returned' = <<>> /\ failure' = <<>>
          /\ frames' = Append([frames EXCEPT ![Len(frames)] = g], Frame(s))
      BY <1>1, <1>3 DEF EnterInner, Enter, Calling
    <2>2. /\ request \in Requests /\ IsSeq(b) /\ Settled(request, b) /\ IsRecord(request, Top)
          /\ Poised(request, b, below, Current) /\ sources = Append(below, Current)
          /\ [frames EXCEPT ![Len(frames)] = g] = Append(b, g)
      BY <1>1, Now
    <2>3. HasFields(Top) /\ Len(Top.label) \in {0, 1} /\ Top.shape \in DOMAIN Shape
      BY <2>2 DEF IsRecord, HasFields
    <2>4. HasFields(g) /\ g.shape = Top.shape /\ g.begun = TRUE /\ g.label = Top.label
      BY <2>3 DEF HasFields
    <2>5. Kind(Top) # "object" /\ s \in DOMAIN Shape
      BY <1>1, <2>3, PartShapes DEF Kind, Wrappers
    <2> HIDE DEF g, b, below, s
    <2>6. IsRecord(request, g) /\ ReadBut(request, g) /\ Kind(g) = Kind(Top) /\ g.begun
      BY <2>2, <2>3, <2>4, <2>5, RecordOther
    <2>7. ~Encloses(g) /\ ~IsTagged(g)
      BY <1>1, <2>6 DEF Encloses, IsTagged, ObjectLike, Wrappers
    <2>8. Poised(request, Append(b, g), below, Current)
      BY <2>2, <2>7, RecordOver
    <2> QED
      BY <2>1, <2>2, <2>5, <2>6, <2>8, ICalls
  <1> QED
    BY <1>2, <1>3 DEF EnterInner

\* It returns.
LEMMA InnerReturns ==
  ASSUME IInv, LeaveInner
  PROVE  IInv'
  <1> DEFINE b == Front(frames)
             below == Front(sources)
  <1>1. /\ frames # <<>> /\ Active /\ returned # <<>> /\ Kind(Top) \in Wrappers /\ failure = <<>>
        /\ ~IsTagged(Top) /\ ~Encloses(Top)
    BY Guards DEF LeaveInner, IsTagged, Encloses, ObjectLike, Wrappers
  <1>2. request' = request /\ sources' = sources
    BY DEF LeaveInner
  <1>3. Fail(<<>>) \/ \E v : Return(v)
    BY <1>1 DEF LeaveInner, Wrappers
  <1>4. CASE Fail(<<>>)
    BY <1>1, <1>2, <1>4, FailsHere
  <1>5. CASE \E v : Return(v)
    <2>1. PICK v : frames' = b /\ returned' = <<v>> /\ failure' = <<>>
      BY <1>1, <1>5 DEF Return
    <2>2. /\ request \in Requests /\ IsSeq(b) /\ Settled(request, b)
          /\ Rests(request, Append(b, Top), below, Current) /\ sources = Append(below, Current)
      BY <1>1, Now
    <2> HIDE DEF b, below
    <2>3. Rests(request, b, below, Current)
      BY <1>1, <2>2, RecordOver
    <2> QED
      BY <1>2, <2>1, <2>2, <2>3, IReturned
  <1> QED
    BY <1>3, <1>4, <1>5

\* A container begins.
LEMMA BeginStep ==
  ASSUME IInv, BeginContainer
  PROVE  IInv'
  <1> DEFINE b == Front(frames)
             below == Front(sources)
             g == [Top EXCEPT !.begun = TRUE, !.acc = Nothing(Top.shape), !.members = MembersOf(Current)]
             is == IF Kind(Top) = "list" THEN "List" ELSE "Object"
  <1>1. /\ frames # <<>> /\ Calling /\ ~Top.begun /\ Kind(Top) \in ObjectLike \cup {"list"}
        /\ ~IsTagged(Top) /\ failure = <<>>
    BY Guards DEF BeginContainer
  <1>2. CASE ~Begins(Current, is)
    <2>1. request' = request /\ Fail(<<>>) /\ sources' = sources
      BY <1>2 DEF BeginContainer
    <2> QED
      BY <1>1, <2>1, FailsHere
  <1>3. CASE Begins(Current, is)
    <2>1. /\ request' = request /\ sources' = [sources EXCEPT ![Len(sources)] = Take(Current)]
          /\ returned' = <<>> /\ failure' = <<>>
          /\ frames' = [frames EXCEPT ![Len(frames)] = g]
      BY <1>1, <1>3 DEF BeginContainer, Go, Source
    <2>2. /\ request \in Requests /\ IsRequest(request) /\ IsSeq(b) /\ Settled(request, b)
          /\ IsRecord(request, Top) /\ Poised(request, b, below, Current)
          /\ [sources EXCEPT ![Len(sources)] = Take(Current)] = Append(below, Take(Current))
          /\ [frames EXCEPT ![Len(frames)] = g] = Append(b, g)
      BY <1>1, Now
    <2>3. HasFields(Top) /\ Len(Top.label) \in {0, 1} /\ Top.seen = {}
      BY <1>1, <2>2 DEF IsRecord
    <2>4. /\ HasFields(g) /\ g.shape = Top.shape /\ g.begun = TRUE /\ g.label = Top.label
          /\ g.acc = Nothing(Top.shape) /\ g.seen = {}
      BY <2>3 DEF HasFields
    <2>5. Kind(g) = Kind(Top) /\ Fields(g) = Fields(Top)
      BY <2>4 DEF Kind, Fields
    <2>6. Kind(Top) = "object" => /\ DOMAIN Nothing(Top.shape) = DOMAIN Fields(Top)
                                  /\ ~SpellingFault(Fields(Top), request.strategy)
      BY DEF BeginContainer, Nothing, Kind, Fields
    <2> HIDE DEF g, b, below
    <2>7. IsRecord(request, g)
      BY <2>3, <2>4, <2>5, <2>6 DEF IsRecord
    <2>8. ReadAll(request, g)
      BY <2>4 DEF ReadAll, Kept
    <2>9. Encloses(g) /\ Is(g) = is
      BY <1>1, <2>4, <2>5 DEF Encloses, Is
    <2>10. Rests(request, Append(b, g), below, Take(Current))
      BY <1>3, <2>2, <2>9, ContainerBegun
    <2> QED
      BY <2>1, <2>2, <2>4, <2>7, <2>8, <2>10, IGoes
  <1> QED
    BY <1>2, <1>3

\* A name cannot be read.
LEMMA NoNameStep ==
  ASSUME IInv, NoName
  PROVE  IInv'
  <1>1. frames # <<>> /\ ~IsTagged(Top)
    BY Guards DEF NoName, IsTagged, ObjectLike
  <1> QED
    BY <1>1, FailsHere DEF NoName

\* The loop of ReadObject or ReadList has moved on by one.
LEMMA AdvancedIs ==
  ASSUME HasFields(Top)
  PROVE  /\ HasFields(Advanced) /\ Advanced.shape = Top.shape /\ Advanced.begun = Top.begun
         /\ Advanced.label = Top.label /\ Advanced.acc = Top.acc /\ Advanced.seen = Top.seen
  <1>1. CASE Current.kind # "json"
    <2> DEFINE v == Tail(Top.members)
               g == [Top EXCEPT !.members = v]
    <2>1. Advanced = g
      BY <1>1 DEF Advanced
    <2> HIDE DEF v
    <2>2. /\ HasFields(g) /\ g.shape = Top.shape /\ g.begun = Top.begun
          /\ g.label = Top.label /\ g.acc = Top.acc /\ g.seen = Top.seen
      BY DEF HasFields
    <2> HIDE DEF g
    <2> QED
      BY <2>1, <2>2
  <1>2. CASE Current.kind = "json" /\ Kind(Top) = "list"
    BY <1>2 DEF Advanced
  <1>3. CASE Current.kind = "json" /\ Kind(Top) # "list"
    <2> DEFINE v == Top.names \cup {NextName}
               g == [Top EXCEPT !.names = v]
    <2>1. Advanced = g
      BY <1>3 DEF Advanced
    <2> HIDE DEF v
    <2>2. /\ HasFields(g) /\ g.shape = Top.shape /\ g.begun = Top.begun
          /\ g.label = Top.label /\ g.acc = Top.acc /\ g.seen = Top.seen
      BY DEF HasFields
    <2> HIDE DEF g
    <2> QED
      BY <2>1, <2>2
  <1> QED
    BY <1>1, <1>2, <1>3

\* A field is marked as seen.
LEMMA SeeingIs ==
  ASSUME NEW f, HasFields(f)
  PROVE  LET g == Seeing(f)
         IN  /\ HasFields(g) /\ g.shape = f.shape /\ g.begun = f.begun /\ g.acc = f.acc
             /\ g.label = Label("object", NextName) /\ Len(g.label) = 1
             /\ g.seen = f.seen \cup {NextName}
  <1> DEFINE g == Seeing(f)
             l == Label("object", NextName)
  <1>1. Len(l) = 1
    BY LabelOne
  <1> HIDE DEF l
  <1>2. g = [f EXCEPT !.seen = f.seen \cup {NextName}, !.label = l]
    BY DEF Seeing, l
  <1>3. /\ HasFields(g) /\ g.shape = f.shape /\ g.begun = f.begun /\ g.acc = f.acc
        /\ g.label = l /\ g.seen = f.seen \cup {NextName}
    BY <1>2 DEF HasFields
  <1> QED
    BY <1>1, <1>3 DEF l

\* A member's value is next once its name is read.
LEMMA MemberAhead ==
  ASSUME IInv, NEW kinds, kinds \subseteq ObjectLike, CallsBack(kinds),
         NEW g, g.shape = Top.shape, g.begun = Top.begun
  PROVE  Poised(request, Append(Front(frames), g), Front(sources), AfterName)
  <1> DEFINE b == Front(frames)
             below == Front(sources)
             e == Head(Top.members).value
  <1>1. frames # <<>> /\ Calling /\ Top.begun /\ Kind(Top) \in ObjectLike /\ NamedNext
    BY Guards
  <1>2. /\ IsRequest(request) /\ IsSeq(b)
        /\ Rests(request, Append(b, Top), below, Current)
    BY <1>1, Now
  <1>3. AfterName = IF Current.kind = "json" THEN Take(Current) ELSE DynamicSource(Append(Current.stack, e))
    BY DEF AfterName
  <1> HIDE DEF b, below, e
  <1>4. Current.kind = "json" => HasNext(Current) /\ Ahead(Current).t = "string"
    BY <1>1, NameAhead
  <1>5. Poised(request, Append(b, Top), below, AfterName)
    BY <1>1, <1>2, <1>3, <1>4, MemberNext
  <1> QED
    BY <1>2, <1>5, RecordKept DEF b, below

\* What a record is that has read a name, of an object or not.
LEMMA MemberRecord ==
  ASSUME IInv, NEW kinds, kinds \subseteq ObjectLike, CallsBack(kinds)
  PROVE  /\ IsRecord(request, Advanced) /\ ReadAll(request, Advanced)
         /\ Advanced.shape = Top.shape /\ Advanced.begun = TRUE /\ Top.begun = TRUE
         /\ Kind(Advanced) = Kind(Top) /\ Fields(Advanced) = Fields(Top)
         /\ HasFields(Advanced) /\ HasFields(Top)
  <1>1. frames # <<>> /\ Calling /\ Top.begun
    BY Guards
  <1>2. IsRecord(request, Top) /\ ReadAll(request, Top)
    BY <1>1, Now
  <1>3. HasFields(Top) /\ Len(Top.label) \in {0, 1}
    BY <1>2 DEF IsRecord
  <1>4. Top.begun = TRUE
    BY <1>1, <1>3 DEF HasFields
  <1>5. /\ HasFields(Advanced) /\ Advanced.shape = Top.shape /\ Advanced.begun = Top.begun
        /\ Advanced.label = Top.label /\ Advanced.acc = Top.acc /\ Advanced.seen = Top.seen
    BY <1>3, AdvancedIs
  <1>6. Len(Advanced.label) \in {0, 1}
    BY <1>3, <1>5
  <1>7. /\ IsRecord(request, Advanced) /\ ReadAll(request, Advanced)
        /\ Kind(Advanced) = Kind(Top) /\ Fields(Advanced) = Fields(Top)
    BY <1>2, <1>5, <1>6, RecordSame
  <1> QED
    BY <1>3, <1>4, <1>5, <1>7

\* A member no field is of.
LEMMA SkipStep ==
  ASSUME IInv, SkipUnknown
  PROVE  IInv'
  <1> DEFINE b == Front(frames)
             below == Front(sources)
             g == Advanced
  <1>1. CallsBack({"object"}) /\ {"object"} \subseteq ObjectLike
    BY DEF SkipUnknown, ObjectLike
  <1>2. frames # <<>> /\ failure = <<>> /\ ~IsTagged(Top) /\ request' = request
    BY <1>1, Guards DEF SkipUnknown, IsTagged
  <1>3. CASE HasWhole(AfterName)
    <2>1. /\ frames' = [frames EXCEPT ![Len(frames)] = g] /\ returned' = <<>> /\ failure' = <<>>
          /\ sources' = [sources EXCEPT ![Len(sources)] = Skip(AfterName)]
      BY <1>2, <1>3 DEF SkipUnknown, Go, Source
    <2>2. /\ request \in Requests /\ IsRequest(request) /\ IsSeq(b) /\ Settled(request, b)
          /\ [sources EXCEPT ![Len(sources)] = Skip(AfterName)] = Append(below, Skip(AfterName))
          /\ [frames EXCEPT ![Len(frames)] = g] = Append(b, g)
      BY <1>2, Now
    <2>3. /\ IsRecord(request, g) /\ ReadAll(request, g) /\ g.shape = Top.shape /\ g.begun /\ g.begun = Top.begun
      BY <1>1, MemberRecord
    <2>4. Poised(request, Append(b, g), below, AfterName)
      BY <1>1, <2>3, MemberAhead
    <2> HIDE DEF g, b, below
    <2>5. Rests(request, Append(b, g), below, Skip(AfterName))
      BY <1>3, <2>2, <2>4, ValueSkipped
    <2> QED
      BY <1>2, <2>1, <2>2, <2>3, <2>5, IGoes
  <1>4. CASE ~HasWhole(AfterName)
    <2>1. Fail(<<>>) /\ sources' = sources
      BY <1>4 DEF SkipUnknown
    <2> QED
      BY <1>2, <2>1, FailsHere
  <1> QED
    BY <1>3, <1>4

\* What a record is that has seen a field: it has read the others it saw, and
\* reads this one unless it may be absent.
LEMMA FieldRecord ==
  ASSUME IInv, CallsBack({"object"})
  PROVE  LET g == Seeing(Advanced)
         IN  /\ IsRecord(request, g) /\ ReadBut(request, g)
             /\ Fields(Top)[NextField].optional => ReadAll(request, g)
             /\ g.shape = Top.shape /\ g.begun = TRUE /\ Top.begun = TRUE
             /\ Listed(Fields(Top)) /\ Top.shape \in DOMAIN Shape /\ Kind(Top) = "object"
  <1> DEFINE f == Advanced
             g == Seeing(f)
  <1>1. {"object"} \subseteq ObjectLike /\ Kind(Top) = "object"
    BY Guards DEF ObjectLike
  <1>2. /\ IsRecord(request, f) /\ ReadAll(request, f) /\ f.shape = Top.shape /\ f.begun = TRUE
        /\ Kind(f) = "object" /\ Fields(f) = Fields(Top) /\ HasFields(f) /\ HasFields(Top) /\ Top.begun = TRUE
    BY <1>1, MemberRecord
  <1> HIDE DEF f
  <1>3. /\ HasFields(g) /\ g.shape = f.shape /\ g.begun = f.begun /\ g.acc = f.acc
        /\ g.label = Label("object", NextName) /\ Len(g.label) = 1 /\ g.seen = f.seen \cup {NextName}
    BY <1>2, SeeingIs
  <1> HIDE DEF g
  <1>4. Kind(g) = "object" /\ Fields(g) = Fields(Top)
    BY <1>2, <1>3 DEF Kind, Fields
  <1>5. DOMAIN f.acc = DOMAIN Fields(Top) /\ ~SpellingFault(Fields(Top), request.strategy)
    BY <1>2 DEF IsRecord
  <1>6. IsRecord(request, g)
    BY <1>2, <1>3, <1>4, <1>5 DEF IsRecord
  <1>7. Top.shape \in DOMAIN Shape /\ Listed(Fields(Top))
    <2>1. Top.shape \in DOMAIN Shape
      BY <1>2 DEF HasFields
    <2> QED
      BY <1>1, <2>1, PartShapes DEF Kind, Fields
  <1>8. ASSUME NEW i \in DOMAIN Fields(Top)
        PROVE  Kept(request, g, i) \/ SpelledName(Fields(Top), request.strategy, i) = NextName
    <2>1. Kept(request, f, i)
      BY <1>2 DEF ReadAll
    <2> QED
      BY <1>2, <1>3, <1>4, <2>1 DEF Kept
  <1>9. ReadBut(request, g)
    BY <1>3, <1>4, <1>8 DEF ReadBut
  <1>10. ASSUME Fields(Top)[NextField].optional
         PROVE  ReadAll(request, g)
    <2>1. ASSUME NEW i \in DOMAIN Fields(Top) PROVE Kept(request, g, i)
      <3>1. CASE SpelledName(Fields(Top), request.strategy, i) = NextName
        <4>1. NextField = i
          BY <1>5, <1>7, <3>1, FieldNamed DEF NextField
        <4> QED
          BY <1>4, <1>10, <4>1 DEF Kept
      <3> QED
        BY <1>8, <3>1
    <2> QED
      BY <1>4, <2>1 DEF ReadAll
  <1> QED
    BY <1>1, <1>2, <1>3, <1>6, <1>7, <1>9, <1>10 DEF f, g

\* An optional field's null.
LEMMA TolerateStep ==
  ASSUME IInv, TolerateNull
  PROVE  IInv'
  <1> DEFINE b == Front(frames)
             below == Front(sources)
             g == Seeing(Advanced)
  <1>1. /\ CallsBack({"object"}) /\ {"object"} \subseteq ObjectLike
        /\ Fields(Top)[NextField].optional /\ IsNull(AfterName)
    BY DEF TolerateNull, ObjectLike
  <1>2. frames # <<>> /\ failure = <<>>
    BY <1>1, Guards
  <1>3. /\ request' = request /\ frames' = [frames EXCEPT ![Len(frames)] = g] /\ returned' = <<>>
        /\ failure' = <<>> /\ sources' = [sources EXCEPT ![Len(sources)] = Take(AfterName)]
    BY <1>2 DEF TolerateNull, Go, Source
  <1>4. /\ request \in Requests /\ IsRequest(request) /\ IsSeq(b) /\ Settled(request, b)
        /\ [sources EXCEPT ![Len(sources)] = Take(AfterName)] = Append(below, Take(AfterName))
        /\ [frames EXCEPT ![Len(frames)] = g] = Append(b, g)
    BY <1>2, Now
  <1>5. IsRecord(request, g) /\ ReadAll(request, g) /\ g.shape = Top.shape /\ g.begun /\ g.begun = Top.begun
    BY <1>1, FieldRecord
  <1>6. Poised(request, Append(b, g), below, AfterName)
    BY <1>1, <1>5, MemberAhead
  <1> HIDE DEF g, b, below
  <1>7. Rests(request, Append(b, g), below, Take(AfterName))
    BY <1>1, <1>4, <1>6, NullAhead, ValueTaken
  <1> QED
    BY <1>3, <1>4, <1>5, <1>7, IGoes

\* A field's value is read.
LEMMA FieldStep ==
  ASSUME IInv, EnterField
  PROVE  IInv'
  <1> DEFINE b == Front(frames)
             below == Front(sources)
             g == Seeing(Advanced)
             s == Fields(Top)[NextField].of
  <1>1. /\ CallsBack({"object"}) /\ {"object"} \subseteq ObjectLike
        /\ Known(Fields(Top), request.strategy, NextName)
    BY DEF EnterField, ObjectLike
  <1>2. frames # <<>> /\ failure = <<>> /\ returned = <<>>
    BY <1>1, Guards
  <1>3. /\ request' = request /\ frames' = Append([frames EXCEPT ![Len(frames)] = g], Frame(s))
        /\ returned' = <<>> /\ failure' = <<>>
        /\ sources' = [sources EXCEPT ![Len(sources)] = AfterName]
    BY <1>2 DEF EnterField, Enter, Source
  <1>4. /\ request \in Requests /\ IsSeq(b) /\ Settled(request, b) /\ IsRecord(request, Top)
        /\ [sources EXCEPT ![Len(sources)] = AfterName] = Append(below, AfterName)
        /\ [frames EXCEPT ![Len(frames)] = g] = Append(b, g)
    BY <1>2, Now
  <1>5. /\ IsRecord(request, g) /\ ReadBut(request, g) /\ g.shape = Top.shape /\ g.begun /\ g.begun = Top.begun
        /\ Listed(Fields(Top)) /\ Top.shape \in DOMAIN Shape /\ Kind(Top) = "object"
    BY <1>1, FieldRecord
  <1>6. Poised(request, Append(b, g), below, AfterName)
    BY <1>1, <1>5, MemberAhead
  <1>7. s \in DOMAIN Shape
    <2>1. PICK i \in DOMAIN Fields(Top) : SpelledName(Fields(Top), request.strategy, i) = NextName
      BY <1>1 DEF Known
    <2>2. frames # <<>> /\ Calling /\ Top.begun
      BY <1>1, Guards
    <2>3. ~SpellingFault(Fields(Top), request.strategy)
      BY <1>4, <1>5, <2>2 DEF IsRecord
    <2>4. NextField = i
      BY <1>5, <2>1, <2>3, FieldNamed DEF NextField
    <2> QED
      BY <1>5, <2>4, PartShapes DEF Fields, Kind
  <1> HIDE DEF g, b, below, s
  <1> QED
    BY <1>3, <1>4, <1>5, <1>6, <1>7, ICalls

\* It returns.
LEMMA FieldReturns ==
  ASSUME IInv, LeaveField
  PROVE  IInv'
  <1> DEFINE b == Front(frames)
             below == Front(sources)
             i == ByName(Fields(Top), request.strategy, Top.label[1].part)
             v == <<returned[1]>>
             a == [Top.acc EXCEPT ![i] = v]
             g == [Top EXCEPT !.acc = a]
  <1>1. frames # <<>> /\ Active /\ returned # <<>> /\ Kind(Top) = "object" /\ failure = <<>>
    BY Guards DEF LeaveField
  <1>2. /\ request' = request /\ frames' = [frames EXCEPT ![Len(frames)] = g]
        /\ returned' = <<>> /\ failure' = <<>> /\ sources' = sources
    BY <1>1 DEF LeaveField, Go
  <1>3. /\ request \in Requests /\ IsSeq(b) /\ Settled(request, b) /\ IsRecord(request, Top)
        /\ Top.begun /\ ReadBut(request, Top) /\ Rests(request, Append(b, Top), below, Current)
        /\ sources = Append(below, Current) /\ [frames EXCEPT ![Len(frames)] = g] = Append(b, g)
    BY <1>1, Now
  <1>4. /\ HasFields(Top) /\ Len(Top.label) \in {0, 1} /\ Top.shape \in DOMAIN Shape /\ Top.begun = TRUE
        /\ DOMAIN Top.acc = DOMAIN Fields(Top) /\ ~SpellingFault(Fields(Top), request.strategy)
    BY <1>1, <1>3 DEF IsRecord, HasFields
  <1>5. v # <<>>
    BY OneIs
  <1> HIDE DEF b, below, v
  <1>6. /\ DOMAIN a = DOMAIN Top.acc /\ (i \in DOMAIN Top.acc => a[i] = v)
        /\ \A j \in DOMAIN Top.acc : j # i => a[j] = Top.acc[j]
    OBVIOUS
  <1> HIDE DEF a
  <1>7. /\ HasFields(g) /\ g.shape = Top.shape /\ g.begun = TRUE /\ g.label = Top.label
        /\ g.acc = a /\ g.seen = Top.seen
    BY <1>4 DEF HasFields
  <1> HIDE DEF g
  <1>8. Kind(g) = "object" /\ Fields(g) = Fields(Top)
    BY <1>1, <1>7 DEF Kind, Fields
  <1>9. IsRecord(request, g)
    BY <1>4, <1>6, <1>7, <1>8 DEF IsRecord
  <1>10. ASSUME NEW j \in DOMAIN Fields(Top) PROVE Kept(request, g, j)
    <2>1. CASE Kept(request, Top, j)
      BY <1>4, <1>5, <1>6, <1>7, <1>8, <2>1 DEF Kept
    <2>2. CASE Top.label = Label("object", SpelledName(Fields(Top), request.strategy, j))
      <3>1. Listed(Fields(Top))
        BY <1>1, <1>4, PartShapes DEF Kind, Fields
      <3>2. Top.label[1].part = SpelledName(Fields(Top), request.strategy, j)
        BY <2>2, LabelOne
      <3>3. i = j
        BY <1>4, <3>1, <3>2, FieldNamed
      <3> HIDE DEF i
      <3> QED
        BY <1>4, <1>5, <1>6, <1>7, <3>3 DEF Kept
    <2> QED
      BY <1>1, <1>3, <2>1, <2>2 DEF ReadBut
  <1>11. ReadAll(request, g)
    BY <1>8, <1>10 DEF ReadAll
  <1>12. Rests(request, Append(b, g), below, Current)
    BY <1>3, <1>4, <1>7, RecordKept
  <1> QED
    BY <1>2, <1>3, <1>7, <1>9, <1>11, <1>12, IGoes

\* An entry's or a variant's value is read.
LEMMA PartCalled ==
  ASSUME IInv, NEW kinds, kinds \subseteq ObjectLike, "object" \notin kinds, CallsBack(kinds),
         NEW g, HasFields(g), g.shape = Top.shape, g.begun = TRUE, Len(g.label) = 1,
         NEW s \in DOMAIN Shape, Enter(g, s), Source(AfterName), request' = request
  PROVE  IInv'
  <1> DEFINE b == Front(frames)
             below == Front(sources)
  <1>1. frames # <<>> /\ failure = <<>> /\ returned = <<>> /\ Kind(Top) # "object"
    BY Guards
  <1>2. /\ frames' = Append([frames EXCEPT ![Len(frames)] = g], Frame(s))
        /\ returned' = <<>> /\ failure' = <<>>
        /\ sources' = [sources EXCEPT ![Len(sources)] = AfterName]
    BY <1>1 DEF Enter, Source
  <1>3. /\ request \in Requests /\ IsSeq(b) /\ Settled(request, b) /\ IsRecord(request, Top)
        /\ [sources EXCEPT ![Len(sources)] = AfterName] = Append(below, AfterName)
        /\ [frames EXCEPT ![Len(frames)] = g] = Append(b, g)
    BY <1>1, Now
  <1>4. Top.begun = TRUE
    BY MemberRecord
  <1>5. Poised(request, Append(b, g), below, AfterName)
    BY <1>4, MemberAhead
  <1> HIDE DEF b, below
  <1>6. IsRecord(request, g) /\ ReadBut(request, g)
    BY <1>1, <1>3, RecordOther
  <1> QED
    BY <1>2, <1>3, <1>5, <1>6, ICalls

\* What a container's callback was returned is kept.
LEMMA PartKept ==
  ASSUME IInv, NEW kinds, Resuming(kinds), "object" \notin kinds, NEW v, Go([Top EXCEPT !.acc = v]),
         request' = request, sources' = sources
  PROVE  IInv'
  <1> DEFINE b == Front(frames)
             below == Front(sources)
             g == [Top EXCEPT !.acc = v]
  <1>1. frames # <<>> /\ Active /\ failure = <<>> /\ returned # <<>> /\ Kind(Top) # "object"
    BY Guards
  <1>2. /\ frames' = [frames EXCEPT ![Len(frames)] = g] /\ returned' = <<>> /\ failure' = <<>>
    BY <1>1 DEF Go
  <1>3. /\ request \in Requests /\ IsSeq(b) /\ Settled(request, b) /\ IsRecord(request, Top)
        /\ Top.begun /\ Rests(request, Append(b, Top), below, Current)
        /\ sources = Append(below, Current) /\ [frames EXCEPT ![Len(frames)] = g] = Append(b, g)
    BY <1>1, Now
  <1>4. HasFields(Top) /\ Len(Top.label) \in {0, 1} /\ Top.begun = TRUE
    BY <1>3 DEF IsRecord, HasFields
  <1>5. /\ HasFields(g) /\ g.shape = Top.shape /\ g.begun = TRUE /\ g.label = Top.label
    BY <1>4 DEF HasFields
  <1> HIDE DEF b, below, g
  <1>6. IsRecord(request, g) /\ ReadAll(request, g)
    BY <1>1, <1>3, <1>4, <1>5, RecordOther
  <1>7. Rests(request, Append(b, g), below, Current)
    BY <1>3, <1>4, <1>5, RecordKept
  <1> QED
    BY <1>2, <1>3, <1>5, <1>6, <1>7, IGoes

\* An entry of a map.
LEMMA EntryStep ==
  ASSUME IInv, EnterEntry
  PROVE  IInv'
  <1> DEFINE l == Label("map", NextName)
             g == [Advanced EXCEPT !.label = l]
             s == Shape[Top.shape].of
  <1>1. CallsBack({"map"}) /\ {"map"} \subseteq ObjectLike /\ "object" \notin {"map"} /\ Kind(Top) = "map"
    BY Guards DEF EnterEntry, ObjectLike
  <1>2. Enter(g, s) /\ Source(AfterName) /\ request' = request
    BY DEF EnterEntry
  <1>3. HasFields(Advanced) /\ Advanced.shape = Top.shape /\ Advanced.begun = TRUE /\ HasFields(Top)
    BY <1>1, MemberRecord
  <1>4. Len(l) = 1
    BY LabelOne
  <1> HIDE DEF l
  <1>5. HasFields(g) /\ g.shape = Top.shape /\ g.begun = TRUE /\ g.label = l
    BY <1>3 DEF HasFields
  <1>6. s \in DOMAIN Shape
    <2>1. Top.shape \in DOMAIN Shape
      BY <1>3 DEF HasFields
    <2> QED
      BY <1>1, <2>1, PartShapes DEF Kind
  <1> HIDE DEF g, s
  <1> QED
    BY <1>1, <1>2, <1>4, <1>5, <1>6, PartCalled

\* Its value is kept.
LEMMA EntryReturns ==
  ASSUME IInv, LeaveEntry
  PROVE  IInv'
  <1> DEFINE v == (Top.label[1].part :> returned[1]) @@ Top.acc
  <1>1. Resuming({"map"}) /\ Go([Top EXCEPT !.acc = v]) /\ request' = request /\ sources' = sources
    BY DEF LeaveEntry
  <1> HIDE DEF v
  <1>2. "object" \notin {"map"}
    OBVIOUS
  <1> QED
    BY <1>1, <1>2, PartKept

\* The variant a name is of.
LEMMA VariantShape ==
  ASSUME IInv, frames # <<>>, Kind(Top) \in {"union", "tagged"}, NEW name, VariantNamed(Top, name) # {}
  PROVE  Variants(Top)[CHOOSE i \in VariantNamed(Top, name) : TRUE].of \in DOMAIN Shape
  <1> DEFINE j == CHOOSE i \in VariantNamed(Top, name) : TRUE
  <1>1. j \in VariantNamed(Top, name)
    OBVIOUS
  <1>2. j \in DOMAIN Variants(Top)
    BY <1>1 DEF VariantNamed
  <1>3. IsRecord(request, Top)
    BY Now
  <1>4. Top.shape \in DOMAIN Shape
    BY <1>3 DEF IsRecord, HasFields
  <1> QED
    BY <1>2, <1>4, PartShapes DEF Variants, Kind

\* A union's variant.
LEMMA UnionStep ==
  ASSUME IInv, EnterUnion
  PROVE  IInv'
  <1> DEFINE l == Label("union", NextName)
             i == CHOOSE i \in VariantNamed(Top, NextName) : TRUE
             a == <<i>>
             g == [Advanced EXCEPT !.label = l, !.acc = a]
             s == Variants(Top)[i].of
  <1>1. /\ CallsBack({"union"}) /\ {"union"} \subseteq ObjectLike /\ "object" \notin {"union"}
        /\ Kind(Top) = "union" /\ frames # <<>>
    BY Guards DEF EnterUnion, ObjectLike
  <1>2. Enter(g, s) /\ Source(AfterName) /\ request' = request /\ VariantNamed(Top, NextName) # {}
    BY DEF EnterUnion
  <1>3. HasFields(Advanced) /\ Advanced.shape = Top.shape /\ Advanced.begun = TRUE /\ HasFields(Top)
    BY <1>1, MemberRecord
  <1>4. Len(l) = 1
    BY LabelOne
  <1>5. s \in DOMAIN Shape
    BY <1>1, <1>2, VariantShape
  <1> HIDE DEF l, s, a
  <1>6. HasFields(g) /\ g.shape = Top.shape /\ g.begun = TRUE /\ g.label = l
    BY <1>3 DEF HasFields
  <1> HIDE DEF g
  <1> QED
    BY <1>1, <1>2, <1>4, <1>5, <1>6, PartCalled

\* A second variant, or none of its.
LEMMA UnionRefused ==
  ASSUME IInv, RefuseUnion
  PROVE  IInv'
  <1>1. frames # <<>> /\ ~IsTagged(Top)
    BY Guards DEF RefuseUnion, IsTagged
  <1> QED
    BY <1>1, FailsHere DEF RefuseUnion

\* A union's variant is kept.
LEMMA UnionReturns ==
  ASSUME IInv, LeaveUnion
  PROVE  IInv'
  <1> DEFINE v == Append(Top.acc, returned[1])
  <1>1. Resuming({"union"}) /\ Go([Top EXCEPT !.acc = v]) /\ request' = request /\ sources' = sources
    BY DEF LeaveUnion
  <1> HIDE DEF v
  <1>2. "object" \notin {"union"}
    OBVIOUS
  <1> QED
    BY <1>1, <1>2, PartKept

\* The end of an object, or of a map or union.
LEMMA ObjectEnds ==
  ASSUME IInv, EndObject
  PROVE  IInv'
  <1> DEFINE b == Front(frames)
             below == Front(sources)
             source == IF Current.kind = "json" THEN Take(Current) ELSE Current
  <1>1. /\ frames # <<>> /\ Calling /\ Top.begun /\ Kind(Top) \in ObjectLike /\ failure = <<>>
        /\ ~IsTagged(Top) /\ Encloses(Top) /\ AtEnd(CloseObject) /\ CloseObject \in Closing
    BY Guards DEF EndObject, IsTagged, Encloses, ObjectLike, Closing
  <1>2. request' = request /\ sources' = [sources EXCEPT ![Len(sources)] = source]
    BY DEF EndObject, Source
  <1>3. /\ request \in Requests /\ IsRequest(request) /\ IsSeq(b) /\ Settled(request, b)
        /\ Rests(request, Append(b, Top), below, Current)
        /\ [sources EXCEPT ![Len(sources)] = source] = Append(below, source)
    BY <1>1, Now
  <1>4. (\E path : Fail(path)) \/ Return(Top.acc)
    BY DEF EndObject
  <1>5. CASE \E path : Fail(path)
    <2>1. \E x : sources' = Append(Front(sources), x)
      BY <1>2, <1>3
    <2> QED
      BY <1>1, <1>2, <1>5, <2>1, FailsHere
  <1>6. CASE Return(Top.acc)
    <2>1. frames' = b /\ returned' = <<Top.acc>> /\ failure' = <<>>
      BY <1>1, <1>6 DEF Return
    <2>2. Current.kind = "json" => HasNext(Current) /\ Ahead(Current) \in Closing
      BY <1>1, EndAhead
    <2> HIDE DEF b, below
    <2>3. Rests(request, b, below, source)
      BY <1>1, <1>3, <2>2, ContainerEnded
    <2> HIDE DEF source
    <2> QED
      BY <1>2, <1>3, <2>1, <2>3, IReturned
  <1> QED
    BY <1>4, <1>5, <1>6

\* An element of a list.
LEMMA ElementStep ==
  ASSUME IInv, EnterElement
  PROVE  IInv'
  <1> DEFINE b == Front(frames)
             below == Front(sources)
             l == Label("list", ToString(Len(Top.acc)))
             g == [Advanced EXCEPT !.label = l]
             s == Shape[Top.shape].of
             e == Head(Top.members)
             source == IF Current.kind = "json" THEN Current ELSE DynamicSource(Append(Current.stack, e))
  <1>1. /\ frames # <<>> /\ Calling /\ Top.begun /\ Kind(Top) = "list" /\ failure = <<>> /\ returned = <<>>
    BY Guards DEF EnterElement
  <1>2. /\ request' = request /\ frames' = Append([frames EXCEPT ![Len(frames)] = g], Frame(s))
        /\ returned' = <<>> /\ failure' = <<>>
        /\ sources' = [sources EXCEPT ![Len(sources)] = source]
    BY <1>1 DEF EnterElement, Enter, Source
  <1>3. /\ request \in Requests /\ IsRequest(request) /\ IsSeq(b) /\ Settled(request, b)
        /\ IsRecord(request, Top) /\ Rests(request, Append(b, Top), below, Current)
        /\ [sources EXCEPT ![Len(sources)] = source] = Append(below, source)
        /\ [frames EXCEPT ![Len(frames)] = g] = Append(b, g)
    BY <1>1, Now
  <1>4. HasFields(Top) /\ Top.begun = TRUE /\ Top.shape \in DOMAIN Shape
    BY <1>1, <1>3 DEF IsRecord, HasFields
  <1>5. HasFields(Advanced) /\ Advanced.shape = Top.shape /\ Advanced.begun = TRUE
    BY <1>4, AdvancedIs
  <1>6. Len(l) = 1
    BY LabelOne
  <1>7. s \in DOMAIN Shape
    BY <1>1, <1>4, PartShapes DEF Kind
  <1> HIDE DEF b, below, e, l, s
  <1>8. HasFields(g) /\ g.shape = Top.shape /\ g.begun = TRUE /\ g.label = l
    BY <1>5 DEF HasFields
  <1> HIDE DEF g
  <1>9. IsRecord(request, g) /\ ReadBut(request, g)
    BY <1>1, <1>3, <1>6, <1>8, RecordOther
  <1>10. Poised(request, Append(b, Top), below, source)
    BY <1>1, <1>3, ElementNext
  <1> HIDE DEF source
  <1>11. Poised(request, Append(b, g), below, source)
    BY <1>3, <1>4, <1>8, <1>10, RecordKept
  <1> QED
    BY <1>2, <1>3, <1>7, <1>8, <1>9, <1>11, ICalls

\* It is kept.
LEMMA ElementReturns ==
  ASSUME IInv, LeaveElement
  PROVE  IInv'
  <1> DEFINE v == Append(Top.acc, returned[1])
  <1>1. Resuming({"list"}) /\ Go([Top EXCEPT !.acc = v]) /\ request' = request /\ sources' = sources
    BY DEF LeaveElement
  <1> HIDE DEF v
  <1>2. "object" \notin {"list"}
    OBVIOUS
  <1> QED
    BY <1>1, <1>2, PartKept

\* The end of a list.
LEMMA ListEnds ==
  ASSUME IInv, EndList
  PROVE  IInv'
  <1> DEFINE b == Front(frames)
             below == Front(sources)
             source == IF Current.kind = "json" THEN Take(Current) ELSE Current
  <1>1. /\ frames # <<>> /\ Calling /\ Top.begun /\ Kind(Top) = "list" /\ failure = <<>>
        /\ Encloses(Top) /\ AtEnd(CloseList) /\ CloseList \in Closing
    BY Guards DEF EndList, Encloses, Closing
  <1>2. /\ request' = request /\ sources' = [sources EXCEPT ![Len(sources)] = source]
        /\ frames' = b /\ returned' = <<Top.acc>> /\ failure' = <<>>
    BY <1>1 DEF EndList, Return, Source
  <1>3. /\ request \in Requests /\ IsRequest(request) /\ IsSeq(b) /\ Settled(request, b)
        /\ Rests(request, Append(b, Top), below, Current)
        /\ [sources EXCEPT ![Len(sources)] = source] = Append(below, source)
    BY <1>1, Now
  <1>4. Current.kind = "json" => HasNext(Current) /\ Ahead(Current) \in Closing
    BY <1>1, EndAhead
  <1> HIDE DEF b, below
  <1>5. Rests(request, b, below, source)
    BY <1>1, <1>3, <1>4, ContainerEnded
  <1> HIDE DEF source
  <1> QED
    BY <1>2, <1>3, <1>5, IReturned

\* A tagged union that finds no variant.
LEMMA TaggedRefused ==
  ASSUME IInv, RefuseTagged
  PROVE  IInv'
  <1>1. frames # <<>> /\ ~IsTagged(Top)
    BY Guards DEF RefuseTagged
  <1>2. request' = request /\ sources' = sources /\ \E path : Fail(path)
    BY DEF RefuseTagged
  <1> QED
    BY <1>1, <1>2, FailsHere

\* A tagged union's variant, read from the object it was buffered as.
LEMMA VariantStep ==
  ASSUME IInv, EnterVariant
  PROVE  IInv'
  <1> DEFINE b == Front(frames)
             below == Front(sources)
             document == NextValue(Current)
             name == TagText(document, Tag(Top))
             l == Label("tagged", name)
             i == CHOOSE i \in VariantNamed(Top, name) : TRUE
             a == <<i>>
             g == [Top EXCEPT !.begun = TRUE, !.label = l, !.acc = a]
             s == Variants(Top)[i].of
             rest == Skip(Current)
             d == Omit(document, Tag(Top))
  <1>1. /\ frames # <<>> /\ Calling /\ ~Top.begun /\ Kind(Top) = "tagged" /\ failure = <<>> /\ returned = <<>>
    BY Guards DEF EnterVariant
  <1>2. /\ request' = request /\ HasWhole(Current)
        /\ ~BufferFault(document, Top) /\ ~NotText(document, Top)
        /\ Enter(g, s) /\ sources' = Append([sources EXCEPT ![Len(sources)] = rest], DynamicSource(<<d>>))
    BY DEF EnterVariant
  <1>3. frames' = Append([frames EXCEPT ![Len(frames)] = g], Frame(s)) /\ returned' = <<>> /\ failure' = <<>>
    BY <1>1, <1>2 DEF Enter
  <1>4. /\ request \in Requests /\ IsRequest(request) /\ IsSeq(b) /\ Settled(request, b)
        /\ IsRecord(request, Top) /\ Poised(request, b, below, Current)
        /\ [sources EXCEPT ![Len(sources)] = rest] = Append(below, rest)
        /\ [frames EXCEPT ![Len(frames)] = g] = Append(b, g)
    BY <1>1, Now
  <1>5. VariantNamed(Top, name) # {}
    BY <1>2 DEF BufferFault, NotText
  <1>6. s \in DOMAIN Shape
    BY <1>1, <1>5, VariantShape
  <1>7. Len(l) = 1
    BY LabelOne
  <1>8. HasFields(Top)
    BY <1>4 DEF IsRecord
  <1> HIDE DEF b, below, l, a, s, d
  <1>9. HasFields(g) /\ g.shape = Top.shape /\ g.begun = TRUE /\ g.label = l
    BY <1>8 DEF HasFields
  <1> HIDE DEF g
  <1>10. IsRecord(request, g) /\ ReadBut(request, g) /\ Kind(g) = "tagged"
    BY <1>1, <1>4, <1>7, <1>9, RecordOther
  <1>11. IsTagged(g)
    BY <1>9, <1>10 DEF IsTagged
  <1>12. Rests(request, b, below, rest)
    BY <1>2, <1>4, ValueSkipped
  <1> HIDE DEF rest
  <1>13. Poised(request, Append(b, g), Append(below, rest), DynamicSource(<<d>>))
    BY <1>4, <1>11, <1>12, VariantNext
  <1> QED
    BY <1>2, <1>3, <1>4, <1>6, <1>9, <1>10, <1>13, ICalls

\* It returns, and its source is done with.
LEMMA VariantReturns ==
  ASSUME IInv, LeaveVariant
  PROVE  IInv'
  <1> DEFINE b == Front(frames)
             below == Front(sources)
             v == Append(Top.acc, returned[1])
  <1>1. /\ frames # <<>> /\ Active /\ Kind(Top) = "tagged" /\ failure = <<>> /\ returned # <<>>
    BY Guards DEF LeaveVariant
  <1>2. /\ request' = request /\ sources' = below
        /\ frames' = b /\ returned' = <<v>> /\ failure' = <<>>
    BY <1>1 DEF LeaveVariant, Return
  <1>3. /\ request \in Requests /\ IsSeq(b) /\ Settled(request, b) /\ Top.begun /\ IsSeq(below)
        /\ Rests(request, Append(b, Top), below, Current)
    BY <1>1, Now
  <1>4. IsTagged(Top)
    BY <1>1, <1>3 DEF IsTagged
  <1> HIDE DEF b, below, v
  <1>5. below # <<>> /\ Rests(request, b, Front(below), Last(below))
    BY <1>3, <1>4, VariantRead
  <1>6. below = Append(Front(below), Last(below))
    BY <1>3, <1>5, SeqSplit
  <1> QED
    BY <1>2, <1>3, <1>5, <1>6, IReturned

\* A failure returns.
LEMMA UnwindStep ==
  ASSUME IInv, Unwind
  PROVE  IInv'
  <1> DEFINE b == Front(frames)
             path == Top.label \o failure[1]
  <1>1. /\ frames # <<>> /\ failure # <<>> /\ request' = request /\ returned' = returned
        /\ failure' = <<path>> /\ frames' = b
        /\ sources' = IF Kind(Top) = "tagged" THEN Front(sources) ELSE sources
    BY DEF Unwind
  <1>2. returned = <<>> /\ Len(sources) = 1 + Tags(frames)
    BY <1>1 DEF IInv
  <1>3. /\ request \in Requests /\ IsSeq(b) /\ Settled(request, b) /\ Top.begun /\ frames = Append(b, Top)
        /\ IsSeq(sources) /\ sources # <<>> /\ (~IsTagged(Top) => Len(sources) = 1 + Tags(b))
    BY <1>1, Now
  <1> HIDE DEF b, path
  <1>4. CASE Kind(Top) # "tagged"
    <2>1. IsSeq(sources') /\ sources' # <<>> /\ Len(sources') = 1 + Tags(b)
      BY <1>1, <1>3, <1>4 DEF IsTagged
    <2> QED
      BY <1>1, <1>2, <1>3, <2>1, IFailed
  <1>5. CASE Kind(Top) = "tagged"
    <2>1. Tags(frames) = Tags(b) + 1 /\ Tags(b) \in Nat
      BY <1>3, <1>5, TagsMore DEF IsTagged
    <2>2. sources' = Front(sources) /\ IsSeq(Front(sources)) /\ Len(sources) = Len(Front(sources)) + 1
      BY <1>1, <1>3, <1>5, SeqSplit
    <2>3. Len(Front(sources)) = 1 + Tags(b)
      <3>1. Len(Front(sources)) \in Nat
        BY <2>2, SeqFacts
      <3> QED
        BY <1>2, <2>1, <2>2, <3>1
    <2>4. Front(sources) # <<>>
      BY <2>1, <2>2, <2>3, SeqFacts
    <2> QED
      BY <1>1, <1>2, <1>3, <2>2, <2>3, <2>4, IFailed
  <1> QED
    BY <1>4, <1>5

\* Nothing moves.
LEMMA IStays ==
  ASSUME IInv, UNCHANGED vars
  PROVE  IInv'
  BY DEF IInv, Running, Returning, Current, Top, vars

\* The inductive invariant is.
LEMMA INext ==
  ASSUME IInv, [Next]_vars
  PROVE  IInv'
  <1>1. CASE UNCHANGED vars
    BY <1>1, IStays
  <1>2. CASE Finished
    BY <1>2, IStays DEF Finished
  <1>3. CASE Refuse
    BY <1>3, RefuseStep
  <1>4. CASE ReadScalar
    BY <1>4, ScalarStep
  <1>5. CASE ReadNull
    BY <1>5, NullStep
  <1>6. CASE EnterInner
    BY <1>6, InnerStep
  <1>7. CASE LeaveInner
    BY <1>7, InnerReturns
  <1>8. CASE BeginContainer
    BY <1>8, BeginStep
  <1>9. CASE NoName
    BY <1>9, NoNameStep
  <1>10. CASE SkipUnknown
    BY <1>10, SkipStep
  <1>11. CASE TolerateNull
    BY <1>11, TolerateStep
  <1>12. CASE EnterField
    BY <1>12, FieldStep
  <1>13. CASE LeaveField
    BY <1>13, FieldReturns
  <1>14. CASE EnterEntry
    BY <1>14, EntryStep
  <1>15. CASE LeaveEntry
    BY <1>15, EntryReturns
  <1>16. CASE EnterUnion
    BY <1>16, UnionStep
  <1>17. CASE RefuseUnion
    BY <1>17, UnionRefused
  <1>18. CASE LeaveUnion
    BY <1>18, UnionReturns
  <1>19. CASE EndObject
    BY <1>19, ObjectEnds
  <1>20. CASE EnterElement
    BY <1>20, ElementStep
  <1>21. CASE LeaveElement
    BY <1>21, ElementReturns
  <1>22. CASE EndList
    BY <1>22, ListEnds
  <1>23. CASE RefuseTagged
    BY <1>23, TaggedRefused
  <1>24. CASE EnterVariant
    BY <1>24, VariantStep
  <1>25. CASE LeaveVariant
    BY <1>25, VariantReturns
  <1>26. CASE Unwind
    BY <1>26, UnwindStep
  <1> QED
    BY <1>1, <1>2, <1>3, <1>4, <1>5, <1>6, <1>7, <1>8, <1>9, <1>10, <1>11, <1>12, <1>13, <1>14, <1>15,
       <1>16, <1>17, <1>18, <1>19, <1>20, <1>21, <1>22, <1>23, <1>24, <1>25, <1>26 DEF Next, Moves, Step

\* It holds at first: no record has begun, and the document is all ahead.
LEMMA IInit ==
  ASSUME Init
  PROVE  IInv
  <1> DEFINE f == Frame(request.shape)
             source == SourceFor(request)
  <1>1. /\ request \in Requests /\ frames = <<f>> /\ sources = <<source>>
        /\ returned = <<>> /\ failure = <<>>
    BY DEF Init
  <1>2. IsRequest(request) /\ request.shape \in DOMAIN Shape
    BY <1>1, RequestIs
  <1>3. /\ IsRecord(request, f) /\ ReadAll(request, f) /\ ~f.begun /\ ~Encloses(f) /\ ~IsTagged(f)
    BY <1>2, FrameIs
  <1>4. IsSeq(<<>>) /\ Len(<<>>) = 0 /\ Tags(<<>>) = 0
    BY SeqEmpty, FitsNone
  <1> HIDE DEF f
  <1>5. <<f>> = Append(<<>>, f) /\ <<source>> = Append(<<>>, source)
    OBVIOUS
  <1>6. Settled(request, <<>>)
    BY <1>4 DEF Settled
  <1>7. Sourced(<<>>, <<>>)
    BY <1>4 DEF Sourced
  <1>8. Poised(request, <<>>, <<>>, source)
    <2>1. IsOpen(<<>>)
      BY <1>4 DEF IsOpen
    <2>2. Fits(request, <<>>, <<>>)
      BY <2>1, FitsNone
    <2>3. Sourced(<<>>, <<>>) /\ Under(request, <<>>, <<>>)
      BY <1>4, <1>7 DEF Under
    <2>4. ReadyAt(request, 1, source, <<>>)
      <3>1. CASE request.kind = "json"
        <4>1. source = JsonSource(request.document) /\ IsSeq(request.document) /\ Outer(request, 1)
          BY <1>2, <3>1 DEF SourceFor, IsRequest, Outer
        <4> QED
          BY <4>1, JsonStarts DEF ReadyAt
      <3>2. CASE request.kind # "json"
        <4> DEFINE stack == <<request.document>>
        <4>1. source = DynamicSource(stack) /\ ~Outer(request, 1)
          BY <3>2 DEF SourceFor, Outer
        <4>2. IsSeq(stack) /\ Len(stack) = 1
          BY SeqOne
        <4> HIDE DEF stack
        <4>3. DynamicHolds(source, 1)
          BY <4>1, <4>2 DEF DynamicHolds, DynamicSource
        <4> QED
          BY <4>1, <4>3 DEF ReadyAt
      <3> QED
        BY <3>1, <3>2
    <2>5. 1 + Tags(<<>>) = 1
      BY <1>4
    <2> HIDE DEF source
    <2> QED
      BY <2>1, <2>2, <2>3, <2>4, <2>5 DEF Poised
  <1> HIDE DEF source
  <1>9. /\ IsSeq(sources) /\ sources # <<>> /\ Len(sources) = 1 + Tags(<<>>)
        /\ Front(sources) = <<>> /\ Last(sources) = source
    <2> DEFINE none == <<>>
    <2>1. Sourced(none, none) /\ sources = Append(none, source)
      BY <1>1, <1>5, <1>7
    <2> HIDE DEF none
    <2>2. /\ IsSeq(sources) /\ sources # <<>> /\ Len(sources) = 1 + Tags(none)
          /\ Front(sources) = none /\ Last(sources) = source
      BY <2>1, SourcesAre
    <2> QED
      BY <2>2 DEF none
  <1>10. Tags(frames) = Tags(<<>>) /\ Last(frames) = f /\ Poised(request, frames, <<>>, source)
    <2> DEFINE none == <<>>
    <2>1. IsSeq(none) /\ frames = Append(none, f) /\ Poised(request, none, none, source)
      BY <1>1, <1>4, <1>5, <1>8
    <2> HIDE DEF none
    <2>2. Tags(frames) = Tags(none) /\ Last(frames) = f
      BY <1>3, <2>1, TagsMore, SeqMore
    <2>3. Poised(request, frames, none, source)
      BY <1>3, <2>1, RecordOver
    <2> QED
      BY <2>2, <2>3 DEF none
  <1>11. Calls(request, frames)
    BY <1>1, <1>3, <1>4, <1>5, <1>6, CallsMore
  <1>12. Running
    BY <1>3, <1>9, <1>10, <1>11 DEF Running, Top, Current
  <1> QED
    BY <1>1, <1>9, <1>10, <1>12 DEF IInv, One

----------------------------------------------------------------------------
(* What the inductive invariant says *)

\* Every record is one.
LEMMA AllRecords ==
  ASSUME IInv
  PROVE  IsSeq(frames) /\ \A i \in DOMAIN frames : IsRecord(request, frames[i])
  <1>1. CASE Settled(request, frames)
    <2>1. IsSeq(frames) /\ \A i \in 1..Len(frames) : IsRecord(request, frames[i])
      BY <1>1 DEF Settled
    <2> QED
      BY <2>1, SeqFacts
  <1>2. CASE Calls(request, frames)
    <2> DEFINE b == Front(frames)
               n == Len(b)
    <2>1. /\ IsSeq(frames) /\ frames # <<>> /\ IsRecord(request, Last(frames))
          /\ Settled(request, b)
      BY <1>2 DEF Calls
    <2>2. IsSeq(b) /\ frames = Append(b, Last(frames)) /\ \A i \in 1..n : IsRecord(request, b[i])
      BY <2>1, SeqSplit DEF Settled
    <2> HIDE DEF b
    <2>3. /\ Len(frames) = n + 1 /\ n \in Nat /\ (\A i \in 1..n : frames[i] = b[i])
          /\ frames[n + 1] = Last(frames)
      BY <2>2, SeqMore
    <2> HIDE DEF n
    <2>4. DOMAIN frames = (1..n) \cup {n + 1}
      BY <2>1, <2>3, SeqFacts
    <2> QED
      BY <2>1, <2>2, <2>3, <2>4 DEF n
  <1> QED
    BY <1>1, <1>2 DEF IInv, Returning, Running

\* Where each source stands.
LEMMA AllSources ==
  ASSUME IInv, failure = <<>>
  PROVE  \E open :
           /\ IsOpen(open) /\ Fits(request, frames, open)
           /\ \A k \in DOMAIN sources :
                IF k = Len(sources) /\ AboutToRead THEN ReadyAt(request, k, sources[k], open)
                ELSE RestsAt(request, k, sources[k], open)
  <1> DEFINE below == Front(sources)
             n == Len(below)
  <1>1. IsSeq(sources) /\ sources # <<>> /\ Len(sources) = 1 + Tags(frames)
    BY DEF IInv
  <1>2. IsSeq(below) /\ sources = Append(below, Current)
    BY <1>1, SeqSplit DEF Current
  <1>3. IF AboutToRead THEN Poised(request, frames, below, Current) ELSE Rests(request, frames, below, Current)
    BY DEF IInv, Running, Returning, Calls, AboutToRead
  <1> HIDE DEF below
  <1>4. /\ Len(sources) = n + 1 /\ n \in Nat /\ (\A k \in 1..n : sources[k] = below[k])
        /\ sources[n + 1] = Current
    BY <1>2, SeqMore
  <1>5. PICK open : /\ IsOpen(open) /\ Fits(request, frames, open) /\ Under(request, below, open)
                    /\ IF AboutToRead THEN ReadyAt(request, 1 + Tags(frames), Current, open)
                       ELSE RestsAt(request, 1 + Tags(frames), Current, open)
    BY <1>3 DEF Poised, Rests
  <1>6. \A k \in 1..n : RestsAt(request, k, below[k], open)
    BY <1>5 DEF Under
  <1> HIDE DEF n
  <1>7. DOMAIN sources = (1..n) \cup {n + 1}
    BY <1>1, <1>4, SeqFacts
  <1>8. 1 + Tags(frames) = n + 1
    BY <1>1, <1>4
  <1>9. ASSUME NEW k \in DOMAIN sources
        PROVE  IF k = Len(sources) /\ AboutToRead THEN ReadyAt(request, k, sources[k], open)
               ELSE RestsAt(request, k, sources[k], open)
    <2>1. CASE k \in 1..n
      <3>1. k # Len(sources)
        BY <1>4, <2>1
      <3> QED
        BY <1>4, <1>6, <2>1, <3>1
    <2>2. CASE k = n + 1
      BY <1>4, <1>5, <1>8, <2>2
    <2> QED
      BY <1>7, <2>1, <2>2
  <1> QED
    BY <1>5, <1>9

\* Values and errors.
LEMMA OneLength ==
  ASSUME NEW s, One(s)
  PROVE  Len(s) \in {0, 1}
  <1>1. CASE s = <<>>
    BY <1>1, SeqEmpty
  <1>2. CASE \E v : s = <<v>>
    BY <1>2, SeqOne
  <1> QED
    BY <1>1, <1>2 DEF One

\* The records are of their shapes.
LEMMA TypeHolds ==
  ASSUME IInv
  PROVE  DecoderTypeOK
  <1>1. ASSUME NEW i \in DOMAIN frames
        PROVE  /\ frames[i].shape \in DOMAIN Shape
               /\ frames[i].begun \in BOOLEAN
               /\ Len(frames[i].label) \in {0, 1}
               /\ Kind(frames[i]) = "object" /\ frames[i].begun =>
                    DOMAIN frames[i].acc = DOMAIN Fields(frames[i])
    <2> DEFINE f == frames[i]
    <2>1. IsRecord(request, f)
      BY AllRecords
    <2> HIDE DEF f
    <2>2. /\ f.shape \in DOMAIN Shape /\ f.begun \in BOOLEAN /\ Len(f.label) \in {0, 1}
      BY <2>1 DEF IsRecord, HasFields
    <2>3. Kind(f) = "object" /\ f.begun => DOMAIN f.acc = DOMAIN Fields(f)
      BY <2>1 DEF IsRecord
    <2> QED
      BY <2>2, <2>3 DEF f
  <1>2. One(returned) /\ One(failure) /\ sources # <<>> /\ (returned = <<>> \/ failure = <<>>)
    BY DEF IInv
  <1>3. Len(returned) \in {0, 1} /\ Len(failure) \in {0, 1}
    BY <1>2, OneLength
  <1> QED
    BY <1>1, <1>2, <1>3 DEF DecoderTypeOK

\* A source for each tagged union that reads its variant.
LEMMA SourcesCounted ==
  ASSUME IInv
  PROVE  TaggedRecords = TaggedIx(frames) /\ SourcePerVariant
  <1>1. TaggedRecords = TaggedIx(frames)
    BY DEF TaggedRecords, TaggedIx, IsTagged
  <1>2. Len(sources) = 1 + UpTo(Len(frames), TaggedIx(frames))
    BY DEF IInv, Tags
  <1> QED
    BY <1>1, <1>2 DEF SourcePerVariant, Count, UpTo

\* A dynamicSource holds what is about to be read.
LEMMA HoldsOne ==
  ASSUME IInv
  PROVE  DynamicSourceHoldsOne
  <1> SUFFICES ASSUME failure = <<>>, NEW k \in DOMAIN sources, sources[k].kind = "dynamic"
               PROVE  Len(sources[k].stack) = IF k = Len(sources) /\ AboutToRead THEN 1 ELSE 0
    BY DEF DynamicSourceHoldsOne
  <1>1. PICK open : IF k = Len(sources) /\ AboutToRead THEN ReadyAt(request, k, sources[k], open)
                    ELSE RestsAt(request, k, sources[k], open)
    BY AllSources
  <1>2. ~Outer(request, k)
    BY <1>1, SourceKinds
  <1>3. CASE k = Len(sources) /\ AboutToRead
    BY <1>1, <1>2, <1>3 DEF ReadyAt, DynamicHolds
  <1>4. CASE ~(k = Len(sources) /\ AboutToRead)
    BY <1>1, <1>2, <1>4 DEF RestsAt, DynamicHolds
  <1> QED
    BY <1>3, <1>4

\* jsonSource stands where the records do.
LEMMA JsonHolds ==
  ASSUME IInv
  PROVE  JsonSourceInStep
  <1> DEFINE doc == request.document
             read == SubSeq(doc, 1, Len(doc) - Len(sources[1].rest))
             about == Len(sources) = 1 /\ AboutToRead
  <1> SUFFICES ASSUME failure = <<>>, request.kind = "json"
               PROVE  /\ Len(StandsIn(read)) = Count(Len(frames), OuterRecords)
                      /\ \A i \in OuterRecords :
                           StandsIn(read)[Count(i, OuterRecords)].is
                             = IF Kind(frames[i]) = "list" THEN "List" ELSE "Object"
                      /\ StandsIn(read) # <<>> /\ Last(StandsIn(read)).is = "Object" =>
                           (Last(StandsIn(read)).pending <=> about)
    BY DEF JsonSourceInStep
  <1>1. IsSeq(doc) /\ IsSeq(frames) /\ IsSeq(sources) /\ sources # <<>>
    BY RequestIs, AllRecords DEF IInv, IsRequest
  <1>2. 1 \in DOMAIN sources
    BY <1>1, SeqFacts
  <1>3. PICK open : /\ Fits(request, frames, open)
                    /\ IF about THEN ReadyAt(request, 1, sources[1], open)
                       ELSE RestsAt(request, 1, sources[1], open)
    BY <1>2, AllSources
  <1>4. Outer(request, 1)
    BY DEF Outer
  <1>5. PICK m : /\ sources[1] = JsonSource(Rest(doc, m)) /\ Place(doc, m, open)
                 /\ open # <<>> /\ Last(open).is = "Object" => Last(open).pending = about
    <2>1. CASE about
      BY <1>3, <1>4, <2>1 DEF ReadyAt, JsonReady
    <2>2. CASE ~about
      BY <1>3, <1>4, <2>2 DEF RestsAt, JsonRests
    <2> QED
      BY <2>1, <2>2
  <1> HIDE DEF about
  <1>6. open = StandsIn(read)
    <2>1. m \in 0..Len(doc) /\ open = StandsIn(SubSeq(doc, 1, m))
      BY <1>5 DEF Place, Prefix
    <2>2. Len(doc) \in Nat /\ Len(Rest(doc, m)) = Len(doc) - m
      BY <1>1, <2>1, SeqFacts, RestFacts
    <2>3. sources[1].rest = Rest(doc, m)
      BY <1>5 DEF JsonSource
    <2>4. Len(doc) - Len(sources[1].rest) = m
      BY <2>1, <2>2, <2>3
    <2> QED
      BY <2>1, <2>4
  <1> HIDE DEF read, doc
  <1>7. OuterRecords = OuterIx(request, frames)
    <2>1. ASSUME NEW i \in DOMAIN frames
          PROVE  Outer(request, 1 + UpTo(i - 1, TaggedIx(frames))) <=> Count(i - 1, TaggedRecords) = 0
      <3>1. i - 1 \in Nat
        BY <1>1, SeqFacts
      <3>2. UpTo(i - 1, TaggedIx(frames)) \in Nat
        BY <3>1, UpToNat
      <3>3. Count(i - 1, TaggedRecords) = UpTo(i - 1, TaggedIx(frames))
        BY SourcesCounted DEF Count, UpTo
      <3> QED
        BY <3>2, <3>3 DEF Outer
    <2> QED
      BY <2>1 DEF OuterRecords, OuterIx, Encloses
  <1>8. \A i : Count(i, OuterRecords) = UpTo(i, OuterIx(request, frames))
    BY <1>7 DEF Count, UpTo
  <1> QED
    BY <1>3, <1>5, <1>6, <1>7, <1>8 DEF Fits, Is

\* One value has been read.
LEMMA OneIsRead ==
  ASSUME IInv
  PROVE  OneValueRead
  <1> DEFINE doc == request.document
  <1> SUFFICES ASSUME Decoded
               PROVE  IF request.kind = "dynamic" THEN sources = <<DynamicSource(<<>>)>>
                      ELSE /\ HasValue(doc)
                           /\ sources = <<JsonSource(SubSeq(doc, ValueLength(doc) + 1, Len(doc)))>>
    BY DEF OneValueRead
  <1>1. frames = <<>> /\ failure = <<>> /\ returned # <<>>
    BY DEF Decoded
  <1>2. /\ IsSeq(sources) /\ sources # <<>> /\ Len(sources) = 1 + Tags(frames)
        /\ Rests(request, frames, Front(sources), Current)
    BY <1>1 DEF IInv, Returning
  <1>3. Tags(frames) = 0
    BY <1>1, FitsNone
  <1>4. sources = <<Current>>
    <2> DEFINE one == <<Current>>
    <2>1. IsSeq(one) /\ Len(one) = 1 /\ one[1] = Current
      BY SeqOne
    <2>2. Len(sources) = 1
      BY <1>2, <1>3
    <2>3. sources[1] = Current
      BY <2>2 DEF Current, Last
    <2> HIDE DEF one
    <2>4. sources = one
      BY <1>2, <2>1, <2>2, <2>3, SeqSame
    <2> QED
      BY <2>4 DEF one
  <1>5. RestsAt(request, 1, Current, <<>>)
    <2>1. PICK open : IsOpen(open) /\ Fits(request, frames, open) /\ RestsAt(request, 1 + Tags(frames), Current, open)
      BY <1>2 DEF Rests
    <2>2. open = <<>>
      BY <1>1, <2>1, FitsNone
    <2> QED
      BY <1>3, <2>1, <2>2
  <1>6. CASE request.kind = "dynamic"
    <2>1. DynamicHolds(Current, 0)
      BY <1>5, <1>6 DEF RestsAt, Outer
    <2>2. Current.stack = <<>> /\ Current = DynamicSource(Current.stack)
      BY <2>1, SeqFacts DEF DynamicHolds
    <2> QED
      BY <1>4, <1>6, <2>2
  <1>7. CASE request.kind = "json"
    <2>1. JsonRests(doc, Current, <<>>) /\ IsSeq(doc)
      BY <1>5, <1>7, RequestIs DEF RestsAt, Outer, IInv, IsRequest
    <2>2. PICK m : Current = JsonSource(Rest(doc, m)) /\ Place(doc, m, <<>>) /\ m > 0
      BY <2>1 DEF JsonRests
    <2>3. HasValue(doc) /\ ValueLength(doc) = m
      BY <2>1, <2>2, PlaceWhole
    <2> QED
      BY <1>4, <1>7, <2>2, <2>3 DEF Rest
  <1> QED
    BY <1>6, <1>7, RequestIs DEF IInv, IsRequest

\* An object is returned at its end alone, and whole.
LEMMA WholeReturned ==
  ASSUME IInv, [Next]_vars
  PROVE  [ReturnsWhole]_vars
  <1> SUFFICES ASSUME Next, Reading({"object"}), frames' = Front(frames), returned' # <<>>,
                      NEW i \in DOMAIN Fields(Top)
               PROVE  Fields(Top)[i].optional \/ returned'[1][i] # <<>>
    BY DEF ReturnsWhole
  <1>1. /\ frames # <<>> /\ Calling /\ Top.begun /\ Kind(Top) = "object"
        /\ returned = <<>> /\ failure = <<>>
    BY Guards
  <1>2. EndObject
    <2>1. ~Finished /\ ~Unwind
      BY <1>1 DEF Finished, Unwind
    <2>2. /\ ~Refuse /\ ~ReadScalar /\ ~ReadNull /\ ~EnterInner /\ ~BeginContainer
          /\ ~RefuseTagged /\ ~EnterVariant
      BY <1>1 DEF Refuse, ReadScalar, ReadNull, EnterInner, BeginContainer, RefuseTagged, EnterVariant, Entering
    <2>3. /\ ~LeaveInner /\ ~LeaveField /\ ~LeaveEntry /\ ~LeaveUnion /\ ~LeaveElement /\ ~LeaveVariant
      BY <1>1 DEF LeaveInner, LeaveField, LeaveEntry, LeaveUnion, LeaveElement, LeaveVariant, Resuming
    <2>4. /\ ~EnterEntry /\ ~EnterUnion /\ ~RefuseUnion /\ ~EnterElement /\ ~EndList
      BY <1>1 DEF EnterEntry, EnterUnion, RefuseUnion, EnterElement, EndList, CallsBack, Reading
    <2>5. ~NoName /\ ~SkipUnknown /\ ~TolerateNull /\ ~EnterField
      BY <1>1 DEF NoName, SkipUnknown, TolerateNull, EnterField, Fail, Go, Enter
    <2> QED
      BY <2>1, <2>2, <2>3, <2>4, <2>5 DEF Next, Moves, Step
  <1>3. Missing(Top) = {} /\ returned' = <<Top.acc>>
    BY <1>1, <1>2 DEF EndObject, Return, Fail
  <1>4. returned'[1] = Top.acc
    BY <1>3, OneIs
  <1>5. Kept(request, Top, i)
    BY <1>1, Now DEF ReadAll
  <1>6. Fields(Top)[i].optional \/ SpelledName(Fields(Top), request.strategy, i) \in Top.seen
    BY <1>3 DEF Missing
  <1> QED
    BY <1>4, <1>5, <1>6 DEF Kept

----------------------------------------------------------------------------
(* Theorems *)

\* The call stack and its sources, in every state a decode comes to: a call has
\* called each below it and read what it has seen, and every source stands
\* where the records that read it do.
THEOREM Inductive == Spec => []IInv
  <1>1. Init => IInv
    BY IInit
  <1>2. IInv /\ [Next]_vars => IInv'
    BY INext
  <1> QED
    BY <1>1, <1>2, PTL DEF Spec

\* Between any two steps each source stands where the call stack stands,
\* whatever is decoded (json_decode.go, dynamic_source.go): a dynamicSource
\* holds the value about to be read and no other, and jsonSource has entered
\* exactly the containers the records are in.
THEOREM DecodesInStepAlways == Spec => []DecodesInStep
  <1>1. IInv => DecodesInStep
    BY TypeHolds, SourcesCounted, HoldsOne, JsonHolds DEF DecodesInStep
  <1> QED
    BY <1>1, Inductive, PTL

\* A decode that returns a value has read the first value of its document, to
\* its last token and no further, however the schemas share the reading of it
\* (json_decode.go, object_codec.go).
THEOREM OneValueReadAlways == Spec => []OneValueRead
  <1>1. IInv => OneValueRead
    BY OneIsRead
  <1> QED
    BY <1>1, Inductive, PTL

\* No object's decode returns without a value for a field that is not optional
\* (object_codec.go): what was seen is what was read.
THEOREM ObjectsWholeAlways == Spec => ObjectsAreWhole
  <1>1. IInv /\ [Next]_vars => [ReturnsWhole]_vars
    BY WholeReturned
  <1> QED
    BY <1>1, Inductive, PTL DEF Spec, ObjectsAreWhole
=============================================================================
