---------------------------- MODULE EncoderProofs ----------------------------
(***************************************************************************)
(* An encode keeps to its sink's contract, for every set of schemas,       *)
(* values, strategies and keys.                                            *)
(*                                                                         *)
(* The invariant, IInv, is that the document stands where the call stack   *)
(* stands.  While nothing has failed (Goes):                               *)
(*   - every record but the top one is writing a part (Active), and over a *)
(*     tagged union's stands an object's, or a wrapper of one (Variants);  *)
(*   - there is one tagSink per tagged union under way (TagsFit), whose    *)
(*     depth is the number of objects open above that union (Depths), so   *)
(*     that it is zero exactly until the variant's own object begins;      *)
(*   - the sink has one container per container's record, of its kind, with *)
(*     the names that record has given it, and awaits the value of the last *)
(*     one while there is a record above that is not a tagged union's      *)
(*     (DocFits); without a container it is at its root (RootFits).        *)
(* Once something has failed, nothing more is written, and each record     *)
(* left on the stack was writing a part (Failed).                          *)
(*                                                                         *)
(* That says what fits, not what was written.  WrittenInv says that: when  *)
(* each record, from the top down, has written what it has left (Finish),  *)
(* the sink has been told what the value is made of (Final).  Every step   *)
(* writes what the record on top had left, or divides it between that      *)
(* record and one more, so it comes to the same.                           *)
(***************************************************************************)
EXTENDS Encoder, DocumentFacts

----------------------------------------------------------------------------
(* What a record writes. *)

\* s lists members of S up to n, each before the greater ones.
Increasing(s, S, n) ==
  /\ IsSeq(s)
  /\ \A k \in 1..Len(s) : s[k] \in S /\ s[k] \in 1..n
  /\ \A j, k \in 1..Len(s) : j < k => s[j] < s[k]

\* f is InOrder's reading of S up to n.
Orders(S, n, f) ==
  f = [i \in 0..n |->
         IF i = 0 THEN <<>> ELSE IF i \in S THEN Append(f[i - 1], i) ELSE f[i - 1]]

\* InOrder's reading of a set is a function that exists.
LEMMA OrdersExist ==
  \A S : \A n \in Nat : \E f : Orders(S, n, f)
  <1> TAKE S
  <1> DEFINE N == {n \in Nat : \E f : Orders(S, n, f)}
  <1>1. 0 \in N
    <2> DEFINE r == [i \in 0..0 |-> <<>>]
    <2>1. Orders(S, 0, r)
      BY DEF Orders
    <2> QED
      BY <2>1
  <1>2. ASSUME NEW n \in Nat, n \in N PROVE n + 1 \in N
    <2>1. PICK r : Orders(S, n, r)
      BY <1>2
    <2> DEFINE more == IF n + 1 \in S THEN Append(r[n], n + 1) ELSE r[n]
               q == [i \in 0..(n + 1) |-> IF i = n + 1 THEN more ELSE r[i]]
    <2>2. \A i \in 0..(n + 1) :
            q[i] = IF i = 0 THEN <<>> ELSE IF i \in S THEN Append(q[i - 1], i) ELSE q[i - 1]
      <3> TAKE i \in 0..(n + 1)
      <3>1. CASE i = n + 1
        <4>1. i # 0 /\ i - 1 = n /\ n \in 0..(n + 1) /\ n # n + 1
          BY <3>1
        <4>2. q[i] = more /\ q[i - 1] = r[n]
          BY <3>1, <4>1
        <4> HIDE DEF q
        <4> QED
          BY <3>1, <4>1, <4>2
      <3>2. CASE i \in 0..n /\ i # 0
        <4>1. i - 1 \in 0..(n + 1) /\ i - 1 # n + 1 /\ i # n + 1
          BY <3>2
        <4> HIDE DEF more
        <4> QED
          BY <2>1, <3>2, <4>1 DEF Orders
      <3>3. CASE i = 0
        BY <2>1, <3>3 DEF Orders
      <3> QED
        BY <3>1, <3>2, <3>3
    <2>3. Orders(S, n + 1, q)
      <3>1. q = [i \in 0..(n + 1) |-> q[i]]
        OBVIOUS
      <3> HIDE DEF q
      <3> QED
        BY <2>2, <3>1 DEF Orders
    <2> QED
      BY <2>3
  <1>3. Nat \subseteq N
    BY <1>1, <1>2, SetInduction
  <1> QED
    BY <1>3

\* InOrder lists members of the set, each before the greater ones.
LEMMA InOrderIncreases ==
  ASSUME NEW S, NEW n \in Nat
  PROVE  Increasing(InOrder(S, n), S, n)
  <1>1. PICK f : Orders(S, n, f) /\ InOrder(S, n) = f[n]
    <2>1. \E f : Orders(S, n, f)
      BY OrdersExist
    <2> QED
      BY <2>1 DEF InOrder, Orders
  <1> DEFINE N == {i \in Nat : i <= n => Increasing(f[i], S, i)}
  <1>2. 0 \in N
    <2>1. f[0] = <<>>
      BY <1>1 DEF Orders
    <2> QED
      BY <2>1, SeqEmpty DEF Increasing
  <1>3. ASSUME NEW i \in Nat, i \in N PROVE i + 1 \in N
    <2> SUFFICES ASSUME i + 1 <= n PROVE Increasing(f[i + 1], S, i + 1)
      OBVIOUS
    <2>1. Increasing(f[i], S, i)
      BY <1>3
    <2>2. f[i + 1] = IF i + 1 \in S THEN Append(f[i], i + 1) ELSE f[i]
      <3>1. i + 1 \in 0..n /\ i + 1 # 0 /\ (i + 1) - 1 = i
        OBVIOUS
      <3> QED
        BY <1>1, <3>1 DEF Orders
    <2>3. IsSeq(f[i]) /\ Len(f[i]) \in Nat
      BY <2>1, SeqFacts DEF Increasing
    <2>4. CASE i + 1 \in S
      <3> DEFINE s == f[i]
                 t == Append(s, i + 1)
      <3>1. /\ IsSeq(t) /\ Len(t) = Len(s) + 1 /\ t[Len(s) + 1] = i + 1
            /\ \A k \in 1..Len(s) : t[k] = s[k]
        BY <2>3, SeqAppend
      <3> HIDE DEF t, s
      <3>2. Increasing(t, S, i + 1)
        <4>1. Len(s) \in Nat
          BY <2>3 DEF s
        <4>2. ASSUME NEW k \in 1..Len(t) PROVE t[k] \in S /\ t[k] \in 1..(i + 1)
          <5>1. CASE k = Len(s) + 1
            BY <2>4, <3>1, <5>1
          <5>2. CASE k \in 1..Len(s)
            <6>1. t[k] = s[k] /\ s[k] \in S /\ s[k] \in 1..i
              BY <2>1, <3>1, <5>2 DEF Increasing, s
            <6> QED
              BY <6>1
          <5> QED
            BY <3>1, <4>1, <5>1, <5>2
        <4>3. ASSUME NEW j \in 1..Len(t), NEW k \in 1..Len(t), j < k PROVE t[j] < t[k]
          <5>1. j \in 1..Len(s)
            BY <3>1, <4>1, <4>3
          <5>2. t[j] = s[j] /\ s[j] \in 1..i
            BY <2>1, <3>1, <5>1 DEF Increasing, s
          <5>3. CASE k = Len(s) + 1
            BY <3>1, <5>2, <5>3
          <5>4. CASE k \in 1..Len(s)
            BY <2>1, <3>1, <4>3, <5>1, <5>4 DEF Increasing, s
          <5> QED
            BY <3>1, <4>1, <5>3, <5>4
        <4> QED
          BY <3>1, <4>2, <4>3 DEF Increasing
      <3> QED
        BY <2>2, <2>4, <3>2 DEF t, s
    <2>5. CASE i + 1 \notin S
      BY <2>1, <2>2, <2>5 DEF Increasing
    <2> QED
      BY <2>4, <2>5
  <1>4. Nat \subseteq N
    BY <1>2, <1>3, SetInduction
  <1> QED
    BY <1>1, <1>4

\* The records with a container open, with a tagSink on, with an object open.
OpenIx(fr) == {i \in 1..Len(fr) : fr[i].begun /\ Kind(fr[i]) \in Containers}
TaggedIx(fr) == {i \in 1..Len(fr) : fr[i].begun /\ Kind(fr[i]) = "tagged"}
ObjectIx(fr) == {i \in OpenIx(fr) : Kind(fr[i]) # "list"}

\* A record: it has begun or has no part yet, and one that refuses never begins.
IsFrame(f) ==
  /\ f \in [shape : DOMAIN Shape, value : Values[f.shape], begun : BOOLEAN, at : Nat]
  /\ IF f.begun
     THEN /\ Kind(f) \in Containers \cup {"tagged"} /\ ~Refuses(f)
          /\ f.at <= Len(Parts(f))
          /\ Kind(f) = "tagged" => f.at = 1
     ELSE f.at = 0

\* A stack of records.
Stacked(fr) == IsSeq(fr) /\ \A i \in 1..Len(fr) : IsFrame(fr[i])

\* The records up to m are each writing a part.
Active(fr, m) == \A i \in 1..m : fr[i].begun /\ fr[i].at > 0

\* What stands over a tagged union's record is its variant.
IsVariant(s, tag) ==
  IsObject(s) /\ \A k \in DOMAIN FieldsOf(s) : FieldsOf(s)[k].name # tag

Variants(fr) ==
  \A i \in 1..(Len(fr) - 1) :
    Kind(fr[i]) = "tagged" => IsVariant(fr[i + 1].shape, Shape[fr[i].shape].tag)

\* One tagSink.
IsTag(tag) == tag \in [name : {tag.name}, value : {tag.value}, depth : Nat]

\* One tagSink per tagged union whose variant is under way.
TagsFit(fr, tg) ==
  /\ IsSeq(tg) /\ Len(tg) = UpTo(Len(fr), TaggedIx(fr))
  /\ \A j \in 1..Len(tg) : IsTag(tg[j])

\* The name of the variant a tagged union's record has chosen.
Chosen(f) == Shape[f.shape].variants[f.value[1]].name

\* The tagSink of a tagged union has its tag's name and its variant's, and has
\* counted the objects open above that union.
Depths(fr, tg) ==
  \A i \in TaggedIx(fr) :
    /\ tg[UpTo(i, TaggedIx(fr))].name = Spell[input.strategy][Shape[fr[i].shape].tag]
    /\ tg[UpTo(i, TaggedIx(fr))].value = Chosen(fr[i])
    /\ tg[UpTo(i, TaggedIx(fr))].depth + UpTo(i, ObjectIx(fr)) = UpTo(Len(fr), ObjectIx(fr))

\* The tag that record i's object begins with, if it is a variant's own.
TagAt(fr, i) ==
  IF i > 1 /\ Kind(fr[i - 1]) = "tagged"
  THEN <<Spell[input.strategy][Shape[fr[i - 1].shape].tag]>> ELSE <<>>

\* The names of a record's first n parts.
Labels(f, n) == [k \in 1..n |-> Parts(f)[k].label.part]

\* Record i awaits the value of its last part: a record above is writing it,
\* while a tagged union's own has written nothing yet.
Awaits(fr, i) == \E j \in (i + 1)..Len(fr) : j \notin TaggedIx(fr)

\* Every name record i has given the sink, the tag first.
Given(fr, i) == TagAt(fr, i) \o Labels(fr[i], fr[i].at)

\* How many of record i's parts are whole.
PartsDone(fr, i) == IF Awaits(fr, i) THEN fr[i].at - 1 ELSE fr[i].at

\* The container of record i, as the sink has it.
RecordFits(fr, sk, i) ==
  LET k == UpTo(i, OpenIx(fr))
  IN  IF Kind(fr[i]) = "list" THEN OpenIn(sk)[k].is = "List" /\ Counts(sk, k, PartsDone(fr, i))
      ELSE /\ OpenIn(sk)[k].is = "Object"
           /\ IF Awaits(fr, i) THEN Holds(sk, k, Given(fr, i), TRUE)
              ELSE Holds(sk, k, Given(fr, i), FALSE)

\* The containers the sink has open are the records', in order.
DocFits(fr, sk) ==
  /\ Len(OpenIn(sk)) = UpTo(Len(fr), OpenIx(fr))
  /\ \A i \in OpenIx(fr) : RecordFits(fr, sk, i)

\* With no container open, the document has its root or awaits it.
RootFits(fr, sk) ==
  OpenIn(sk) = <<>> =>
    IF fr = <<>> \/ fr[Len(fr)].begun THEN Rooted(sk)
    ELSE sk.kind = "json" => sk.out = <<>>

\* What holds of the stack, the tagSinks and the sink while the encode goes on.
Goes(fr, tg, sk) ==
  /\ Stacked(fr) /\ Active(fr, Len(fr) - 1) /\ Variants(fr)
  /\ TagsFit(fr, tg) /\ Depths(fr, tg)
  /\ IsSink(sk) /\ sk.kind = input.kind /\ sk.err = "none"
  /\ DocFits(fr, sk) /\ RootFits(fr, sk)

\* What holds of them once it has failed.
Failed(fr, tg, sk) ==
  /\ Stacked(fr) /\ Active(fr, Len(fr))
  /\ TagsFit(fr, tg)
  /\ IsSink(sk) /\ sk.kind = input.kind /\ sk.err \in {"none", "duplicate"}

\* The inductive invariant.
IInv ==
  /\ input \in Inputs
  /\ IF failure = <<>> THEN Goes(frames, tags, sink)
     ELSE Len(failure) = 1 /\ Failed(frames, tags, sink)
  /\ sink.err = "duplicate" => input.strategy # Literal

----------------------------------------------------------------------------
(* The parts of a record. *)

\* A part is of a schema and of a value of its.
IsPart(p) == p.of \in DOMAIN Shape /\ p.value \in Values[p.of]

\* An object's parts are of schemas and of values of theirs.
LEMMA FieldPartsSound ==
  ASSUME NEW f, f.shape \in DOMAIN Shape, f.value \in Values[f.shape], Kind(f) = "object"
  PROVE  IsSeq(FieldParts(f)) /\ \A k \in 1..Len(FieldParts(f)) : IsPart(FieldParts(f)[k])
  <1> DEFINE fields == Shape[f.shape].fields
             v == f.value
             S == {i \in DOMAIN fields : ~(fields[i].optional /\ f.value[i] = <<>>)}
             written == InOrder(S, Len(fields))
             P(k) == Part("object", SpelledName(fields, input.strategy, written[k]),
                          fields[written[k]].of, v[written[k]][1])
  <1>1. /\ Len(fields) \in Nat /\ DOMAIN fields = 1..Len(fields)
        /\ \A i \in DOMAIN fields : fields[i].of \in DOMAIN Shape
    BY ShapeAssumption DEF Kind, Listed, FieldsSound, AllUsable, Usable
  <1>2. \A i \in DOMAIN fields : /\ v[i] = <<>> => fields[i].optional
                                 /\ v[i] # <<>> => v[i][1] \in Values[fields[i].of]
    BY ValueAssumption DEF Kind
  <1>3. Increasing(written, S, Len(fields))
    BY <1>1, InOrderIncreases
  <1>4. FieldParts(f) = [k \in DOMAIN written |-> P(k)]
    BY ZenonT(60) DEF FieldParts
  <1> DEFINE n == Len(written)
             parts == [k \in 1..n |-> P(k)]
  <1>5. IsSeq(written) /\ n \in Nat /\ DOMAIN written = 1..n
    BY <1>3, SeqFacts DEF Increasing
  <1>6. \A k \in 1..n : written[k] \in S
    BY <1>3, ZenonT(60) DEF Increasing
  <1> HIDE DEF written
  <1>7. \A k \in 1..n : IsPart(P(k))
    BY <1>1, <1>2, <1>6 DEF IsPart, Part
  <1>8. DOMAIN parts = 1..n /\ parts = [k \in 1..n |-> parts[k]] /\ \A k \in 1..n : parts[k] = P(k)
    OBVIOUS
  <1> HIDE DEF parts, P, n
  <1>9. IsSeq(parts) /\ Len(parts) = n
    BY <1>5, <1>8, SeqMake
  <1>10. FieldParts(f) = parts
    BY <1>4, <1>5 DEF parts
  <1> QED
    BY <1>7, <1>8, <1>9, <1>10

\* So is a union's, which is its chosen variant's.
LEMMA VariantPartSound ==
  ASSUME NEW f, f.shape \in DOMAIN Shape, f.value \in Values[f.shape],
         Kind(f) \in {"union", "tagged"}, f.value[1] # 0
  PROVE  /\ IsPart(VariantPart(f))
         /\ f.value[1] \in DOMAIN Shape[f.shape].variants
         /\ VariantPart(f).of = Shape[f.shape].variants[f.value[1]].of
  <1> DEFINE variants == Shape[f.shape].variants
  <1>1. /\ Len(variants) \in Nat /\ DOMAIN variants = 1..Len(variants)
        /\ \A i \in DOMAIN variants : variants[i].of \in DOMAIN Shape
    BY ShapeAssumption DEF Kind, Listed, VariantsSound, AllUsable, Usable
  <1>2. f.value[1] \in 0..Len(variants) /\ f.value[2] \in Values[variants[f.value[1]].of]
    BY ValueAssumption DEF Kind
  <1>3. f.value[1] \in DOMAIN variants
    BY <1>1, <1>2
  <1> QED
    BY <1>1, <1>2, <1>3 DEF IsPart, VariantPart, Part

\* So are a list's.
LEMMA ElementPartsSound ==
  ASSUME NEW f, f.shape \in DOMAIN Shape, f.value \in Values[f.shape], Kind(f) = "list"
  PROVE  IsSeq(ElementParts(f)) /\ \A k \in 1..Len(ElementParts(f)) : IsPart(ElementParts(f)[k])
  <1> DEFINE of == Shape[f.shape].of
             v == f.value
             n == Len(v)
             P(k) == Part("list", ToString(k - 1), of, v[k])
             parts == [k \in 1..n |-> P(k)]
  <1>1. of \in DOMAIN Shape
    BY ShapeAssumption DEF Kind, Usable
  <1>2. v \in Seq(Values[of])
    BY ValueAssumption DEF Kind
  <1>3. n \in Nat /\ DOMAIN v = 1..n /\ \A k \in 1..n : v[k] \in Values[of]
    BY <1>2
  <1>4. \A k \in 1..n : IsPart(P(k))
    BY <1>1, <1>3 DEF IsPart, Part
  <1>5. ElementParts(f) = parts
    BY <1>3 DEF ElementParts
  <1>6. DOMAIN parts = 1..n /\ parts = [k \in 1..n |-> parts[k]] /\ \A k \in 1..n : parts[k] = P(k)
    OBVIOUS
  <1> HIDE DEF parts, P, n
  <1>7. IsSeq(parts) /\ Len(parts) = n
    BY <1>3, <1>6, SeqMake
  <1> QED
    BY <1>4, <1>5, <1>6, <1>7

\* So are a map's.
LEMMA EntryPartsSound ==
  ASSUME NEW f, f.shape \in DOMAIN Shape, f.value \in Values[f.shape], Kind(f) = "map"
  PROVE  IsSeq(EntryParts(f)) /\ \A k \in 1..Len(EntryParts(f)) : IsPart(EntryParts(f)[k])
  <1> DEFINE of == Shape[f.shape].of
             v == f.value
             S == {i \in DOMAIN Keys : Keys[i] \in DOMAIN f.value}
             held == InOrder(S, Len(Keys))
             P(k) == Part("map", Keys[held[k]], of, v[Keys[held[k]]])
             n == Len(held)
             parts == [k \in 1..n |-> P(k)]
  <1>1. of \in DOMAIN Shape
    BY ShapeAssumption DEF Kind, Usable
  <1>2. \A key \in DOMAIN v : v[key] \in Values[of]
    BY ValueAssumption DEF Kind
  <1>3. Len(Keys) \in Nat
    BY NameAssumption
  <1>4. Increasing(held, S, Len(Keys))
    BY <1>3, InOrderIncreases
  <1>5. IsSeq(held) /\ n \in Nat /\ DOMAIN held = 1..n /\ \A k \in 1..n : held[k] \in S
    BY <1>4, SeqFacts DEF Increasing
  <1>6. EntryParts(f) = parts
    BY <1>5 DEF EntryParts
  <1> HIDE DEF held
  <1>7. \A k \in 1..n : IsPart(P(k))
    BY <1>1, <1>2, <1>5 DEF IsPart, Part
  <1>8. DOMAIN parts = 1..n /\ parts = [k \in 1..n |-> parts[k]] /\ \A k \in 1..n : parts[k] = P(k)
    OBVIOUS
  <1> HIDE DEF parts, P, n
  <1>9. IsSeq(parts) /\ Len(parts) = n
    BY <1>5, <1>8, SeqMake
  <1> QED
    BY <1>6, <1>7, <1>8, <1>9

\* So are every record's, and a tagged union's is the only one.
LEMMA PartsSound ==
  ASSUME NEW f, f.shape \in DOMAIN Shape, f.value \in Values[f.shape],
         Kind(f) \in Containers \cup {"tagged"}, ~Refuses(f)
  PROVE  /\ IsSeq(Parts(f)) /\ Len(Parts(f)) \in Nat
         /\ \A k \in 1..Len(Parts(f)) : IsPart(Parts(f)[k])
         /\ Kind(f) = "tagged" => Len(Parts(f)) = 1
  <1>1. CASE Kind(f) = "object"
    BY <1>1, FieldPartsSound, SeqFacts DEF Parts
  <1>2. CASE Kind(f) \in {"union", "tagged"}
    <2>1. f.value[1] # 0
      BY <1>2 DEF Refuses
    <2>2. Parts(f) = <<VariantPart(f)>>
      BY <1>2 DEF Parts
    <2>3. IsPart(VariantPart(f))
      BY <1>2, <2>1, VariantPartSound
    <2>4. IsSeq(<<VariantPart(f)>>) /\ Len(<<VariantPart(f)>>) = 1 /\ <<VariantPart(f)>>[1] = VariantPart(f)
      BY SeqOne
    <2> QED
      BY <2>2, <2>3, <2>4
  <1>3. CASE Kind(f) = "list"
    BY <1>3, ElementPartsSound, SeqFacts DEF Parts
  <1>4. CASE Kind(f) = "map"
    BY <1>4, EntryPartsSound, SeqFacts DEF Parts
  <1> QED
    BY <1>1, <1>2, <1>3, <1>4 DEF Containers

\* What a record writes depends on the encoding, its shape and its value.
LEMMA PartsStay ==
  ASSUME input' = input, NEW f
  PROVE  Parts(f)' = Parts(f) /\ Refuses(f)' = Refuses(f)
  BY DEF Parts, FieldParts, VariantPart, ElementParts, EntryParts, Refuses, Kind

\* Records of one schema and value write the same, however far they are.
LEMMA PartsAlike ==
  ASSUME NEW f, NEW g, g.shape = f.shape, g.value = f.value
  PROVE  Parts(g) = Parts(f) /\ Refuses(g) = Refuses(f) /\ Kind(g) = Kind(f)
  BY DEF Parts, FieldParts, VariantPart, ElementParts, EntryParts, Refuses, Kind

----------------------------------------------------------------------------
(* tagSink, layer over layer. *)

\* f is Layered's passing of BeginObject through the first n layers.
Layers(tg, into, n, f) ==
  f = [i \in 0..n |->
         IF i = 0 THEN into
         ELSE IF tg[i].depth = 0 THEN SinkTag(f[i - 1], tg[i].name, tg[i].value) ELSE f[i - 1]]

\* Layered's passing of a call through the layers is a function that exists.
LEMMA LayersExist ==
  \A tg, into : \A n \in Nat : \E f : Layers(tg, into, n, f)
  <1> TAKE tg, into
  <1> DEFINE N == {n \in Nat : \E f : Layers(tg, into, n, f)}
  <1>1. 0 \in N
    <2> DEFINE r == [i \in 0..0 |-> into]
    <2>1. Layers(tg, into, 0, r)
      BY DEF Layers
    <2> QED
      BY <2>1
  <1>2. ASSUME NEW n \in Nat, n \in N PROVE n + 1 \in N
    <2>1. PICK r : Layers(tg, into, n, r)
      BY <1>2
    <2> DEFINE more == IF tg[n + 1].depth = 0 THEN SinkTag(r[n], tg[n + 1].name, tg[n + 1].value) ELSE r[n]
               q == [i \in 0..(n + 1) |-> IF i = n + 1 THEN more ELSE r[i]]
    <2>2. \A i \in 0..(n + 1) :
            q[i] = IF i = 0 THEN into
                   ELSE IF tg[i].depth = 0 THEN SinkTag(q[i - 1], tg[i].name, tg[i].value) ELSE q[i - 1]
      <3> TAKE i \in 0..(n + 1)
      <3>1. CASE i = n + 1
        <4>1. i # 0 /\ i - 1 = n /\ n \in 0..(n + 1) /\ n # n + 1
          BY <3>1
        <4>2. q[i] = more /\ q[i - 1] = r[n]
          BY <3>1, <4>1
        <4> HIDE DEF q
        <4> QED
          BY <3>1, <4>1, <4>2
      <3>2. CASE i \in 0..n /\ i # 0
        <4>1. i - 1 \in 0..(n + 1) /\ i - 1 # n + 1 /\ i # n + 1
          BY <3>2
        <4> HIDE DEF more
        <4> QED
          BY <2>1, <3>2, <4>1 DEF Layers
      <3>3. CASE i = 0
        BY <2>1, <3>3 DEF Layers
      <3> QED
        BY <3>1, <3>2, <3>3
    <2>3. Layers(tg, into, n + 1, q)
      <3>1. q = [i \in 0..(n + 1) |-> q[i]]
        OBVIOUS
      <3> HIDE DEF q
      <3> QED
        BY <2>2, <3>1 DEF Layers
    <2> QED
      BY <2>3
  <1>3. Nat \subseteq N
    BY <1>1, <1>2, SetInduction
  <1> QED
    BY <1>3

\* A layer is what began as long as no layer up to it awaits its first object.
LEMMA LayersAlone ==
  ASSUME NEW into, NEW n \in Nat, NEW f, Layers(tags, into, n, f), NEW k \in 0..n,
         \A j \in 1..k : tags[j].depth # 0
  PROVE  f[k] = into
  <1> DEFINE N == {i \in Nat : i <= k => f[i] = into}
  <1>1. 0 \in N
    BY DEF Layers
  <1>2. ASSUME NEW i \in Nat, i \in N PROVE i + 1 \in N
    <2> SUFFICES ASSUME i + 1 <= k PROVE f[i + 1] = into
      OBVIOUS
    <2>1. f[i] = into
      BY <1>2
    <2>2. i + 1 \in 0..n /\ i + 1 # 0 /\ (i + 1) - 1 = i /\ i + 1 \in 1..k
      OBVIOUS
    <2>3. tags[i + 1].depth # 0
      BY <2>2
    <2> QED
      BY <2>1, <2>2, <2>3 DEF Layers
  <1>3. Nat \subseteq N
    BY <1>1, <1>2, SetInduction
  <1> QED
    BY <1>3

\* What Layered passes on is what the last of those layers does.
LEMMA LayeredBy ==
  ASSUME NEW into, NEW n \in Nat
  PROVE  \E f : Layers(tags, into, n, f) /\ Layered(into, n) = f[n]
  <1>1. \E f : Layers(tags, into, n, f)
    BY LayersExist
  <1> QED
    BY <1>1 DEF Layered, Layers

\* Layers that have all had their first object pass a call on and do no more.
LEMMA LayeredAlone ==
  ASSUME NEW into, NEW k \in Nat, \A j \in 1..k : tags[j].depth # 0
  PROVE  Layered(into, k) = into
  <1>1. PICK f : Layers(tags, into, k, f) /\ Layered(into, k) = f[k]
    BY LayeredBy
  <1>2. k \in 0..k
    OBVIOUS
  <1> QED
    BY <1>1, <1>2, LayersAlone

\* Only the innermost layer can be awaiting its first object, and then it alone
\* writes a tag.
LEMMA TaggedOnce ==
  ASSUME IsSeq(tags), NEW into, \A j \in 1..(Len(tags) - 1) : tags[j].depth # 0
  PROVE  LET n == Len(tags)
         IN  Tagged(into) = IF n # 0 /\ tags[n].depth = 0
                            THEN SinkTag(into, tags[n].name, tags[n].value) ELSE into
  <1> DEFINE n == Len(tags)
  <1>1. n \in Nat
    BY SeqFacts
  <1>2. PICK f : Layers(tags, into, n, f) /\ Tagged(into) = f[n]
    BY <1>1, LayeredBy DEF Tagged
  <1> DEFINE k == n - 1
  <1>3. \A j \in 1..k : tags[j].depth # 0
    OBVIOUS
  <1> HIDE DEF n
  <1>4. CASE n = 0
    BY <1>1, <1>2, <1>4 DEF Layers, n
  <1>5. CASE n # 0
    <2>1. k \in 0..n /\ n \in 0..n
      BY <1>1, <1>5
    <2>2. f[k] = into
      <3> HIDE DEF k
      <3> QED
        BY <1>1, <1>2, <1>3, <2>1, LayersAlone, ZenonT(60)
    <2>3. f[n] = IF tags[n].depth = 0 THEN SinkTag(f[n - 1], tags[n].name, tags[n].value) ELSE f[n - 1]
      BY <1>2, <1>5, <2>1 DEF Layers
    <2> QED
      BY <1>2, <1>5, <2>2, <2>3 DEF n
  <1> QED
    BY <1>4, <1>5

\* The fields of a record.
LEMMA FrameFacts ==
  ASSUME NEW f, IsFrame(f)
  PROVE  /\ f.shape \in DOMAIN Shape /\ f.value \in Values[f.shape] /\ f.begun \in BOOLEAN /\ f.at \in Nat
         /\ f = [shape |-> f.shape, value |-> f.value, begun |-> f.begun, at |-> f.at]
         /\ f.begun => /\ Kind(f) \in Containers \cup {"tagged"} /\ ~Refuses(f)
                       /\ f.at <= Len(Parts(f))
                       /\ Kind(f) = "tagged" => f.at = 1
         /\ ~f.begun => f.at = 0
  BY DEF IsFrame

\* A schema's record before it has begun.
LEMMA NewFrame ==
  ASSUME NEW s \in DOMAIN Shape, NEW v \in Values[s]
  PROVE  IsFrame(Frame(s, v)) /\ ~Frame(s, v).begun /\ Frame(s, v).shape = s /\ Frame(s, v).value = v
  BY DEF IsFrame, Frame

\* What a record has given the sink is a sequence.
LEMMA GivenIsSeq ==
  ASSUME NEW fr, NEW i, fr[i].at \in Nat
  PROVE  /\ IsSeq(Labels(fr[i], fr[i].at)) /\ Len(Labels(fr[i], fr[i].at)) = fr[i].at
         /\ IsSeq(TagAt(fr, i)) /\ IsSeq(Given(fr, i))
  <1> DEFINE n == fr[i].at
             l == Labels(fr[i], n)
  <1>1. DOMAIN l = 1..n /\ l = [k \in 1..n |-> l[k]]
    BY DEF Labels
  <1> HIDE DEF l
  <1>2. IsSeq(l) /\ Len(l) = n
    BY <1>1, SeqMake
  <1>3. IsSeq(TagAt(fr, i))
    BY SeqOne, SeqEmpty DEF TagAt
  <1> QED
    BY <1>2, <1>3, SeqConcat DEF Given, l

\* The first m records are in both.
Alike(fr, gr, m) == \A i \in 1..m : gr[i] = fr[i]

\* Records alike up to m have the same containers and tagSinks there.
LEMMA IxAlike ==
  ASSUME NEW fr, NEW gr, IsSeq(fr), IsSeq(gr), NEW m \in Nat, m <= Len(fr), m <= Len(gr),
         Alike(fr, gr, m)
  PROVE  /\ \A i \in 1..m : /\ i \in OpenIx(gr) <=> i \in OpenIx(fr)
                            /\ i \in TaggedIx(gr) <=> i \in TaggedIx(fr)
                            /\ i \in ObjectIx(gr) <=> i \in ObjectIx(fr)
                            /\ TagAt(gr, i) = TagAt(fr, i)
                            /\ Given(gr, i) = Given(fr, i)
         /\ \A i \in 0..m : /\ UpTo(i, OpenIx(gr)) = UpTo(i, OpenIx(fr))
                            /\ UpTo(i, TaggedIx(gr)) = UpTo(i, TaggedIx(fr))
                            /\ UpTo(i, ObjectIx(gr)) = UpTo(i, ObjectIx(fr))
  <1>1. Len(fr) \in Nat /\ Len(gr) \in Nat
    BY SeqFacts
  <1>2. \A i \in 1..m : i \in 1..Len(fr) /\ i \in 1..Len(gr) /\ gr[i] = fr[i]
    BY <1>1 DEF Alike
  <1>3. \A i \in 1..m : /\ i \in OpenIx(gr) <=> i \in OpenIx(fr)
                        /\ i \in TaggedIx(gr) <=> i \in TaggedIx(fr)
                        /\ i \in ObjectIx(gr) <=> i \in ObjectIx(fr)
    BY <1>2 DEF OpenIx, TaggedIx, ObjectIx
  <1>4. \A i \in 1..m : TagAt(gr, i) = TagAt(fr, i)
    <2> TAKE i \in 1..m
    <2>1. i > 1 => i - 1 \in 1..m
      OBVIOUS
    <2> QED
      BY <1>2, <2>1 DEF TagAt
  <1>5. \A i \in 1..m : Given(gr, i) = Given(fr, i)
    BY <1>2, <1>4 DEF Given
  <1>6. ASSUME NEW i \in 0..m
        PROVE  /\ UpTo(i, OpenIx(gr)) = UpTo(i, OpenIx(fr))
               /\ UpTo(i, TaggedIx(gr)) = UpTo(i, TaggedIx(fr))
               /\ UpTo(i, ObjectIx(gr)) = UpTo(i, ObjectIx(fr))
    <2>1. i \in Nat /\ \A j \in 1..i : j \in 1..m
      OBVIOUS
    <2> QED
      BY <1>3, <2>1, UpToSame
  <1> QED
    BY <1>3, <1>4, <1>5, <1>6

\* Where the records' containers are among those the sink has open.
LEMMA Positions ==
  ASSUME NEW fr, IsSeq(fr), NEW n, n = Len(fr)
  PROVE  /\ n \in Nat
         /\ \A S : UpTo(n, S) \in Nat
         /\ \A i \in OpenIx(fr) : i \in 1..n /\ UpTo(i, OpenIx(fr)) \in 1..UpTo(n, OpenIx(fr))
         /\ \A i \in TaggedIx(fr) : i \in 1..n /\ UpTo(i, TaggedIx(fr)) \in 1..UpTo(n, TaggedIx(fr))
         /\ \A i \in ObjectIx(fr) : i \in OpenIx(fr)
         /\ \A i \in 1..n : i \in OpenIx(fr) => i \notin TaggedIx(fr)
  <1>1. n \in Nat
    BY SeqFacts
  <1>2. ASSUME NEW S, NEW i \in 1..n, i \in S PROVE UpTo(i, S) \in 1..UpTo(n, S)
    <2>1. UpTo(0, S) = 0 /\ UpTo(0, S) < UpTo(i, S)
      BY <1>2, UpToNone, UpToLess
    <2>2. UpTo(i, S) <= UpTo(n, S)
      BY <1>1, UpToGrows
    <2>3. UpTo(i, S) \in Nat /\ UpTo(n, S) \in Nat
      BY <1>1, UpToNat
    <2> QED
      BY <2>1, <2>2, <2>3
  <1>3. OpenIx(fr) \subseteq 1..n /\ TaggedIx(fr) \subseteq 1..n /\ ObjectIx(fr) \subseteq OpenIx(fr)
    BY DEF OpenIx, TaggedIx, ObjectIx
  <1>4. \A i \in 1..n : i \in OpenIx(fr) => i \notin TaggedIx(fr)
    BY DEF OpenIx, TaggedIx, Containers
  <1> QED
    BY <1>1, <1>2, <1>3, <1>4, UpToNat

\* A record that is neither a container nor a tagged union's has not begun.
LEMMA BegunIs ==
  ASSUME NEW fr, Stacked(fr), NEW i \in 1..Len(fr)
  PROVE  /\ fr[i].begun <=> i \in OpenIx(fr) \/ i \in TaggedIx(fr)
         /\ IsFrame(fr[i])
  BY DEF Stacked, IsFrame, OpenIx, TaggedIx

----------------------------------------------------------------------------
(* A record returns: its value has gone into the container it was for. *)

\* The records without the top one.
LEMMA FrontStack ==
  ASSUME NEW fr, Stacked(fr), fr # <<>>, NEW n, n = Len(fr), NEW gr, gr = Front(fr)
  PROVE  /\ n \in Nat /\ n # 0 /\ n - 1 \in Nat /\ n \in 1..n /\ n - 1 <= n
         /\ IsSeq(fr) /\ IsSeq(gr) /\ Len(gr) = n - 1 /\ Stacked(gr) /\ Alike(fr, gr, n - 1)
         /\ Active(fr, n - 1) => Active(gr, n - 1) /\ Active(gr, n - 1 - 1)
         /\ Variants(fr) => Variants(gr)
  <1>1. IsSeq(fr) /\ n \in Nat /\ n # 0
    BY SeqFacts DEF Stacked
  <1>2. n - 1 \in Nat /\ n \in 1..n /\ n - 1 <= n
    BY <1>1
  <1>3. IsSeq(gr) /\ Len(gr) = n - 1 /\ \A i \in 1..(n - 1) : gr[i] = fr[i]
    BY <1>1, SeqFront DEF Front
  <1>4. \A i \in 1..(n - 1) : i \in 1..n
    BY <1>1
  <1>5. Stacked(gr)
    BY <1>3, <1>4 DEF Stacked
  <1>6. Active(fr, n - 1) => Active(gr, n - 1) /\ Active(gr, n - 1 - 1)
    <2>1. \A i \in 1..(n - 1 - 1) : i \in 1..(n - 1)
      BY <1>1
    <2> QED
      BY <1>3, <2>1 DEF Active
  <1>7. Variants(fr) => Variants(gr)
    <2>1. \A i \in 1..(n - 1 - 1) : i \in 1..(n - 1) /\ i + 1 \in 1..(n - 1)
      BY <1>1
    <2> QED
      BY <1>3, <2>1 DEF Variants
  <1> QED
    BY <1>1, <1>2, <1>3, <1>5, <1>6, <1>7 DEF Alike

\* The document tracks the records once the top one has returned.
LEMMA Returned ==
  ASSUME NEW fr, Stacked(fr), fr # <<>>, NEW n, n = Len(fr), Active(fr, n - 1),
         n \notin TaggedIx(fr),
         NEW gr, gr = Front(fr),
         NEW sk, IsSink(sk), DocFits(fr, sk),
         NEW m, m = UpTo(n - 1, OpenIx(fr)),
         NEW t, Filled(sk, t, m)
  PROVE  DocFits(gr, t) /\ RootFits(gr, t)
  <1>1. /\ n \in Nat /\ n # 0 /\ n - 1 \in Nat /\ n \in 1..n /\ n - 1 <= n
        /\ IsSeq(fr) /\ IsSeq(gr) /\ Len(gr) = n - 1 /\ Stacked(gr) /\ Alike(fr, gr, n - 1)
        /\ Active(gr, n - 1)
    BY FrontStack
  <1>2. /\ \A i \in 1..(n - 1) : /\ i \in OpenIx(gr) <=> i \in OpenIx(fr)
                                 /\ i \in TaggedIx(gr) <=> i \in TaggedIx(fr)
                                 /\ Given(gr, i) = Given(fr, i)
                                 /\ gr[i] = fr[i]
        /\ \A i \in 0..(n - 1) : UpTo(i, OpenIx(gr)) = UpTo(i, OpenIx(fr))
    <2>1. n - 1 <= Len(fr) /\ n - 1 <= Len(gr)
      BY <1>1
    <2>2. \A i \in 1..(n - 1) : gr[i] = fr[i]
      BY <1>1 DEF Alike
    <2> QED
      BY <1>1, <2>1, <2>2, IxAlike
  <1>3. IsSink(t) /\ t.kind = sk.kind /\ Len(OpenIn(t)) = m
    BY DEF Filled
  <1>4. m \in Nat /\ UpTo(n - 1, OpenIx(gr)) = m
    BY <1>1, <1>2, UpToNat
  <1>5. ASSUME NEW i \in OpenIx(gr) PROVE RecordFits(gr, t, i)
    <2> DEFINE k == UpTo(i, OpenIx(fr))
    <2>1. i \in 1..(n - 1) /\ k \in 1..m
      <3>1. i \in 1..(n - 1) /\ UpTo(i, OpenIx(gr)) \in 1..m
        BY <1>1, <1>4, Positions
      <3> QED
        BY <1>2, <3>1
    <2>2. UpTo(i, OpenIx(gr)) = k /\ i \in OpenIx(fr) /\ gr[i] = fr[i] /\ Given(gr, i) = Given(fr, i)
      BY <1>2, <2>1
    <2>3. RecordFits(fr, sk, i)
      BY <2>2 DEF DocFits
    <2>4. Awaits(fr, i)
      BY <1>1, <2>1 DEF Awaits
    <2> HIDE DEF k
    <2>5. CASE k < m
      <3>1. OpenIn(t)[k] = OpenIn(sk)[k]
        BY <2>1, <2>5 DEF Filled
      <3>2. \E j \in (i + 1)..(n - 1) : j \in OpenIx(fr)
        <4>1. SUFFICES ASSUME \A j \in (i + 1)..(n - 1) : j \notin OpenIx(fr) PROVE FALSE
          OBVIOUS
        <4>2. i \in Nat /\ i <= n - 1
          BY <1>1, <2>1
        <4>3. UpTo(n - 1, OpenIx(fr)) = UpTo(i, OpenIx(fr))
          BY <1>1, <4>1, <4>2, UpToNoMore
        <4> QED
          BY <1>4, <2>1, <2>5, <4>3 DEF k
      <3>3. Awaits(gr, i)
        <4>1. PICK j \in (i + 1)..(n - 1) : j \in OpenIx(fr)
          BY <3>2
        <4>2. j \in 1..(n - 1)
          BY <1>1, <2>1
        <4>3. j \notin TaggedIx(gr)
          BY <1>1, <1>2, <4>1, <4>2, Positions
        <4> QED
          BY <1>1, <4>1, <4>3 DEF Awaits
      <3>4. ASSUME Kind(fr[i]) # "list" PROVE Holds(t, k, Given(fr, i), TRUE)
        <4>1. Holds(sk, k, Given(fr, i), TRUE)
          BY <2>3, <2>4, <3>4 DEF RecordFits, k
        <4> QED
          BY <1>3, <3>1, <4>1, HoldsSame
      <3>5. ASSUME Kind(fr[i]) = "list" PROVE Counts(t, k, PartsDone(gr, i))
        <4>1. Counts(sk, k, PartsDone(fr, i)) /\ PartsDone(gr, i) = PartsDone(fr, i)
          BY <2>2, <2>3, <2>4, <3>3, <3>5 DEF RecordFits, PartsDone, k
        <4> QED
          BY <1>3, <3>1, <4>1, CountsSame
      <3> QED
        BY <2>2, <2>3, <3>1, <3>3, <3>4, <3>5 DEF RecordFits, k
    <2>6. CASE k = m
      <3>1. m > 0
        BY <2>1, <2>6
      <3>2. ~Awaits(gr, i)
        <4>1. SUFFICES ASSUME NEW j \in (i + 1)..(n - 1), j \notin TaggedIx(gr) PROVE FALSE
          BY <1>1 DEF Awaits
        <4>2. j \in 1..(n - 1) /\ j \in Nat /\ i \in Nat /\ i < j
          BY <1>1, <2>1
        <4>3. j \in OpenIx(gr)
          BY <1>1, <4>1, <4>2, BegunIs DEF Active
        <4>4. UpTo(i, OpenIx(gr)) < UpTo(j, OpenIx(gr))
          BY <4>2, <4>3, UpToLess
        <4>5. UpTo(j, OpenIx(gr)) \in 1..m
          BY <1>1, <1>4, <4>3, Positions
        <4> QED
          BY <1>4, <2>2, <2>6, <4>4, <4>5
      <3>3. ASSUME Kind(fr[i]) # "list" PROVE Holds(t, k, Given(fr, i), FALSE)
        <4>1. Holds(sk, k, Given(fr, i), TRUE) /\ OpenIn(sk)[k].is = "Object"
          BY <2>3, <2>4, <3>3 DEF RecordFits, k
        <4>2. IsSeq(Given(fr, i))
          <5>1. i \in 1..Len(fr)
            BY <1>1, <2>1
          <5>2. IsFrame(fr[i])
            BY <5>1, BegunIs
          <5> QED
            BY <5>2, FrameFacts, GivenIsSeq
        <4> QED
          BY <2>6, <3>1, <4>1, <4>2 DEF Filled
      <3>4. OpenIn(t)[k].is = OpenIn(sk)[k].is
        BY <2>6, <3>1 DEF Filled
      <3>5. ASSUME Kind(fr[i]) = "list" PROVE Counts(t, k, PartsDone(gr, i))
        <4>1. OpenIn(sk)[k].is = "List" /\ Counts(sk, k, fr[i].at - 1)
          BY <2>3, <2>4, <3>5 DEF RecordFits, PartsDone, k
        <4>2. Counts(t, k, (fr[i].at - 1) + 1)
          BY <2>6, <3>1, <4>1 DEF Filled
        <4>3. fr[i].at \in Nat
          <5>1. i \in 1..Len(fr)
            BY <1>1, <2>1
          <5> QED
            BY <5>1, BegunIs, FrameFacts
        <4>4. PartsDone(gr, i) = (fr[i].at - 1) + 1
          BY <2>2, <3>2, <4>3 DEF PartsDone
        <4> QED
          BY <4>2, <4>4
      <3> QED
        BY <2>2, <2>3, <3>2, <3>3, <3>4, <3>5 DEF RecordFits, k
    <2> QED
      BY <1>4, <2>1, <2>5, <2>6
  <1>6. DocFits(gr, t)
    BY <1>1, <1>3, <1>4, <1>5 DEF DocFits
  <1>7. RootFits(gr, t)
    <2> SUFFICES ASSUME OpenIn(t) = <<>>
                 PROVE  IF gr = <<>> \/ gr[Len(gr)].begun THEN Rooted(t)
                        ELSE t.kind = "json" => t.out = <<>>
      BY DEF RootFits
    <2>1. m = 0
      BY <1>3, Openings
    <2>2. Rooted(t)
      BY <2>1 DEF Filled
    <2>3. gr # <<>> => Len(gr) # 0 /\ Len(gr) \in 1..(n - 1)
      BY <1>1, SeqFacts
    <2>4. gr = <<>> \/ gr[Len(gr)].begun
      BY <1>1, <2>3 DEF Active
    <2> QED
      BY <2>2, <2>4
  <1> QED
    BY <1>6, <1>7

----------------------------------------------------------------------------
(* The tagSinks when no tagged union begins or ends. *)

\* The records from n on are no tagged union's with its variant under way.
Untagged(gr, n) == \A i \in n..Len(gr) : i \notin TaggedIx(gr)

\* th has the tagSinks of tg, each d objects deeper.
TagsMoved(tg, th, d) ==
  /\ IsSeq(th) /\ Len(th) = Len(tg)
  /\ \A j \in 1..Len(tg) : /\ IsTag(th[j]) /\ th[j].name = tg[j].name /\ th[j].value = tg[j].value
                            /\ th[j].depth = tg[j].depth + d

\* The tagSinks fit when the records above d objects come or go.
LEMMA TagsKept ==
  ASSUME NEW fr, IsSeq(fr), fr # <<>>, NEW n, n = Len(fr), n \notin TaggedIx(fr),
         NEW tg, TagsFit(fr, tg), Depths(fr, tg),
         NEW gr, IsSeq(gr), n - 1 <= Len(gr), Alike(fr, gr, n - 1), Untagged(gr, n),
         NEW d \in Int, UpTo(Len(gr), ObjectIx(gr)) = UpTo(n, ObjectIx(fr)) + d,
         NEW th, TagsMoved(tg, th, d)
  PROVE  TagsFit(gr, th) /\ Depths(gr, th)
  <1>1. n \in Nat /\ n # 0 /\ n - 1 \in Nat /\ n - 1 <= n /\ Len(gr) \in Nat
    BY SeqFacts
  <1>2. /\ \A i \in 1..(n - 1) : i \in TaggedIx(gr) <=> i \in TaggedIx(fr)
        /\ \A i \in 0..(n - 1) : /\ UpTo(i, TaggedIx(gr)) = UpTo(i, TaggedIx(fr))
                                 /\ UpTo(i, ObjectIx(gr)) = UpTo(i, ObjectIx(fr))
    BY <1>1, IxAlike
  <1>3. UpTo(Len(gr), TaggedIx(gr)) = UpTo(n, TaggedIx(fr))
    <2>1. UpTo(Len(gr), TaggedIx(gr)) = UpTo(n - 1, TaggedIx(gr))
      <3>1. \A j \in (n - 1 + 1)..Len(gr) : j \notin TaggedIx(gr)
        BY <1>1 DEF Untagged
      <3> QED
        BY <1>1, <3>1, UpToNoMore
    <2>2. UpTo(n, TaggedIx(fr)) = UpTo(n - 1, TaggedIx(fr))
      <3>1. \A j \in (n - 1 + 1)..n : j \notin TaggedIx(fr)
        BY <1>1
      <3> QED
        BY <1>1, <3>1, UpToNoMore
    <2> QED
      BY <1>1, <1>2, <2>1, <2>2
  <1>4. TagsFit(gr, th)
    BY <1>3 DEF TagsFit, TagsMoved
  <1>5. ASSUME NEW i \in TaggedIx(gr)
        PROVE  /\ th[UpTo(i, TaggedIx(gr))].name = Spell[input.strategy][Shape[gr[i].shape].tag]
               /\ th[UpTo(i, TaggedIx(gr))].value = Chosen(gr[i])
               /\ th[UpTo(i, TaggedIx(gr))].depth + UpTo(i, ObjectIx(gr)) = UpTo(Len(gr), ObjectIx(gr))
    <2>1. i \in 1..Len(gr)
      BY Positions
    <2>2. i \in 1..(n - 1)
      <3>1. i \notin n..Len(gr)
        BY DEF Untagged
      <3> QED
        BY <1>1, <2>1, <3>1
    <2> DEFINE k == UpTo(i, TaggedIx(fr))
               o == UpTo(i, ObjectIx(fr))
               q == UpTo(n, ObjectIx(fr))
    <2>3. i \in TaggedIx(fr) /\ UpTo(i, TaggedIx(gr)) = k /\ UpTo(i, ObjectIx(gr)) = o /\ gr[i] = fr[i]
      BY <1>1, <1>2, <2>2 DEF Alike
    <2>4. k \in 1..Len(tg)
      BY <2>3, Positions DEF TagsFit
    <2>5. tg[k].depth + o = q /\ tg[k].depth \in Nat /\ o \in Nat /\ q \in Nat
          /\ tg[k].name = Spell[input.strategy][Shape[fr[i].shape].tag] /\ tg[k].value = Chosen(fr[i])
      <3>1. o \in Nat /\ q \in Nat
        BY <1>1, <2>2, UpToNat
      <3> QED
        BY <2>3, <2>4, <3>1 DEF Depths, TagsFit, IsTag
    <2>6. th[k].depth = tg[k].depth + d /\ th[k].name = tg[k].name /\ th[k].value = tg[k].value
      BY <2>4 DEF TagsMoved
    <2> HIDE DEF k, o, q
    <2>7. th[k].depth + o = q + d
      <3>1. \A a, b, c \in Nat : a + b = c => (a + d) + b = c + d
        OBVIOUS
      <3>2. (tg[k].depth + d) + o = q + d
        BY <2>5, <3>1
      <3> QED
        BY <2>6, <3>2
    <2> QED
      BY <2>3, <2>5, <2>6, <2>7 DEF q
  <1> QED
    BY <1>4, <1>5 DEF Depths

\* Every tagSink is one object deeper, or one less deep.
Deeper(tg, by) == [i \in DOMAIN tg |-> [tg[i] EXCEPT !.depth = @ + by]]

\* Each tagSink counts d objects more.
LEMMA TagsDeeper ==
  ASSUME NEW tg, IsSeq(tg), NEW d \in Int,
         \A j \in 1..Len(tg) : IsTag(tg[j]) /\ tg[j].depth + d \in Nat
  PROVE  TagsMoved(tg, Deeper(tg, d), d)
  <1> DEFINE th == Deeper(tg, d)
  <1>1. DOMAIN tg = 1..Len(tg)
    BY SeqFacts
  <1>2. /\ DOMAIN th = DOMAIN tg /\ th = [i \in DOMAIN tg |-> th[i]]
        /\ \A j \in DOMAIN tg : th[j] = [tg[j] EXCEPT !.depth = @ + d]
    BY DEF Deeper
  <1> HIDE DEF th
  <1>3. IsSeq(th) /\ Len(th) = Len(tg)
    BY <1>2, SeqUpdate
  <1>4. ASSUME NEW j \in 1..Len(tg)
        PROVE  /\ IsTag(th[j]) /\ th[j].name = tg[j].name /\ th[j].value = tg[j].value
               /\ th[j].depth = tg[j].depth + d
    <2> DEFINE a == tg[j]
               b == th[j]
    <2>1. a = [name |-> a.name, value |-> a.value, depth |-> a.depth]
      BY DEF IsTag
    <2>2. b = [a EXCEPT !.depth = @ + d]
      BY <1>1, <1>2
    <2> HIDE DEF a, b
    <2>3. b = [name |-> a.name, value |-> a.value, depth |-> a.depth + d]
      BY <2>1, <2>2
    <2>4. a.depth + d \in Nat
      BY DEF a
    <2>5. b.name = a.name /\ b.value = a.value /\ b.depth = a.depth + d
      BY <2>3
    <2>6. b \in [name : {b.name}, value : {b.value}, depth : Nat]
      BY <2>3, <2>4
    <2> QED
      BY <2>5, <2>6 DEF a, b, IsTag
  <1> QED
    BY <1>3, <1>4 DEF TagsMoved, th

\* The same tagSinks have moved by nothing.
LEMMA TagsAlike ==
  ASSUME NEW tg, IsSeq(tg), \A j \in 1..Len(tg) : IsTag(tg[j])
  PROVE  TagsMoved(tg, tg, 0)
  BY DEF TagsMoved, IsTag

----------------------------------------------------------------------------
(* The containers below one that changes. *)

\* Containers the sink leaves alone track the records below the top one.
LEMMA LowerKept ==
  ASSUME NEW fr, IsSeq(fr), fr # <<>>, NEW n, n = Len(fr), n \notin TaggedIx(fr),
         NEW gr, IsSeq(gr), n <= Len(gr), Alike(fr, gr, n - 1), Len(gr) \notin TaggedIx(gr),
         NEW sk, IsSink(sk), DocFits(fr, sk),
         NEW t, IsSink(t), t.kind = sk.kind,
         \A k \in 1..UpTo(n - 1, OpenIx(fr)) : OpenIn(t)[k] = OpenIn(sk)[k]
  PROVE  \A i \in 1..(n - 1) : i \in OpenIx(gr) => RecordFits(gr, t, i)
  <1>1. n \in Nat /\ n # 0 /\ n - 1 \in Nat /\ n - 1 <= n /\ Len(gr) \in Nat /\ n - 1 <= Len(gr)
    BY SeqFacts
  <1>2. /\ \A i \in 1..(n - 1) : /\ i \in OpenIx(gr) <=> i \in OpenIx(fr)
                                 /\ Given(gr, i) = Given(fr, i)
                                 /\ gr[i] = fr[i]
        /\ \A i \in 0..(n - 1) : UpTo(i, OpenIx(gr)) = UpTo(i, OpenIx(fr))
    <2>1. \A i \in 1..(n - 1) : gr[i] = fr[i]
      BY DEF Alike
    <2> QED
      BY <1>1, <2>1, IxAlike
  <1> SUFFICES ASSUME NEW i \in 1..(n - 1), i \in OpenIx(gr) PROVE RecordFits(gr, t, i)
    OBVIOUS
  <1> DEFINE k == UpTo(i, OpenIx(fr))
  <1>3. UpTo(i, OpenIx(gr)) = k /\ i \in OpenIx(fr) /\ gr[i] = fr[i] /\ Given(gr, i) = Given(fr, i)
    BY <1>1, <1>2
  <1>4. k \in 1..UpTo(n - 1, OpenIx(fr))
    <2>1. 0 < i /\ i \in Nat /\ i <= n - 1 /\ 0 \in Nat
      BY <1>1
    <2>2. UpTo(0, OpenIx(fr)) < k /\ UpTo(0, OpenIx(fr)) = 0
      BY <1>3, <2>1, UpToLess, UpToNone
    <2>3. k <= UpTo(n - 1, OpenIx(fr)) /\ k \in Nat /\ UpTo(n - 1, OpenIx(fr)) \in Nat
      BY <1>1, <2>1, UpToGrows, UpToNat
    <2> QED
      BY <2>2, <2>3
  <1>5. OpenIn(t)[k] = OpenIn(sk)[k]
    BY <1>4
  <1>6. RecordFits(fr, sk, i)
    BY <1>3 DEF DocFits
  <1>7. Awaits(fr, i)
    BY <1>1 DEF Awaits
  <1>8. Awaits(gr, i)
    <2>1. Len(gr) \in (i + 1)..Len(gr)
      BY <1>1
    <2> QED
      BY <2>1 DEF Awaits
  <1> HIDE DEF k
  <1>9. ASSUME Kind(fr[i]) # "list" PROVE Holds(t, k, Given(fr, i), TRUE)
    <2>1. Holds(sk, k, Given(fr, i), TRUE)
      BY <1>6, <1>7, <1>9 DEF RecordFits, k
    <2> QED
      BY <1>5, <2>1, HoldsSame
  <1>10. ASSUME Kind(fr[i]) = "list" PROVE Counts(t, k, PartsDone(gr, i))
    <2>1. Counts(sk, k, PartsDone(fr, i)) /\ PartsDone(gr, i) = PartsDone(fr, i)
      BY <1>3, <1>6, <1>7, <1>8, <1>10 DEF RecordFits, PartsDone, k
    <2> QED
      BY <1>5, <2>1, CountsSame
  <1> QED
    BY <1>3, <1>5, <1>6, <1>8, <1>9, <1>10 DEF RecordFits, k

----------------------------------------------------------------------------
(* Where the sink is when a record is on top. *)

\* The top record, and how many containers come up to it.
LEMMA TopFacts ==
  ASSUME NEW fr, Stacked(fr), fr # <<>>, NEW n, n = Len(fr)
  PROVE  /\ IsSeq(fr) /\ n \in Nat /\ n # 0 /\ n \in 1..n /\ n - 1 \in Nat /\ n - 1 <= n
         /\ Last(fr) = fr[n] /\ IsFrame(fr[n])
         /\ fr[n].begun <=> n \in OpenIx(fr) \/ n \in TaggedIx(fr)
         /\ Kind(fr[n]) # "tagged" => n \notin TaggedIx(fr)
         /\ n \in OpenIx(fr) => n \notin TaggedIx(fr) /\ Kind(fr[n]) \in Containers
         /\ \A S : /\ n \in S => UpTo(n, S) = UpTo(n - 1, S) + 1
                   /\ n \notin S => UpTo(n, S) = UpTo(n - 1, S)
  <1>1. IsSeq(fr) /\ n \in Nat /\ n # 0
    BY SeqFacts DEF Stacked
  <1>2. n \in 1..n /\ n - 1 \in Nat /\ n - 1 <= n /\ (n - 1) + 1 = n
    BY <1>1
  <1>3. \A S : UpTo(n, S) = UpTo(n - 1, S) + (IF n \in S THEN 1 ELSE 0)
    BY <1>2, UpToNext
  <1>4. \A S : UpTo(n - 1, S) \in Nat
    BY <1>2, UpToNat
  <1>5. \A S : /\ n \in S => UpTo(n, S) = UpTo(n - 1, S) + 1
               /\ n \notin S => UpTo(n, S) = UpTo(n - 1, S)
    BY <1>3, <1>4
  <1>6. /\ Kind(fr[n]) # "tagged" => n \notin TaggedIx(fr)
        /\ n \in OpenIx(fr) => n \notin TaggedIx(fr) /\ Kind(fr[n]) \in Containers
    BY DEF OpenIx, TaggedIx, Containers
  <1> QED
    BY <1>1, <1>2, <1>5, <1>6, BegunIs DEF Last

\* The sink may be given the value of a record that has not begun.
LEMMA ReadyToWrite ==
  ASSUME NEW fr, NEW tg, NEW sk, Goes(fr, tg, sk), fr # <<>>, ~Last(fr).begun
  PROVE  Ready(sk)
  <1> DEFINE n == Len(fr)
             m == Len(OpenIn(sk))
  <1>1. /\ IsSeq(fr) /\ n \in Nat /\ n # 0 /\ n \in 1..n /\ n \notin OpenIx(fr) /\ n \notin TaggedIx(fr)
        /\ Last(fr) = fr[n] /\ ~fr[n].begun
    BY TopFacts DEF Goes
  <1>2. IsSink(sk) /\ m = UpTo(n, OpenIx(fr))
    BY DEF Goes, DocFits
  <1>3. CASE OpenIn(sk) = <<>>
    BY <1>1, <1>3 DEF Goes, RootFits, Ready
  <1>4. CASE OpenIn(sk) # <<>>
    <2>1. m # 0 /\ m \in Nat
      BY <1>2, <1>4, Openings
    <2>2. PICK i \in 1..n : i \in OpenIx(fr) /\ UpTo(i, OpenIx(fr)) = m
      BY <1>1, <1>2, <2>1, UpToLast
    <2>3. RecordFits(fr, sk, i)
      BY <2>2 DEF Goes, DocFits
    <2>4. n \in (i + 1)..n
      BY <1>1, <2>2
    <2>5. Awaits(fr, i)
      BY <1>1, <2>4 DEF Awaits
    <2>6. CASE Kind(fr[i]) = "list"
      BY <1>4, <2>2, <2>3, <2>6 DEF RecordFits, Ready, Last
    <2>7. CASE Kind(fr[i]) # "list"
      <3>1. OpenIn(sk)[m].is = "Object" /\ Holds(sk, m, Given(fr, i), TRUE)
        BY <2>2, <2>3, <2>5, <2>7 DEF RecordFits
      <3> QED
        BY <1>2, <1>4, <3>1, InnermostObject DEF Last
    <2> QED
      BY <2>6, <2>7
  <1> QED
    BY <1>3, <1>4

\* The sink's innermost container is the one of the record on top.
LEMMA TopOpen ==
  ASSUME NEW fr, NEW tg, NEW sk, Goes(fr, tg, sk), fr # <<>>, NEW n, n = Len(fr), n \in OpenIx(fr)
  PROVE  /\ OpenIn(sk) # <<>> /\ Len(OpenIn(sk)) \in Nat /\ Len(OpenIn(sk)) # 0
         /\ Kind(fr[n]) = "list" =>
              Last(OpenIn(sk)).is = "List" /\ Counts(sk, Len(OpenIn(sk)), fr[n].at)
         /\ Kind(fr[n]) # "list" =>
              /\ Last(OpenIn(sk)).is = "Object" /\ AtName(sk)
              /\ Holds(sk, Len(OpenIn(sk)), Given(fr, n), FALSE)
              /\ sk.kind = "json" => Last(sk.open).names = Given(fr, n)
  <1> DEFINE m == Len(OpenIn(sk))
  <1>1. IsSink(sk) /\ m = UpTo(n, OpenIx(fr)) /\ IsSeq(fr) /\ n \in Nat
    BY SeqFacts DEF Goes, DocFits, Stacked
  <1>2. m # 0 /\ OpenIn(sk) # <<>> /\ m \in Nat
    <2>1. m \in 1..m
      BY <1>1, Positions
    <2> QED
      BY <1>1, <2>1, Openings
  <1>3. RecordFits(fr, sk, n)
    BY DEF Goes, DocFits
  <1>4. ~Awaits(fr, n)
    BY <1>1 DEF Awaits
  <1>5. CASE Kind(fr[n]) = "list"
    BY <1>1, <1>2, <1>3, <1>4, <1>5 DEF RecordFits, PartsDone, Last
  <1>6. CASE Kind(fr[n]) # "list"
    <2>1. OpenIn(sk)[m].is = "Object" /\ Holds(sk, m, Given(fr, n), FALSE)
      BY <1>1, <1>3, <1>4, <1>6 DEF RecordFits
    <2>2. Last(OpenIn(sk)).is = "Object"
      BY <2>1 DEF Last
    <2> QED
      BY <1>1, <1>2, <1>6, <2>1, <2>2, InnermostObject
  <1> QED
    BY <1>2, <1>5, <1>6

----------------------------------------------------------------------------
(* The steps. *)

\* The top record has written its value with one call.
LEMMA LeafReturns ==
  ASSUME NEW fr, NEW tg, NEW sk, Goes(fr, tg, sk), fr # <<>>, ~Last(fr).begun,
         NEW t, Filled(sk, t, Len(OpenIn(sk)))
  PROVE  Goes(Front(fr), tg, t)
  <1> DEFINE n == Len(fr)
             gr == Front(fr)
  <1>1. /\ IsSeq(fr) /\ n \in Nat /\ n # 0 /\ n \in 1..n /\ n \notin OpenIx(fr) /\ n \notin TaggedIx(fr)
        /\ Stacked(fr) /\ Active(fr, n - 1) /\ Variants(fr)
    BY TopFacts, SMTT(30) DEF Goes
  <1>2. /\ IsSeq(gr) /\ Len(gr) = n - 1 /\ Stacked(gr) /\ Alike(fr, gr, n - 1)
        /\ Active(gr, n - 1 - 1) /\ Variants(gr) /\ n - 1 \in Nat /\ n - 1 <= n
    BY <1>1, FrontStack
  <1>3. n \notin ObjectIx(fr)
    BY <1>1 DEF ObjectIx
  <1>4. /\ UpTo(n, OpenIx(fr)) = UpTo(n - 1, OpenIx(fr))
        /\ UpTo(n, ObjectIx(fr)) = UpTo(n - 1, ObjectIx(fr))
    BY <1>1, <1>3, TopFacts
  <1>5. DocFits(gr, t) /\ RootFits(gr, t)
    <2>1. Len(OpenIn(sk)) = UpTo(n - 1, OpenIx(fr))
      BY <1>4 DEF Goes, DocFits
    <2> HIDE DEF gr
    <2>2. IsSink(sk) /\ DocFits(fr, sk)
      BY DEF Goes
    <2> QED
      BY <1>1, <2>1, <2>2, Returned DEF gr
  <1> HIDE DEF gr
  <1>6. TagsFit(gr, tg) /\ Depths(gr, tg)
    <2>1. TagsFit(fr, tg) /\ Depths(fr, tg)
      BY DEF Goes
    <2>2. TagsMoved(tg, tg, 0)
      BY <2>1, TagsAlike DEF TagsFit
    <2>3. Untagged(gr, n)
      BY <1>1, <1>2 DEF Untagged
    <2>4. UpTo(Len(gr), ObjectIx(gr)) = UpTo(n, ObjectIx(fr)) + 0
      <3>1. UpTo(n - 1, ObjectIx(gr)) = UpTo(n - 1, ObjectIx(fr))
        BY <1>1, <1>2, IxAlike
      <3>2. UpTo(n, ObjectIx(fr)) \in Nat
        BY <1>1, UpToNat
      <3> QED
        BY <1>2, <1>4, <3>1, <3>2
    <2>5. 0 \in Int /\ n - 1 <= Len(gr)
      BY <1>2
    <2> QED
      BY <1>1, <1>2, <2>1, <2>2, <2>3, <2>4, <2>5, TagsKept
  <1>7. IsSink(t) /\ t.kind = input.kind /\ t.err = "none"
    BY DEF Goes, Filled
  <1> QED
    BY <1>2, <1>5, <1>6, <1>7 DEF Goes, gr

\* While an object is open at the top, every layer of tagSink has seen it.
LEMMA LayersInside ==
  ASSUME NEW fr, NEW tg, NEW sk, Goes(fr, tg, sk), fr # <<>>, Len(fr) \in ObjectIx(fr)
  PROVE  \A j \in 1..Len(tg) : tg[j].depth \in Nat /\ tg[j].depth # 0
  <1> DEFINE n == Len(fr)
  <1>1. IsSeq(fr) /\ n \in Nat /\ n \in OpenIx(fr) /\ n \notin TaggedIx(fr)
    BY TopFacts DEF Goes, ObjectIx
  <1> SUFFICES ASSUME NEW j \in 1..Len(tg) PROVE tg[j].depth \in Nat /\ tg[j].depth # 0
    OBVIOUS
  <1>2. TagsFit(fr, tg) /\ Depths(fr, tg)
    BY DEF Goes
  <1>3. PICK i \in 1..n : i \in TaggedIx(fr) /\ UpTo(i, TaggedIx(fr)) = j
    <2>1. j \in 1..UpTo(n, TaggedIx(fr))
      BY <1>2 DEF TagsFit
    <2> QED
      BY <1>1, <2>1, UpToOnto
  <1>4. i < n /\ i \in Nat
    BY <1>1, <1>3
  <1>5. UpTo(i, ObjectIx(fr)) < UpTo(n, ObjectIx(fr))
    BY <1>1, <1>4, UpToLess
  <1>6. UpTo(i, ObjectIx(fr)) \in Nat /\ UpTo(n, ObjectIx(fr)) \in Nat
    BY <1>1, <1>4, UpToNat
  <1>7. tg[j].depth + UpTo(i, ObjectIx(fr)) = UpTo(n, ObjectIx(fr))
    BY <1>2, <1>3 DEF Depths
  <1>8. tg[j].depth \in Nat
    BY <1>2 DEF TagsFit, IsTag
  <1> QED
    BY <1>5, <1>6, <1>7, <1>8

\* The top record has ended its container.
LEMMA ContainerReturns ==
  ASSUME NEW fr, NEW tg, NEW sk, Goes(fr, tg, sk), fr # <<>>, NEW n, n = Len(fr), n \in OpenIx(fr),
         NEW th, IF Kind(fr[n]) = "list" THEN th = tg
                 ELSE th = Deeper(tg, -1),
         NEW t, Filled(sk, t, Len(OpenIn(sk)) - 1)
  PROVE  Goes(Front(fr), th, t)
  <1> DEFINE gr == Front(fr)
             d == IF Kind(fr[n]) = "list" THEN 0 ELSE -1
  <1>1. /\ IsSeq(fr) /\ n \in Nat /\ n # 0 /\ n \in 1..n /\ n \notin TaggedIx(fr)
        /\ Stacked(fr) /\ Active(fr, n - 1) /\ Variants(fr)
        /\ UpTo(n, OpenIx(fr)) = UpTo(n - 1, OpenIx(fr)) + 1
    BY TopFacts DEF Goes
  <1>2. /\ IsSeq(gr) /\ Len(gr) = n - 1 /\ Stacked(gr) /\ Alike(fr, gr, n - 1)
        /\ Active(gr, n - 1 - 1) /\ Variants(gr) /\ n - 1 \in Nat /\ n - 1 <= n
    BY <1>1, FrontStack
  <1>3. UpTo(n - 1, OpenIx(fr)) \in Nat /\ UpTo(n - 1, ObjectIx(fr)) \in Nat
    BY <1>2, UpToNat
  <1>4. DocFits(gr, t) /\ RootFits(gr, t)
    <2>1. Len(OpenIn(sk)) - 1 = UpTo(n - 1, OpenIx(fr))
      BY <1>1, <1>3 DEF Goes, DocFits
    <2> HIDE DEF gr
    <2>2. IsSink(sk) /\ DocFits(fr, sk)
      BY DEF Goes
    <2> QED
      BY <1>1, <2>1, <2>2, Returned DEF gr
  <1> HIDE DEF gr
  <1>5. TagsFit(gr, th) /\ Depths(gr, th)
    <2>1. TagsFit(fr, tg) /\ Depths(fr, tg)
      BY DEF Goes
    <2>2. IsSeq(tg) /\ \A j \in 1..Len(tg) : IsTag(tg[j])
      BY <2>1 DEF TagsFit
    <2>3. Untagged(gr, n)
      BY <1>1, <1>2 DEF Untagged
    <2>4. UpTo(Len(gr), ObjectIx(gr)) = UpTo(n, ObjectIx(fr)) + d /\ d \in Int
      <3>1. UpTo(n - 1, ObjectIx(gr)) = UpTo(n - 1, ObjectIx(fr))
        BY <1>1, <1>2, IxAlike
      <3>2. n \in ObjectIx(fr) <=> Kind(fr[n]) # "list"
        BY DEF ObjectIx
      <3>3. UpTo(n, ObjectIx(fr)) = UpTo(n - 1, ObjectIx(fr)) - d
        BY <1>1, <1>3, <3>2, TopFacts
      <3> QED
        BY <1>2, <1>3, <3>1, <3>3
    <2>5. TagsMoved(tg, th, d)
      <3>1. CASE Kind(fr[n]) = "list"
        BY <2>2, <3>1, TagsAlike
      <3>2. CASE Kind(fr[n]) # "list"
        <4>1. n \in ObjectIx(fr)
          BY <3>2 DEF ObjectIx
        <4>2. \A j \in 1..Len(tg) : tg[j].depth + -1 \in Nat
          <5>1. \A c \in Nat : c # 0 => c + -1 \in Nat
            OBVIOUS
          <5> QED
            BY <4>1, <5>1, LayersInside
        <4>3. -1 \in Int /\ th = Deeper(tg, -1) /\ d = -1
          BY <3>2
        <4> HIDE DEF d
        <4> QED
          BY <2>2, <4>2, <4>3, TagsDeeper
      <3> QED
        BY <3>1, <3>2
    <2>6. n - 1 <= Len(gr)
      BY <1>2
    <2> HIDE DEF d
    <2>7. d \in Int /\ UpTo(Len(gr), ObjectIx(gr)) = UpTo(n, ObjectIx(fr)) + d
      BY <2>4
    <2> QED
      BY <1>1, <1>2, <2>1, <2>3, <2>5, <2>6, <2>7, TagsKept
  <1>6. IsSink(t) /\ t.kind = input.kind /\ t.err = "none"
    BY DEF Goes, Filled
  <1> QED
    BY <1>2, <1>4, <1>5, <1>6 DEF Goes, gr

\* The top record has been replaced by b.
Retopped(fr, gr, b) ==
  /\ IsSeq(gr) /\ Len(gr) = Len(fr) /\ Alike(fr, gr, Len(fr) - 1)
  /\ gr[Len(fr)] = b

\* EXCEPT replaces the top record.
LEMMA Retops ==
  ASSUME NEW fr, IsSeq(fr), fr # <<>>, NEW b
  PROVE  Retopped(fr, [fr EXCEPT ![Len(fr)] = b], b)
  <1> DEFINE n == Len(fr)
             gr == [fr EXCEPT ![Len(fr)] = b]
  <1>1. n \in Nat /\ n # 0 /\ DOMAIN fr = 1..n /\ n \in 1..n
    BY SeqFacts
  <1>2. /\ DOMAIN gr = DOMAIN fr /\ gr = [i \in DOMAIN fr |-> gr[i]]
        /\ \A i \in 1..n : gr[i] = IF i = n THEN b ELSE fr[i]
    BY <1>1
  <1> HIDE DEF gr
  <1>3. IsSeq(gr) /\ Len(gr) = n
    BY <1>2, SeqUpdate
  <1>4. \A i \in 1..(n - 1) : gr[i] = fr[i]
    BY <1>1, <1>2
  <1> QED
    BY <1>1, <1>2, <1>3, <1>4 DEF Retopped, Alike, gr

\* A record whose container, or whose variant, begins.
LEMMA FrameBegins ==
  ASSUME NEW a, IsFrame(a), ~a.begun, Kind(a) \in Containers, ~Refuses(a),
         NEW b, b = [a EXCEPT !.begun = TRUE]
  PROVE  IsFrame(b) /\ b.shape = a.shape /\ b.value = a.value /\ b.begun /\ b.at = 0
  <1>1. /\ a = [shape |-> a.shape, value |-> a.value, begun |-> a.begun, at |-> a.at] /\ a.at = 0
        /\ a.shape \in DOMAIN Shape /\ a.value \in Values[a.shape]
    BY FrameFacts
  <1>2. b = [shape |-> a.shape, value |-> a.value, begun |-> TRUE, at |-> 0]
    BY <1>1
  <1>3. b.shape = a.shape /\ b.value = a.value /\ b.begun = TRUE /\ b.at = 0
    BY <1>2
  <1>4. b.shape \in DOMAIN Shape /\ b.value \in Values[b.shape] /\ b.at \in Nat
    BY <1>1, <1>3
  <1>5. b.begun \in BOOLEAN
    BY <1>3
  <1>6. b = [shape |-> b.shape, value |-> b.value, begun |-> b.begun, at |-> b.at]
    BY <1>2, <1>3
  <1>7. b \in [shape : DOMAIN Shape, value : Values[b.shape], begun : BOOLEAN, at : Nat]
    BY <1>4, <1>5, <1>6
  <1>8. Kind(b) = Kind(a) /\ Refuses(b) = Refuses(a) /\ Parts(b) = Parts(a)
    BY <1>3, PartsAlike
  <1>9. Len(Parts(b)) \in Nat
    BY <1>1, <1>8, PartsSound
  <1>10. Kind(b) \in Containers \cup {"tagged"} /\ ~Refuses(b) /\ Kind(b) # "tagged"
    BY <1>8 DEF Containers
  <1>11. b.at <= Len(Parts(b))
    BY <1>3, <1>9
  <1> QED
    BY <1>3, <1>7, <1>10, <1>11 DEF IsFrame

\* The top record begins a container.
LEMMA Begins ==
  ASSUME NEW fr, NEW tg, NEW sk, Goes(fr, tg, sk), fr # <<>>, NEW n, n = Len(fr),
         ~fr[n].begun, Kind(fr[n]) \in Containers,
         NEW b, IsFrame(b), b.shape = fr[n].shape, b.value = fr[n].value, b.begun, b.at = 0,
         NEW gr, Retopped(fr, gr, b),
         NEW th, IF Kind(fr[n]) = "list" THEN th = tg
                 ELSE th = Deeper(tg, 1),
         NEW t, IsSink(t), t.kind = sk.kind, t.err = "none",
         Len(OpenIn(t)) = Len(OpenIn(sk)) + 1,
         \A k \in 1..Len(OpenIn(sk)) : OpenIn(t)[k] = OpenIn(sk)[k],
         IF Kind(fr[n]) = "list" THEN OpenIn(t)[Len(OpenIn(t))].is = "List" /\ Counts(t, Len(OpenIn(t)), 0)
         ELSE OpenIn(t)[Len(OpenIn(t))].is = "Object" /\ Holds(t, Len(OpenIn(t)), TagAt(fr, n), FALSE)
  PROVE  Goes(gr, th, t)
  <1> DEFINE d == IF Kind(fr[n]) = "list" THEN 0 ELSE 1
             a == fr[n]
  <1>1. /\ IsSeq(fr) /\ n \in Nat /\ n # 0 /\ n \in 1..n /\ n \notin TaggedIx(fr) /\ n \notin OpenIx(fr)
        /\ n - 1 \in Nat /\ n - 1 <= n
        /\ Stacked(fr) /\ Active(fr, n - 1) /\ Variants(fr) /\ IsFrame(fr[n])
        /\ UpTo(n, OpenIx(fr)) = UpTo(n - 1, OpenIx(fr))
        /\ IsSink(sk) /\ DocFits(fr, sk)
    BY TopFacts DEF Goes
  <1>2. b.shape = a.shape /\ b.begun = TRUE /\ b.at = 0
    OBVIOUS
  <1>3. Kind(b) = Kind(a)
    BY PartsAlike
  <1>4. IsSeq(gr) /\ Len(gr) = n /\ Alike(fr, gr, n - 1)
    BY DEF Retopped
  <1>5. /\ IsSeq(gr) /\ Len(gr) = n
        /\ \A i \in 1..n : gr[i] = IF i = n THEN b ELSE fr[i]
    BY <1>1 DEF Retopped, Alike
  <1>6. gr[n] = b /\ Alike(fr, gr, n - 1)
    BY <1>1, <1>5 DEF Retopped
  <1>7. Stacked(gr) /\ Active(gr, n - 1) /\ Variants(gr)
    <2>1. Stacked(gr)
      BY <1>1, <1>5 DEF Stacked
    <2>2. \A i \in 1..(n - 1) : i \in 1..n /\ i # n /\ i + 1 \in 1..n
      BY <1>1
    <2>3. Active(gr, n - 1)
      BY <1>1, <1>5, <2>2 DEF Active
    <2>4. \A i \in 1..n : gr[i].shape = fr[i].shape
      BY <1>2, <1>5
    <2>5. \A i \in 1..(n - 1) : Kind(gr[i]) = Kind(fr[i])
      BY <2>2, <2>4 DEF Kind
    <2>6. Variants(gr)
      BY <1>1, <1>5, <2>2, <2>4, <2>5, ZenonT(60) DEF Variants
    <2> QED
      BY <2>1, <2>3, <2>6
  <1>8. /\ n \in OpenIx(gr) /\ n \notin TaggedIx(gr)
        /\ n \in ObjectIx(gr) <=> Kind(a) # "list"
        /\ n \notin ObjectIx(fr)
    BY <1>1, <1>2, <1>3, <1>5, <1>6 DEF OpenIx, TaggedIx, ObjectIx, Containers
  <1>9. /\ \A i \in 0..(n - 1) : /\ UpTo(i, OpenIx(gr)) = UpTo(i, OpenIx(fr))
                                 /\ UpTo(i, ObjectIx(gr)) = UpTo(i, ObjectIx(fr))
        /\ \A i \in 1..(n - 1) : i \in OpenIx(gr) <=> i \in OpenIx(fr)
    <2>1. n - 1 <= Len(gr) /\ n - 1 <= Len(fr) /\ n - 1 \in Nat /\ IsSeq(fr) /\ IsSeq(gr)
      BY <1>1, <1>5
    <2>2. Alike(fr, gr, n - 1)
      BY <1>6
    <2> QED
      BY <2>1, <2>2, IxAlike
  <1>10. n - 1 \in 0..(n - 1) /\ gr # <<>> /\ UpTo(n - 1, OpenIx(fr)) \in Nat /\ UpTo(n - 1, ObjectIx(fr)) \in Nat
    BY <1>1, <1>5, SeqFacts, UpToNat
  <1>11. UpTo(n, OpenIx(gr)) = Len(OpenIn(t)) /\ Len(OpenIn(sk)) = UpTo(n - 1, OpenIx(fr))
    <2>1. UpTo(n, OpenIx(gr)) = UpTo(n - 1, OpenIx(gr)) + 1
      BY <1>5, <1>7, <1>8, <1>10, TopFacts
    <2>2. Len(OpenIn(sk)) = UpTo(n - 1, OpenIx(fr))
      BY <1>1 DEF DocFits
    <2> QED
      BY <1>9, <1>10, <2>1, <2>2
  <1>12. DocFits(gr, t)
    <2>1. \A i \in 1..(n - 1) : i \in OpenIx(gr) => RecordFits(gr, t, i)
      <3>1. n <= Len(gr) /\ Len(gr) \notin TaggedIx(gr)
        BY <1>1, <1>5, <1>8
      <3>2. \A k \in 1..UpTo(n - 1, OpenIx(fr)) : OpenIn(t)[k] = OpenIn(sk)[k]
        BY <1>11
      <3>3. IsSeq(gr)
        BY <1>5
      <3> QED
        BY <1>1, <1>6, <3>1, <3>2, <3>3, LowerKept, ZenonT(30)
    <2>2. RecordFits(gr, t, n)
      <3>1. ~Awaits(gr, n)
        BY <1>1, <1>5 DEF Awaits
      <3>2. Kind(gr[n]) = Kind(fr[n])
        BY <1>3, <1>6
      <3>3. Given(gr, n) = TagAt(fr, n)
        <4>1. TagAt(gr, n) = TagAt(fr, n)
          <5>1. n > 1 => n - 1 \in 1..(n - 1)
            BY <1>1
          <5> QED
            BY <1>6, <5>1 DEF TagAt, Alike
        <4>2. Labels(gr[n], gr[n].at) = <<>>
          <5>1. gr[n].at = 0
            BY <1>2, <1>6
          <5> QED
            BY <5>1 DEF Labels
        <4>3. IsSeq(TagAt(fr, n)) /\ TagAt(fr, n) \o <<>> = TagAt(fr, n)
          BY SeqOne, SeqEmpty DEF TagAt
        <4> QED
          BY <4>1, <4>2, <4>3 DEF Given
      <3>4. PartsDone(gr, n) = 0
        BY <1>2, <1>6, <3>1 DEF PartsDone
      <3> QED
        BY <1>11, <3>1, <3>2, <3>3, <3>4 DEF RecordFits
    <2>3. \A i \in OpenIx(gr) : i \in 1..(n - 1) \/ i = n
      BY <1>1, <1>5 DEF OpenIx
    <2> QED
      BY <1>5, <1>11, <2>1, <2>2, <2>3 DEF DocFits
  <1>13. RootFits(gr, t)
    <2>1. Len(OpenIn(t)) # 0
      BY <1>10, <1>11
    <2> QED
      BY <2>1, Openings DEF RootFits
  <1>14. TagsFit(gr, th) /\ Depths(gr, th)
    <2>1. TagsFit(fr, tg) /\ Depths(fr, tg)
      BY DEF Goes
    <2>2. IsSeq(tg) /\ \A j \in 1..Len(tg) : IsTag(tg[j])
      BY <2>1 DEF TagsFit
    <2>3. Untagged(gr, n)
      BY <1>1, <1>5, <1>8 DEF Untagged
    <2>4. d \in Int /\ UpTo(n, ObjectIx(gr)) = UpTo(n - 1, ObjectIx(gr)) + d
      <3>1. CASE Kind(a) = "list"
        <4>1. UpTo(n, ObjectIx(gr)) = UpTo(n - 1, ObjectIx(gr))
          BY <1>5, <1>7, <1>8, <1>10, <3>1, TopFacts
        <4>2. UpTo(n - 1, ObjectIx(gr)) \in Nat /\ d = 0
          BY <1>9, <1>10, <3>1
        <4> HIDE DEF d
        <4> QED
          BY <4>1, <4>2
      <3>2. CASE Kind(a) # "list"
        <4>1. UpTo(n, ObjectIx(gr)) = UpTo(n - 1, ObjectIx(gr)) + 1
          BY <1>5, <1>7, <1>8, <1>10, <3>2, TopFacts
        <4> QED
          BY <3>2, <4>1
      <3> QED
        BY <3>1, <3>2
    <2>5. UpTo(Len(gr), ObjectIx(gr)) = UpTo(n, ObjectIx(fr)) + d
      <3>1. UpTo(n, ObjectIx(fr)) = UpTo(n - 1, ObjectIx(fr))
        BY <1>1, <1>8, TopFacts
      <3> QED
        BY <1>5, <1>9, <1>10, <2>4, <3>1
    <2>6. TagsMoved(tg, th, d)
      <3>1. CASE Kind(fr[n]) = "list"
        BY <2>2, <3>1, TagsAlike
      <3>2. CASE Kind(fr[n]) # "list"
        <4>1. \A j \in 1..Len(tg) : tg[j].depth + 1 \in Nat
          BY <2>2 DEF IsTag
        <4>2. 1 \in Int /\ th = Deeper(tg, 1) /\ d = 1
          BY <3>2
        <4> HIDE DEF d
        <4> QED
          BY <2>2, <4>1, <4>2, TagsDeeper
      <3> QED
        BY <3>1, <3>2
    <2>7. n - 1 <= Len(gr) /\ IsSeq(gr)
      BY <1>1, <1>5
    <2> HIDE DEF d
    <2>8. d \in Int
      BY <2>4
    <2> QED
      BY <1>1, <1>6, <2>1, <2>3, <2>5, <2>6, <2>7, <2>8, TagsKept
  <1>15. t.kind = input.kind
    BY DEF Goes
  <1> QED
    BY <1>5, <1>7, <1>12, <1>13, <1>14, <1>15 DEF Goes

\* The top record has been replaced by b, and g put on it.
Pushed(fr, gr, b, g) ==
  /\ IsSeq(gr) /\ Len(gr) = Len(fr) + 1 /\ Alike(fr, gr, Len(fr) - 1)
  /\ gr[Len(fr)] = b /\ gr[Len(fr) + 1] = g

\* Append puts a record on the top one.
LEMMA Pushes ==
  ASSUME NEW fr, IsSeq(fr), fr # <<>>, NEW b, NEW hr, Retopped(fr, hr, b), NEW g
  PROVE  Pushed(fr, Append(hr, g), b, g)
  <1> DEFINE n == Len(fr)
             gr == Append(hr, g)
  <1>1. n \in Nat /\ n # 0
    BY SeqFacts
  <1>2. IsSeq(hr) /\ Len(hr) = n /\ hr[n] = b /\ \A i \in 1..(n - 1) : hr[i] = fr[i]
    BY DEF Retopped, Alike
  <1>3. IsSeq(gr) /\ Len(gr) = n + 1 /\ gr[n + 1] = g /\ \A i \in 1..n : gr[i] = hr[i]
    BY <1>2, SeqAppend
  <1> HIDE DEF gr
  <1>4. n \in 1..n /\ \A i \in 1..(n - 1) : i \in 1..n
    BY <1>1
  <1>5. gr[n] = b /\ \A i \in 1..(n - 1) : gr[i] = fr[i]
    BY <1>2, <1>3, <1>4
  <1> QED
    BY <1>3, <1>5 DEF Pushed, Alike, gr

\* What is appended to the last of two is appended to both.
LEMMA ConcatAppend ==
  ASSUME NEW s, NEW t, IsSeq(s), IsSeq(t), NEW e
  PROVE  s \o Append(t, e) = Append(s \o t, e)
  <1> DEFINE p == Len(s)
             q == Len(t)
             u == Append(t, e)
             l == s \o u
             c == s \o t
             r == Append(c, e)
  <1>1. p \in Nat /\ q \in Nat
    BY SeqFacts
  <1>2. IsSeq(u) /\ Len(u) = q + 1 /\ u[q + 1] = e /\ \A i \in 1..q : u[i] = t[i]
    BY SeqAppend
  <1> HIDE DEF u
  <1>3. IsSeq(l) /\ Len(l) = p + (q + 1) /\ \A i \in 1..(p + (q + 1)) : l[i] = IF i <= p THEN s[i] ELSE u[i - p]
    BY <1>2, SeqConcat
  <1>4. IsSeq(c) /\ Len(c) = p + q /\ \A i \in 1..(p + q) : c[i] = IF i <= p THEN s[i] ELSE t[i - p]
    BY SeqConcat
  <1> HIDE DEF l, c
  <1>5. IsSeq(r) /\ Len(r) = p + q + 1 /\ r[p + q + 1] = e /\ \A i \in 1..(p + q) : r[i] = c[i]
    BY <1>4, SeqAppend
  <1> HIDE DEF r, p, q
  <1>6. ASSUME NEW i \in 1..(p + q + 1) PROVE l[i] = r[i]
    <2>1. i \in 1..(p + (q + 1))
      BY <1>1
    <2>2. CASE i <= p
      <3>1. i \in 1..(p + q)
        BY <1>1, <2>2
      <3> QED
        BY <1>3, <1>4, <1>5, <2>1, <2>2, <3>1
    <2>3. CASE ~(i <= p) /\ i # p + q + 1
      <3>1. i \in 1..(p + q) /\ i - p \in 1..q
        BY <1>1, <2>3
      <3>2. l[i] = u[i - p] /\ u[i - p] = t[i - p] /\ r[i] = c[i] /\ c[i] = t[i - p]
        BY <1>2, <1>3, <1>4, <1>5, <2>1, <2>3, <3>1
      <3> QED
        BY <3>2
    <2>4. CASE i = p + q + 1
      <3>1. ~(i <= p) /\ i - p = q + 1
        BY <1>1, <2>4
      <3> QED
        BY <1>2, <1>3, <1>5, <2>1, <2>4, <3>1
    <2> QED
      BY <2>2, <2>3, <2>4
  <1>7. Len(l) = Len(r) /\ Len(l) = p + q + 1
    BY <1>1, <1>3, <1>5
  <1>8. l = r
    BY <1>3, <1>5, <1>6, <1>7, SeqSame
  <1> QED
    BY <1>8 DEF l, r, u, c

\* What the top record has given the sink once it has named one part more.
LEMMA GivenMore ==
  ASSUME NEW fr, NEW gr, NEW n \in Nat, n # 0, Alike(fr, gr, n - 1),
         gr[n].shape = fr[n].shape, gr[n].value = fr[n].value,
         fr[n].at \in Nat, gr[n].at = fr[n].at + 1
  PROVE  Given(gr, n) = Append(Given(fr, n), Parts(fr[n])[gr[n].at].label.part)
  <1> DEFINE p == fr[n].at
             a == Labels(fr[n], fr[n].at)
             b == Labels(gr[n], gr[n].at)
             e == Parts(fr[n])[gr[n].at].label.part
             c == Append(a, e)
  <1>1. TagAt(gr, n) = TagAt(fr, n)
    <2>1. n > 1 => n - 1 \in 1..(n - 1)
      OBVIOUS
    <2> QED
      BY <2>1 DEF TagAt, Alike
  <1>2. Parts(gr[n]) = Parts(fr[n])
    BY PartsAlike
  <1>3. IsSeq(a) /\ Len(a) = p /\ IsSeq(b) /\ Len(b) = p + 1 /\ IsSeq(TagAt(fr, n))
    <2>1. gr[n].at \in Nat
      OBVIOUS
    <2> QED
      BY <2>1, GivenIsSeq
  <1>4. /\ \A k \in 1..p : a[k] = Parts(fr[n])[k].label.part
        /\ \A k \in 1..(p + 1) : b[k] = Parts(fr[n])[k].label.part
    BY <1>2 DEF Labels
  <1> HIDE DEF a, b
  <1>5. IsSeq(c) /\ Len(c) = p + 1 /\ c[p + 1] = e /\ \A k \in 1..p : c[k] = a[k]
    BY <1>3, SeqAppend
  <1> HIDE DEF c
  <1>6. \A k \in 1..(p + 1) : b[k] = c[k]
    <2> TAKE k \in 1..(p + 1)
    <2>1. p + 1 = gr[n].at /\ p \in Nat
      OBVIOUS
    <2> HIDE DEF p
    <2>2. k \in 1..p \/ k = p + 1
      BY <2>1
    <2>3. CASE k = p + 1
      BY <1>4, <1>5, <2>1, <2>3
    <2>4. CASE k \in 1..p
      BY <1>4, <1>5, <2>4
    <2> QED
      BY <2>2, <2>3, <2>4
  <1>7. b = c
    BY <1>3, <1>5, <1>6, SeqSame
  <1>8. TagAt(fr, n) \o c = Append(TagAt(fr, n) \o a, e)
    BY <1>3, ConcatAppend DEF c
  <1> QED
    BY <1>1, <1>7, <1>8 DEF Given, a, b

\* Which records have containers open or a tagSink on, when the top one stays
\* as it was and one that has not begun is put on it.
LEMMA IxPushed ==
  ASSUME NEW fr, IsSeq(fr), NEW n, n = Len(fr), n # 0,
         NEW gr, NEW b, NEW g, Pushed(fr, gr, b, g),
         Kind(b) = Kind(fr[n]), b.begun <=> fr[n].begun, ~g.begun
  PROVE  /\ \A i \in 1..(n + 1) : /\ i \in OpenIx(gr) <=> i \in OpenIx(fr)
                                  /\ i \in TaggedIx(gr) <=> i \in TaggedIx(fr)
                                  /\ i \in ObjectIx(gr) <=> i \in ObjectIx(fr)
         /\ \A i \in 1..n : i \in OpenIx(fr) => UpTo(i, OpenIx(gr)) = UpTo(i, OpenIx(fr))
         /\ UpTo(n + 1, OpenIx(gr)) = UpTo(n, OpenIx(fr))
         /\ UpTo(n + 1, ObjectIx(gr)) = UpTo(n, ObjectIx(fr))
         /\ n + 1 \notin TaggedIx(gr) /\ n + 1 \notin OpenIx(gr)
  <1>1. n \in Nat /\ n + 1 \in Nat /\ n <= n + 1 /\ n \in 1..(n + 1)
    BY SeqFacts
  <1>2. /\ Len(gr) = n + 1 /\ gr[n] = b /\ gr[n + 1] = g
        /\ \A i \in 1..(n - 1) : gr[i] = fr[i]
    BY DEF Pushed, Alike
  <1>3. \A i \in 1..(n + 1) : /\ i \in OpenIx(gr) <=> i \in OpenIx(fr)
                              /\ i \in TaggedIx(gr) <=> i \in TaggedIx(fr)
                              /\ i \in ObjectIx(gr) <=> i \in ObjectIx(fr)
    <2> TAKE i \in 1..(n + 1)
    <2>1. CASE i \in 1..(n - 1)
      <3>1. i \in 1..n /\ gr[i] = fr[i]
        BY <1>1, <1>2, <2>1
      <3> QED
        BY <1>2, <3>1 DEF OpenIx, TaggedIx, ObjectIx
    <2>2. CASE i = n
      <3>1. n \in 1..n /\ n \in 1..(n + 1)
        BY <1>1
      <3> QED
        BY <1>2, <2>2, <3>1 DEF OpenIx, TaggedIx, ObjectIx
    <2>3. CASE i = n + 1
      <3>1. n + 1 \notin 1..n
        BY <1>1
      <3> QED
        BY <1>2, <2>3, <3>1 DEF OpenIx, TaggedIx, ObjectIx
    <2>4. i \in 1..(n - 1) \/ i = n \/ i = n + 1
      BY <1>1
    <2> QED
      BY <2>1, <2>2, <2>3, <2>4
  <1>4. n + 1 \notin OpenIx(fr) /\ n + 1 \notin TaggedIx(fr) /\ n + 1 \notin ObjectIx(fr)
    BY <1>1 DEF OpenIx, TaggedIx, ObjectIx
  <1>5. \A i \in 0..(n + 1) : /\ UpTo(i, OpenIx(gr)) = UpTo(i, OpenIx(fr))
                              /\ UpTo(i, ObjectIx(gr)) = UpTo(i, ObjectIx(fr))
    <2> TAKE i \in 0..(n + 1)
    <2>1. i \in Nat /\ \A j \in 1..i : j \in 1..(n + 1)
      BY <1>1
    <2> QED
      BY <1>3, <2>1, UpToSame
  <1>6. /\ UpTo(n + 1, OpenIx(fr)) = UpTo(n, OpenIx(fr))
        /\ UpTo(n + 1, ObjectIx(fr)) = UpTo(n, ObjectIx(fr))
    <2>1. \A j \in (n + 1)..(n + 1) : j \notin OpenIx(fr) /\ j \notin ObjectIx(fr)
      BY <1>1, <1>4
    <2> QED
      BY <1>1, <2>1, UpToNoMore
  <1>7. n + 1 \in 1..(n + 1) /\ n + 1 \in 0..(n + 1) /\ \A i \in 1..n : i \in 0..(n + 1)
    BY <1>1
  <1> QED
    BY <1>3, <1>4, <1>5, <1>6, <1>7

\* A part's record is put on the container that named it.
LEMMA PartEnters ==
  ASSUME NEW fr, NEW tg, NEW sk, Goes(fr, tg, sk), fr # <<>>, NEW n, n = Len(fr), n \in OpenIx(fr),
         NEW b, IsFrame(b), b.shape = fr[n].shape, b.value = fr[n].value, b.begun,
         b.at = fr[n].at + 1,
         NEW g, IsFrame(g), ~g.begun, NEW gr, Pushed(fr, gr, b, g),
         NEW t, IF Kind(fr[n]) = "list" THEN t = sk
                ELSE Named(sk, t, Parts(fr[n])[b.at].label.part)
  PROVE  Goes(gr, tg, t)
  <1> DEFINE m == Len(OpenIn(sk))
  <1>1. /\ IsSeq(fr) /\ n \in Nat /\ n # 0 /\ n \in 1..n /\ n \notin TaggedIx(fr)
        /\ n - 1 \in Nat /\ n - 1 <= n
        /\ Stacked(fr) /\ Active(fr, n - 1) /\ Variants(fr) /\ IsFrame(fr[n])
        /\ UpTo(n, OpenIx(fr)) = UpTo(n - 1, OpenIx(fr)) + 1
        /\ IsSink(sk) /\ DocFits(fr, sk) /\ Kind(fr[n]) \in Containers /\ fr[n].begun
    BY TopFacts DEF Goes
  <1>2. Kind(b) = Kind(fr[n]) /\ fr[n].at \in Nat
    BY <1>1, PartsAlike, FrameFacts
  <1>3. /\ IsSeq(gr) /\ Len(gr) = n + 1 /\ Alike(fr, gr, n - 1)
        /\ gr[n] = b /\ gr[n + 1] = g
        /\ \A i \in 1..(n - 1) : gr[i] = fr[i]
    BY DEF Pushed, Alike
  <1>4. /\ \A i \in 1..(n + 1) : /\ i \in OpenIx(gr) <=> i \in OpenIx(fr)
                                 /\ i \in TaggedIx(gr) <=> i \in TaggedIx(fr)
        /\ \A i \in 1..n : i \in OpenIx(fr) => UpTo(i, OpenIx(gr)) = UpTo(i, OpenIx(fr))
        /\ UpTo(n + 1, OpenIx(gr)) = UpTo(n, OpenIx(fr))
        /\ UpTo(n + 1, ObjectIx(gr)) = UpTo(n, ObjectIx(fr))
        /\ n + 1 \notin TaggedIx(gr) /\ n + 1 \notin OpenIx(gr)
    BY <1>1, <1>2, IxPushed
  <1>5. \A i \in 1..(n + 1) : i \in 1..(n - 1) \/ i = n \/ i = n + 1
    BY <1>1
  <1>6. Stacked(gr) /\ Active(gr, n) /\ Variants(gr)
    <2>1. \A i \in 1..(n - 1) : i \in 1..n /\ i + 1 \in 1..n
      BY <1>1
    <2>2. Stacked(gr)
      BY <1>1, <1>3, <1>5, <2>1 DEF Stacked
    <2>3. b.at > 0 /\ b.begun
      BY <1>2
    <2>4. \A i \in 1..n : i \in 1..(n - 1) \/ i = n
      BY <1>1
    <2>5. Active(gr, n)
      BY <1>1, <1>3, <2>3, <2>4 DEF Active
    <2>6. \A i \in 1..n : gr[i].shape = fr[i].shape
      BY <1>3, <2>4
    <2>7. \A i \in 1..n : Kind(gr[i]) = Kind(fr[i])
      BY <2>6 DEF Kind
    <2>8. ASSUME NEW i \in 1..n, Kind(gr[i]) = "tagged"
          PROVE  IsVariant(gr[i + 1].shape, Shape[gr[i].shape].tag)
      <3>1. i # n
        BY <1>1, <2>7, <2>8 DEF Containers
      <3>2. i \in 1..(n - 1)
        BY <2>4, <3>1
      <3>3. i + 1 \in 1..n
        BY <2>1, <3>2
      <3> QED
        BY <1>1, <2>6, <2>7, <2>8, <3>2, <3>3 DEF Variants
    <2>9. Len(gr) - 1 = n
      BY <1>1, <1>3
    <2> QED
      BY <2>2, <2>5, <2>8, <2>9 DEF Variants
  <1>7. /\ IsSink(t) /\ t.kind = sk.kind /\ t.err = "none" /\ Len(OpenIn(t)) = m /\ m \in Nat /\ m # 0
        /\ \A k \in 1..m : k < m => OpenIn(t)[k] = OpenIn(sk)[k]
    <2>1. m \in Nat /\ m # 0 /\ sk.err = "none"
      BY TopOpen DEF Goes
    <2> QED
      BY <1>1, <2>1 DEF Named
  <1>8. m = UpTo(n, OpenIx(fr)) /\ UpTo(n - 1, OpenIx(fr)) \in Nat
    BY <1>1, UpToNat DEF DocFits
  <1>9. DocFits(gr, t)
    <2>1. \A i \in 1..(n - 1) : i \in OpenIx(gr) => RecordFits(gr, t, i)
      <3>1. n <= Len(gr) /\ Len(gr) \notin TaggedIx(gr)
        BY <1>1, <1>3, <1>4
      <3>2. \A k \in 1..UpTo(n - 1, OpenIx(fr)) : OpenIn(t)[k] = OpenIn(sk)[k]
        <4>1. \A k \in 1..UpTo(n - 1, OpenIx(fr)) : k \in 1..m /\ k < m
          BY <1>1, <1>8
        <4> QED
          BY <1>7, <4>1
      <3>3. IsSeq(gr) /\ Alike(fr, gr, n - 1) /\ IsSink(t) /\ t.kind = sk.kind
        BY <1>3, <1>7
      <3> QED
        BY <1>1, <3>1, <3>2, <3>3, LowerKept
    <2>2. RecordFits(gr, t, n)
      <3>1. Awaits(gr, n)
        <4>1. n + 1 \in (n + 1)..Len(gr)
          BY <1>1, <1>3
        <4> QED
          BY <1>4, <4>1 DEF Awaits
      <3>2. Kind(gr[n]) = Kind(fr[n]) /\ UpTo(n, OpenIx(gr)) = m
        BY <1>1, <1>2, <1>3, <1>4, <1>8
      <3>3. CASE Kind(fr[n]) = "list"
        <4>1. Last(OpenIn(sk)).is = "List" /\ Counts(sk, m, fr[n].at) /\ t = sk
          BY <1>1, <3>3, TopOpen
        <4>2. PartsDone(gr, n) = fr[n].at
          BY <1>2, <1>3, <3>1 DEF PartsDone
        <4> QED
          BY <3>2, <3>3, <4>1, <4>2 DEF RecordFits, Last
      <3>4. CASE Kind(fr[n]) # "list"
        <4>1. Given(gr, n) = Append(Given(fr, n), Parts(fr[n])[b.at].label.part)
          BY <1>1, <1>2, <1>3, GivenMore, SMTT(30)
        <4>2. Holds(sk, m, Given(fr, n), FALSE)
          BY <1>1, <3>4, TopOpen
        <4>3. IsSeq(Given(fr, n))
          BY <1>2, GivenIsSeq
        <4>4. Named(sk, t, Parts(fr[n])[b.at].label.part)
          BY <3>4
        <4>5. OpenIn(t)[m].is = "Object" /\ Holds(t, m, Given(gr, n), TRUE)
          BY <4>1, <4>2, <4>3, <4>4 DEF Named
        <4> QED
          BY <3>1, <3>2, <3>4, <4>5 DEF RecordFits
      <3> QED
        BY <3>3, <3>4
    <2>3. \A i \in OpenIx(gr) : i \in 1..(n - 1) \/ i = n
      BY <1>3, <1>4, <1>5 DEF OpenIx
    <2>4. Len(OpenIn(t)) = UpTo(Len(gr), OpenIx(gr))
      BY <1>3, <1>4, <1>7, <1>8
    <2> QED
      BY <2>1, <2>2, <2>3, <2>4 DEF DocFits
  <1>10. RootFits(gr, t)
    BY <1>7, Openings DEF RootFits
  <1>11. TagsFit(gr, tg) /\ Depths(gr, tg)
    <2>1. TagsFit(fr, tg) /\ Depths(fr, tg)
      BY DEF Goes
    <2>2. TagsMoved(tg, tg, 0)
      BY <2>1, TagsAlike DEF TagsFit
    <2>3. Untagged(gr, n)
      <3>1. n \notin TaggedIx(gr) /\ n + 1 \notin TaggedIx(gr)
        BY <1>1, <1>4, <1>5
      <3>2. \A i \in n..(n + 1) : i = n \/ i = n + 1
        BY <1>1
      <3> QED
        BY <1>3, <3>1, <3>2 DEF Untagged
    <2>4. UpTo(Len(gr), ObjectIx(gr)) = UpTo(n, ObjectIx(fr)) + 0
      <3>1. UpTo(n, ObjectIx(fr)) \in Nat
        BY <1>1, UpToNat
      <3> QED
        BY <1>3, <1>4, <3>1
    <2>5. 0 \in Int /\ n - 1 <= Len(gr) /\ IsSeq(gr) /\ Alike(fr, gr, n - 1)
      BY <1>1, <1>3
    <2> QED
      BY <1>1, <2>1, <2>2, <2>3, <2>4, <2>5, TagsKept
  <1>12. t.kind = input.kind /\ Len(gr) - 1 = n
    BY <1>1, <1>3, <1>7 DEF Goes
  <1> QED
    BY <1>3, <1>6, <1>7, <1>9, <1>10, <1>11, <1>12 DEF Goes

\* A refinement of an object has its structure, so what it refines is a tagged
\* union's variant where it is.
LEMMA VariantInner ==
  ASSUME NEW s, Shape[s].kind \in Wrappers, NEW tag, IsVariant(s, tag)
  PROVE  IsVariant(Shape[s].of, tag)
  <1>1. Shape[s].kind = "refined" /\ Shape[Shape[s].of].kind = "object"
    BY DEF IsVariant, IsObject, Wrappers
  <1>2. FieldsOf(Shape[s].of) = FieldsOf(s)
    BY <1>1 DEF FieldsOf
  <1>3. IsObject(Shape[s].of)
    BY <1>1 DEF IsObject
  <1> QED
    BY <1>2, <1>3 DEF IsVariant

\* The record of a wrapper gives its place to its inner schema's.
LEMMA InnerEnters ==
  ASSUME NEW fr, NEW tg, NEW sk, Goes(fr, tg, sk), fr # <<>>, NEW n, n = Len(fr),
         ~fr[n].begun, Kind(fr[n]) \in Wrappers,
         NEW g, IsFrame(g), ~g.begun, g.shape = Shape[fr[n].shape].of,
         NEW gr, Retopped(fr, gr, g)
  PROVE  Goes(gr, tg, sk)
  <1>1. /\ IsSeq(fr) /\ n \in Nat /\ n # 0 /\ n \in 1..n /\ n \notin TaggedIx(fr) /\ n \notin OpenIx(fr)
        /\ n - 1 \in Nat /\ n - 1 <= n
        /\ Stacked(fr) /\ Active(fr, n - 1) /\ Variants(fr) /\ IsFrame(fr[n])
        /\ IsSink(sk) /\ DocFits(fr, sk)
    BY TopFacts DEF Goes
  <1>2. /\ IsSeq(gr) /\ Len(gr) = n /\ Alike(fr, gr, n - 1) /\ gr[n] = g
        /\ \A i \in 1..(n - 1) : gr[i] = fr[i]
    BY DEF Retopped, Alike
  <1>3. \A i \in 1..n : i \in 1..(n - 1) \/ i = n
    BY <1>1
  <1>4. \A i \in 1..(n - 1) : i \in 1..n /\ i # n /\ i + 1 \in 1..n
    BY <1>1
  <1>5. OpenIx(gr) = OpenIx(fr) /\ TaggedIx(gr) = TaggedIx(fr) /\ ObjectIx(gr) = ObjectIx(fr)
    <2>1. \A i \in 1..n : /\ i \in OpenIx(gr) <=> i \in OpenIx(fr)
                          /\ i \in TaggedIx(gr) <=> i \in TaggedIx(fr)
                          /\ i \in ObjectIx(gr) <=> i \in ObjectIx(fr)
      <3> TAKE i \in 1..n
      <3>1. CASE i = n
        BY <1>2, <3>1 DEF OpenIx, TaggedIx, ObjectIx
      <3>2. CASE i \in 1..(n - 1)
        BY <1>2, <3>2 DEF OpenIx, TaggedIx, ObjectIx
      <3> QED
        BY <1>3, <3>1, <3>2
    <2>2. \A i : i \in OpenIx(gr) \/ i \in OpenIx(fr) => i \in 1..n
      BY <1>2 DEF OpenIx
    <2>3. \A i : i \in TaggedIx(gr) \/ i \in TaggedIx(fr) => i \in 1..n
      BY <1>2 DEF TaggedIx
    <2>4. \A i : i \in ObjectIx(gr) \/ i \in ObjectIx(fr) => i \in 1..n
      BY <2>2 DEF ObjectIx
    <2> QED
      BY <2>1, <2>2, <2>3, <2>4
  <1>6. Stacked(gr) /\ Active(gr, n - 1) /\ Variants(gr)
    <2>1. Stacked(gr)
      BY <1>1, <1>2, <1>3, <1>4 DEF Stacked
    <2>2. Active(gr, n - 1)
      BY <1>1, <1>2 DEF Active
    <2>3. ASSUME NEW i \in 1..(n - 1), Kind(gr[i]) = "tagged"
          PROVE  IsVariant(gr[i + 1].shape, Shape[gr[i].shape].tag)
      <3>1. gr[i] = fr[i] /\ IsVariant(fr[i + 1].shape, Shape[fr[i].shape].tag)
        BY <1>1, <1>2, <2>3 DEF Variants
      <3>2. CASE i + 1 = n
        <4>1. IsVariant(Shape[fr[n].shape].of, Shape[fr[i].shape].tag)
          BY <3>1, <3>2, VariantInner DEF Kind
        <4> QED
          BY <1>2, <3>1, <3>2, <4>1
      <3>3. CASE i + 1 \in 1..(n - 1)
        BY <1>2, <3>1, <3>3
      <3> QED
        BY <1>3, <1>4, <3>2, <3>3
    <2> QED
      BY <1>2, <2>1, <2>2, <2>3 DEF Variants
  <1>7. DocFits(gr, sk)
    <2>1. \A i \in 1..(n - 1) : i \in OpenIx(gr) => RecordFits(gr, sk, i)
      <3>1. n <= Len(gr) /\ Len(gr) \notin TaggedIx(gr)
        BY <1>1, <1>2, <1>5
      <3>2. IsSeq(gr) /\ Alike(fr, gr, n - 1)
        BY <1>2
      <3> QED
        BY <1>1, <3>1, <3>2, LowerKept
    <2>2. \A i \in OpenIx(gr) : i \in 1..(n - 1)
      BY <1>1, <1>2, <1>3, <1>5 DEF OpenIx
    <2>3. Len(OpenIn(sk)) = UpTo(Len(gr), OpenIx(gr))
      BY <1>1, <1>2, <1>5 DEF DocFits
    <2> QED
      BY <2>1, <2>2, <2>3 DEF DocFits
  <1>8. RootFits(gr, sk)
    BY <1>2 DEF Goes, RootFits
  <1>9. TagsFit(gr, tg) /\ Depths(gr, tg)
    <2>1. TagsFit(fr, tg) /\ Depths(fr, tg)
      BY DEF Goes
    <2>2. TagsMoved(tg, tg, 0)
      BY <2>1, TagsAlike DEF TagsFit
    <2>3. Untagged(gr, n)
      <3>1. \A i \in n..n : i = n
        BY <1>1
      <3> QED
        BY <1>1, <1>2, <1>5, <3>1 DEF Untagged
    <2>4. UpTo(Len(gr), ObjectIx(gr)) = UpTo(n, ObjectIx(fr)) + 0
      <3>1. UpTo(n, ObjectIx(fr)) \in Nat
        BY <1>1, UpToNat
      <3> QED
        BY <1>2, <1>5, <3>1
    <2>5. 0 \in Int /\ n - 1 <= Len(gr) /\ IsSeq(gr) /\ Alike(fr, gr, n - 1)
      BY <1>1, <1>2
    <2> QED
      BY <1>1, <2>1, <2>2, <2>3, <2>4, <2>5, TagsKept
  <1>10. sk.kind = input.kind /\ sk.err = "none"
    BY DEF Goes
  <1> QED
    BY <1>1, <1>2, <1>6, <1>7, <1>8, <1>9, <1>10 DEF Goes

\* The variant's record is put on the tagged union's, under a tagSink.
LEMMA VariantEnters ==
  ASSUME NEW fr, NEW tg, NEW sk, Goes(fr, tg, sk), fr # <<>>, NEW n, n = Len(fr),
         ~fr[n].begun, Kind(fr[n]) = "tagged",
         NEW b, IsFrame(b), b.shape = fr[n].shape, b.value = fr[n].value, b.begun, b.at = 1,
         NEW g, IsFrame(g), ~g.begun, IsVariant(g.shape, Shape[fr[n].shape].tag),
         NEW gr, Pushed(fr, gr, b, g),
         NEW tag, IsTag(tag), tag.depth = 0,
         tag.name = Spell[input.strategy][Shape[fr[n].shape].tag], tag.value = Chosen(fr[n])
  PROVE  Goes(gr, Append(tg, tag), sk)
  <1> DEFINE th == Append(tg, tag)
  <1>1. /\ IsSeq(fr) /\ n \in Nat /\ n # 0 /\ n \in 1..n /\ n \notin TaggedIx(fr) /\ n \notin OpenIx(fr)
        /\ n - 1 \in Nat /\ n - 1 <= n
        /\ Stacked(fr) /\ Active(fr, n - 1) /\ Variants(fr) /\ IsFrame(fr[n])
        /\ IsSink(sk) /\ DocFits(fr, sk) /\ TagsFit(fr, tg) /\ Depths(fr, tg)
    BY TopFacts DEF Goes
  <1>2. Kind(b) = "tagged"
    BY PartsAlike
  <1>3. /\ IsSeq(gr) /\ Len(gr) = n + 1 /\ Alike(fr, gr, n - 1)
        /\ gr[n] = b /\ gr[n + 1] = g
        /\ \A i \in 1..(n - 1) : gr[i] = fr[i]
    BY DEF Pushed, Alike
  <1>4. \A i \in 1..(n + 1) : i \in 1..(n - 1) \/ i = n \/ i = n + 1
    BY <1>1
  <1>5. \A i \in 1..(n - 1) : i \in 1..n /\ i # n /\ i + 1 \in 1..n /\ i \in 1..(n + 1)
    BY <1>1
  <1>6. /\ \A i \in 0..(n - 1) : /\ UpTo(i, OpenIx(gr)) = UpTo(i, OpenIx(fr))
                                 /\ UpTo(i, TaggedIx(gr)) = UpTo(i, TaggedIx(fr))
                                 /\ UpTo(i, ObjectIx(gr)) = UpTo(i, ObjectIx(fr))
        /\ \A i \in 1..(n - 1) : i \in TaggedIx(gr) <=> i \in TaggedIx(fr)
    <2>1. n - 1 <= Len(gr) /\ n - 1 <= Len(fr) /\ n - 1 \in Nat /\ IsSeq(fr) /\ IsSeq(gr)
      BY <1>1, <1>3
    <2>2. Alike(fr, gr, n - 1)
      BY <1>3
    <2> QED
      BY <2>1, <2>2, IxAlike
  <1>7. /\ n \in TaggedIx(gr) /\ n \notin OpenIx(gr) /\ n \notin ObjectIx(gr) /\ n \notin ObjectIx(fr)
        /\ n + 1 \notin TaggedIx(gr) /\ n + 1 \notin OpenIx(gr) /\ n + 1 \notin ObjectIx(gr)
    <2>1. n \in 1..(n + 1) /\ n + 1 \in 1..(n + 1)
      BY <1>1
    <2> QED
      BY <1>1, <1>2, <1>3, <2>1 DEF OpenIx, TaggedIx, ObjectIx, Containers
  <1>8. \A S : /\ n \in S => UpTo(n, S) = UpTo(n - 1, S) + 1
               /\ n \notin S => UpTo(n, S) = UpTo(n - 1, S)
               /\ n + 1 \notin S => UpTo(n + 1, S) = UpTo(n, S)
               /\ UpTo(n - 1, S) \in Nat
    <2> TAKE S
    <2>1. UpTo(n - 1, S) \in Nat /\ UpTo(n, S) \in Nat
      BY <1>1, UpToNat
    <2>2. UpTo(n + 1, S) = UpTo(n, S) + (IF n + 1 \in S THEN 1 ELSE 0)
      BY <1>1, UpToNext
    <2>3. /\ n \in S => UpTo(n, S) = UpTo(n - 1, S) + 1
          /\ n \notin S => UpTo(n, S) = UpTo(n - 1, S)
      BY <1>1, TopFacts
    <2>4. n + 1 \notin S => UpTo(n + 1, S) = UpTo(n, S)
      BY <2>1, <2>2
    <2> QED
      BY <2>1, <2>3, <2>4
  <1>9. n - 1 \in 0..(n - 1)
    BY <1>1
  <1>10. /\ UpTo(n + 1, OpenIx(gr)) = UpTo(n, OpenIx(fr))
         /\ UpTo(n + 1, ObjectIx(gr)) = UpTo(n, ObjectIx(fr))
         /\ UpTo(n, ObjectIx(gr)) = UpTo(n, ObjectIx(fr))
         /\ UpTo(n + 1, TaggedIx(gr)) = UpTo(n, TaggedIx(fr)) + 1
         /\ UpTo(n, TaggedIx(gr)) = UpTo(n, TaggedIx(fr)) + 1
         /\ UpTo(n, TaggedIx(fr)) \in Nat /\ UpTo(n, ObjectIx(fr)) \in Nat
    <2>1. /\ UpTo(n - 1, OpenIx(gr)) = UpTo(n - 1, OpenIx(fr))
          /\ UpTo(n - 1, TaggedIx(gr)) = UpTo(n - 1, TaggedIx(fr))
          /\ UpTo(n - 1, ObjectIx(gr)) = UpTo(n - 1, ObjectIx(fr))
      BY <1>6, <1>9
    <2> QED
      BY <1>1, <1>7, <1>8, <2>1
  <1>11. Stacked(gr) /\ Active(gr, n) /\ Variants(gr)
    <2>1. Stacked(gr)
      BY <1>1, <1>3, <1>4, <1>5, SMTT(60) DEF Stacked
    <2>2. \A i \in 1..n : i \in 1..(n - 1) \/ i = n
      BY <1>1
    <2>3. Active(gr, n)
      BY <1>1, <1>3, <2>2, SMTT(30) DEF Active
    <2>4. ASSUME NEW i \in 1..n, Kind(gr[i]) = "tagged"
          PROVE  IsVariant(gr[i + 1].shape, Shape[gr[i].shape].tag)
      <3>1. CASE i = n
        BY <1>3, <3>1
      <3>2. CASE i \in 1..(n - 1)
        <4>1. gr[i] = fr[i] /\ IsVariant(fr[i + 1].shape, Shape[fr[i].shape].tag)
          BY <1>1, <1>3, <2>4, <3>2 DEF Variants
        <4>2. gr[i + 1].shape = fr[i + 1].shape
          <5>1. i + 1 \in 1..(n - 1) \/ i + 1 = n
            BY <1>1, <3>2
          <5> QED
            BY <1>3, <5>1
        <4> QED
          BY <4>1, <4>2
      <3> QED
        BY <2>2, <3>1, <3>2
    <2>5. Len(gr) - 1 = n
      BY <1>1, <1>3
    <2> QED
      BY <2>1, <2>3, <2>4, <2>5 DEF Variants
  <1>12. DocFits(gr, sk)
    <2>1. \A i \in 1..(n - 1) : i \in OpenIx(gr) => RecordFits(gr, sk, i)
      <3>1. n <= Len(gr) /\ Len(gr) \notin TaggedIx(gr)
        BY <1>1, <1>3, <1>7
      <3>2. IsSeq(gr) /\ Alike(fr, gr, n - 1)
        BY <1>3
      <3> QED
        BY <1>1, <3>1, <3>2, LowerKept
    <2>2. \A i \in OpenIx(gr) : i \in 1..(n - 1)
      BY <1>3, <1>4, <1>7 DEF OpenIx
    <2>3. Len(OpenIn(sk)) = UpTo(Len(gr), OpenIx(gr))
      BY <1>1, <1>3, <1>10 DEF DocFits
    <2> QED
      BY <2>1, <2>2, <2>3 DEF DocFits
  <1>13. RootFits(gr, sk)
    <2>1. gr # <<>> /\ gr[Len(gr)] = g
      BY <1>1, <1>3, SeqFacts
    <2> QED
      BY <2>1 DEF Goes, RootFits
  <1>14. /\ IsSeq(th) /\ Len(th) = UpTo(n, TaggedIx(fr)) + 1 /\ th[UpTo(n, TaggedIx(fr)) + 1] = tag
         /\ \A k \in 1..UpTo(n, TaggedIx(fr)) : th[k] = tg[k] /\ IsTag(tg[k])
    <2>1. IsSeq(tg) /\ Len(tg) = UpTo(n, TaggedIx(fr)) /\ \A j \in 1..Len(tg) : IsTag(tg[j])
      BY <1>1 DEF TagsFit
    <2> QED
      BY <2>1, SeqAppend
  <1> HIDE DEF th
  <1>15. TagsFit(gr, th)
    <2>1. ASSUME NEW k \in 1..Len(th) PROVE IsTag(th[k])
      <3>1. k \in 1..UpTo(n, TaggedIx(fr)) \/ k = UpTo(n, TaggedIx(fr)) + 1
        BY <1>10, <1>14, SMTT(30)
      <3> QED
        BY <1>14, <3>1
    <2> QED
      BY <1>3, <1>10, <1>14, <2>1 DEF TagsFit
  <1>16. ASSUME NEW i \in TaggedIx(gr)
         PROVE  /\ th[UpTo(i, TaggedIx(gr))].name = Spell[input.strategy][Shape[gr[i].shape].tag]
                /\ th[UpTo(i, TaggedIx(gr))].value = Chosen(gr[i])
                /\ th[UpTo(i, TaggedIx(gr))].depth + UpTo(i, ObjectIx(gr)) = UpTo(Len(gr), ObjectIx(gr))
    <2>1. i \in 1..(n - 1) \/ i = n
      BY <1>3, <1>4, <1>7 DEF TaggedIx
    <2>2. CASE i = n
      <3>1. UpTo(i, TaggedIx(gr)) = UpTo(n, TaggedIx(fr)) + 1
        BY <1>10, <2>2
      <3>2. UpTo(Len(gr), ObjectIx(gr)) = UpTo(i, ObjectIx(gr)) /\ UpTo(i, ObjectIx(gr)) \in Nat
        BY <1>3, <1>10, <2>2, SMTT(30)
      <3>3. Chosen(gr[i]) = tag.value
        BY <1>3, <2>2 DEF Chosen
      <3> QED
        BY <1>3, <1>14, <2>2, <3>1, <3>2, <3>3
    <2>3. CASE i \in 1..(n - 1)
      <3>1. i \in TaggedIx(fr) /\ i \in 0..(n - 1) /\ gr[i] = fr[i]
        BY <1>3, <1>6, <2>3
      <3>2. UpTo(i, TaggedIx(fr)) \in 1..UpTo(n, TaggedIx(fr))
        BY <1>1, <3>1, Positions
      <3>3. th[UpTo(i, TaggedIx(fr))] = tg[UpTo(i, TaggedIx(fr))]
        BY <1>14, <3>2
      <3>4. /\ UpTo(i, TaggedIx(gr)) = UpTo(i, TaggedIx(fr))
            /\ UpTo(i, ObjectIx(gr)) = UpTo(i, ObjectIx(fr))
            /\ UpTo(Len(gr), ObjectIx(gr)) = UpTo(Len(fr), ObjectIx(fr))
        BY <1>3, <1>6, <1>10, <3>1, SMTT(30)
      <3>5. /\ tg[UpTo(i, TaggedIx(fr))].name = Spell[input.strategy][Shape[fr[i].shape].tag]
            /\ tg[UpTo(i, TaggedIx(fr))].value = Chosen(fr[i])
            /\ tg[UpTo(i, TaggedIx(fr))].depth + UpTo(i, ObjectIx(fr)) = UpTo(Len(fr), ObjectIx(fr))
        BY <1>1, <3>1 DEF Depths
      <3> QED
        BY <3>1, <3>3, <3>4, <3>5
    <2> QED
      BY <2>1, <2>2, <2>3
  <1>17. sk.kind = input.kind /\ sk.err = "none" /\ Len(gr) - 1 = n
    BY <1>1, <1>3, SMTT(30) DEF Goes
  <1> QED
    BY <1>1, <1>11, <1>12, <1>13, <1>15, <1>16, <1>17, ZenonT(60) DEF Goes, Depths, th

\* The tagged union's record returns with its tagSink.
LEMMA VariantLeaves ==
  ASSUME NEW fr, NEW tg, NEW sk, Goes(fr, tg, sk), fr # <<>>, NEW n, n = Len(fr), n \in TaggedIx(fr)
  PROVE  Goes(Front(fr), Front(tg), sk)
  <1> DEFINE gr == Front(fr)
             th == Front(tg)
  <1>1. /\ IsSeq(fr) /\ n \in Nat /\ n # 0 /\ n \in 1..n /\ n \notin OpenIx(fr) /\ fr[n].begun
        /\ Stacked(fr) /\ Active(fr, n - 1) /\ Variants(fr)
        /\ IsSink(sk) /\ DocFits(fr, sk) /\ TagsFit(fr, tg) /\ Depths(fr, tg)
    BY TopFacts DEF Goes, TaggedIx
  <1>2. /\ IsSeq(gr) /\ Len(gr) = n - 1 /\ Stacked(gr) /\ Alike(fr, gr, n - 1)
        /\ Active(gr, n - 1) /\ Active(gr, n - 1 - 1) /\ Variants(gr) /\ n - 1 \in Nat /\ n - 1 <= n
    BY <1>1, FrontStack
  <1> HIDE DEF gr
  <1>3. /\ \A i \in 1..(n - 1) : /\ i \in OpenIx(gr) <=> i \in OpenIx(fr)
                                 /\ i \in TaggedIx(gr) <=> i \in TaggedIx(fr)
                                 /\ Given(gr, i) = Given(fr, i)
        /\ \A i \in 0..(n - 1) : /\ UpTo(i, OpenIx(gr)) = UpTo(i, OpenIx(fr))
                                 /\ UpTo(i, TaggedIx(gr)) = UpTo(i, TaggedIx(fr))
                                 /\ UpTo(i, ObjectIx(gr)) = UpTo(i, ObjectIx(fr))
    <2>1. n - 1 <= Len(gr) /\ n - 1 <= Len(fr) /\ n - 1 \in Nat /\ IsSeq(fr) /\ IsSeq(gr)
      BY <1>1, <1>2
    <2>2. Alike(fr, gr, n - 1)
      BY <1>2
    <2> QED
      BY <2>1, <2>2, IxAlike
  <1>4. \A i \in 1..(n - 1) : i \in 0..(n - 1) /\ i \in 1..n /\ gr[i] = fr[i]
    BY <1>1, <1>2 DEF Alike
  <1>5. n \notin ObjectIx(fr) /\ n - 1 \in 0..(n - 1)
    BY <1>1, <1>2 DEF ObjectIx
  <1>6. /\ UpTo(n - 1, OpenIx(gr)) = UpTo(n, OpenIx(fr))
        /\ UpTo(n - 1, ObjectIx(gr)) = UpTo(n, ObjectIx(fr))
        /\ UpTo(n - 1, TaggedIx(gr)) + 1 = UpTo(n, TaggedIx(fr))
        /\ UpTo(n - 1, TaggedIx(gr)) \in Nat
    <2>1. /\ UpTo(n - 1, OpenIx(gr)) = UpTo(n - 1, OpenIx(fr))
          /\ UpTo(n - 1, TaggedIx(gr)) = UpTo(n - 1, TaggedIx(fr))
          /\ UpTo(n - 1, ObjectIx(gr)) = UpTo(n - 1, ObjectIx(fr))
      BY <1>3, <1>5
    <2>2. /\ UpTo(n, OpenIx(fr)) = UpTo(n - 1, OpenIx(fr))
          /\ UpTo(n, ObjectIx(fr)) = UpTo(n - 1, ObjectIx(fr))
          /\ UpTo(n, TaggedIx(fr)) = UpTo(n - 1, TaggedIx(fr)) + 1
      BY <1>1, <1>5, TopFacts
    <2>3. UpTo(n - 1, TaggedIx(gr)) \in Nat
      BY <1>2, UpToNat
    <2> QED
      BY <2>1, <2>2, <2>3
  <1>7. DocFits(gr, sk)
    <2>1. ASSUME NEW i \in OpenIx(gr) PROVE RecordFits(gr, sk, i)
      <3>1. i \in 1..(n - 1) /\ i \in 0..(n - 1)
        BY <1>2, <1>4 DEF OpenIx
      <3>2. /\ i \in OpenIx(fr) /\ gr[i] = fr[i] /\ Given(gr, i) = Given(fr, i)
            /\ UpTo(i, OpenIx(gr)) = UpTo(i, OpenIx(fr))
        BY <1>3, <1>4, <2>1, <3>1
      <3>3. Awaits(gr, i) <=> Awaits(fr, i)
        <4>1. ASSUME Awaits(gr, i) PROVE Awaits(fr, i)
          <5>1. PICK j \in (i + 1)..(n - 1) : j \notin TaggedIx(gr)
            BY <1>2, <4>1 DEF Awaits
          <5>2. j \in 1..(n - 1) /\ j \in (i + 1)..n
            BY <1>1, <3>1
          <5> QED
            BY <1>3, <5>1, <5>2 DEF Awaits
        <4>2. ASSUME Awaits(fr, i) PROVE Awaits(gr, i)
          <5>1. PICK j \in (i + 1)..n : j \notin TaggedIx(fr)
            BY <4>2 DEF Awaits
          <5>2. j \in (i + 1)..(n - 1) /\ j \in 1..(n - 1)
            BY <1>1, <3>1, <5>1
          <5> QED
            BY <1>2, <1>3, <5>1, <5>2 DEF Awaits
        <4> QED
          BY <4>1, <4>2
      <3>4. RecordFits(fr, sk, i)
        BY <1>1, <3>2 DEF DocFits
      <3> QED
        BY <3>2, <3>3, <3>4 DEF RecordFits, PartsDone
    <2> QED
      BY <1>1, <1>2, <1>6, <2>1 DEF DocFits
  <1>8. RootFits(gr, sk)
    <2>1. OpenIn(sk) = <<>> => Rooted(sk)
      BY <1>1 DEF Goes, RootFits
    <2>2. gr # <<>> => Len(gr) \in 1..(n - 1)
      BY <1>2, SeqFacts
    <2>3. gr # <<>> => gr[Len(gr)].begun
      BY <1>2, <2>2 DEF Active
    <2> QED
      BY <2>1, <2>3 DEF RootFits
  <1>9. /\ IsSeq(th) /\ Len(th) = UpTo(n - 1, TaggedIx(gr))
        /\ \A k \in 1..UpTo(n - 1, TaggedIx(gr)) : th[k] = tg[k] /\ IsTag(tg[k])
    <2>1. IsSeq(tg) /\ Len(tg) = UpTo(n, TaggedIx(fr)) /\ \A j \in 1..Len(tg) : IsTag(tg[j])
      BY <1>1 DEF TagsFit
    <2>2. tg # <<>>
      BY <1>6, <2>1, SeqFacts
    <2>3. IsSeq(th) /\ Len(th) = Len(tg) - 1 /\ \A k \in 1..(Len(tg) - 1) : th[k] = tg[k]
      BY <2>1, <2>2, SeqFront DEF Front
    <2>4. Len(tg) - 1 = UpTo(n - 1, TaggedIx(gr)) /\ \A k \in 1..(Len(tg) - 1) : k \in 1..Len(tg)
      BY <1>6, <2>1
    <2> QED
      BY <2>1, <2>3, <2>4
  <1> HIDE DEF th
  <1>10. TagsFit(gr, th)
    BY <1>2, <1>9 DEF TagsFit
  <1>11. ASSUME NEW i \in TaggedIx(gr)
         PROVE  /\ th[UpTo(i, TaggedIx(gr))].name = Spell[input.strategy][Shape[gr[i].shape].tag]
                /\ th[UpTo(i, TaggedIx(gr))].value = Chosen(gr[i])
                /\ th[UpTo(i, TaggedIx(gr))].depth + UpTo(i, ObjectIx(gr)) = UpTo(Len(gr), ObjectIx(gr))
    <2>1. i \in 1..(n - 1) /\ UpTo(i, TaggedIx(gr)) \in 1..UpTo(n - 1, TaggedIx(gr))
      BY <1>2, Positions
    <2>2. i \in TaggedIx(fr) /\ gr[i] = fr[i] /\ i \in 0..(n - 1)
      BY <1>3, <1>4, <2>1
    <2>3. th[UpTo(i, TaggedIx(gr))] = tg[UpTo(i, TaggedIx(fr))]
      BY <1>3, <1>9, <2>1, <2>2
    <2> QED
      BY <1>1, <1>2, <1>3, <1>6, <2>2, <2>3 DEF Depths
  <1>12. sk.kind = input.kind /\ sk.err = "none"
    BY DEF Goes
  <1> QED
    BY <1>1, <1>2, <1>7, <1>8, <1>10, <1>11, <1>12 DEF Goes, Depths, gr, th

\* The top record fails: every record still on the stack was writing a part.
LEMMA Fails ==
  ASSUME NEW fr, NEW tg, NEW sk, Goes(fr, tg, sk), fr # <<>>, Len(fr) \notin TaggedIx(fr),
         NEW t, IsSink(t), t.kind = sk.kind, t.err \in {"none", "duplicate"}
  PROVE  Failed(Front(fr), tg, t)
  <1> DEFINE n == Len(fr)
             gr == Front(fr)
  <1>1. Stacked(fr) /\ Active(fr, n - 1) /\ TagsFit(fr, tg) /\ t.kind = input.kind
    BY DEF Goes
  <1>2. /\ IsSeq(fr) /\ IsSeq(gr) /\ Len(gr) = n - 1 /\ Stacked(gr) /\ Alike(fr, gr, n - 1)
        /\ Active(gr, n - 1) /\ n - 1 \in Nat /\ n - 1 <= n
    BY <1>1, FrontStack
  <1> HIDE DEF gr
  <1>3. UpTo(n - 1, TaggedIx(gr)) = UpTo(n - 1, TaggedIx(fr))
    <2>1. n - 1 <= Len(gr) /\ n - 1 \in 0..(n - 1)
      BY <1>2
    <2> QED
      BY <1>2, <2>1, IxAlike
  <1>4. UpTo(n, TaggedIx(fr)) = UpTo(n - 1, TaggedIx(fr))
    BY <1>1, TopFacts
  <1> QED
    BY <1>1, <1>2, <1>3, <1>4 DEF Failed, TagsFit, gr

\* A failure returns through the top record.
LEMMA Unwinds ==
  ASSUME NEW fr, NEW tg, NEW sk, Failed(fr, tg, sk), fr # <<>>
  PROVE  Failed(Front(fr), IF Kind(Last(fr)) = "tagged" THEN Front(tg) ELSE tg, sk)
  <1> DEFINE n == Len(fr)
             gr == Front(fr)
             th == IF Kind(Last(fr)) = "tagged" THEN Front(tg) ELSE tg
  <1>1. Stacked(fr) /\ Active(fr, n) /\ TagsFit(fr, tg)
    BY DEF Failed
  <1>2. n \in Nat /\ n \in 1..n /\ Last(fr) = fr[n] /\ fr[n].begun
    BY <1>1, TopFacts DEF Active
  <1>3. Active(fr, n - 1)
    <2>1. \A i \in 1..(n - 1) : i \in 1..n
      BY <1>2
    <2> QED
      BY <1>1, <2>1 DEF Active
  <1>4. /\ IsSeq(fr) /\ IsSeq(gr) /\ Len(gr) = n - 1 /\ Stacked(gr) /\ Alike(fr, gr, n - 1)
        /\ Active(gr, n - 1) /\ n - 1 \in Nat /\ n - 1 <= n
    BY <1>1, <1>3, FrontStack
  <1> HIDE DEF gr
  <1>5. UpTo(n - 1, TaggedIx(gr)) = UpTo(n - 1, TaggedIx(fr)) /\ UpTo(n - 1, TaggedIx(fr)) \in Nat
    <2>1. n - 1 <= Len(gr) /\ n - 1 \in 0..(n - 1)
      BY <1>4
    <2> QED
      BY <1>4, <2>1, IxAlike, UpToNat
  <1>6. n \in TaggedIx(fr) <=> Kind(fr[n]) = "tagged"
    BY <1>2 DEF TaggedIx
  <1>7. IsSeq(tg) /\ Len(tg) = UpTo(n, TaggedIx(fr)) /\ \A j \in 1..Len(tg) : IsTag(tg[j])
    BY <1>1 DEF TagsFit
  <1>8. TagsFit(gr, th)
    <2>1. CASE Kind(fr[n]) # "tagged"
      <3>1. UpTo(n, TaggedIx(fr)) = UpTo(n - 1, TaggedIx(fr))
        BY <1>1, <1>6, <2>1, TopFacts
      <3> QED
        BY <1>2, <1>4, <1>5, <1>7, <2>1, <3>1 DEF TagsFit
    <2>2. CASE Kind(fr[n]) = "tagged"
      <3>1. UpTo(n, TaggedIx(fr)) = UpTo(n - 1, TaggedIx(fr)) + 1
        BY <1>1, <1>6, <2>2, TopFacts
      <3>2. tg # <<>> /\ Len(tg) - 1 = UpTo(n - 1, TaggedIx(fr)) /\ Len(tg) \in Nat
        BY <1>5, <1>7, <3>1, SeqFacts
      <3>3. IsSeq(Front(tg)) /\ Len(Front(tg)) = Len(tg) - 1
            /\ \A k \in 1..(Len(tg) - 1) : Front(tg)[k] = tg[k]
        BY <1>7, <3>2, SeqFront DEF Front
      <3>4. \A k \in 1..(Len(tg) - 1) : k \in 1..Len(tg)
        BY <3>2
      <3>5. TagsFit(gr, Front(tg))
        BY <1>4, <1>5, <1>7, <3>2, <3>3, <3>4 DEF TagsFit
      <3> QED
        BY <1>2, <2>2, <3>5
    <2> QED
      BY <2>1, <2>2
  <1> HIDE DEF th
  <1> QED
    BY <1>4, <1>8 DEF Failed, gr, th

\* The parts of an object are named as some of its fields, in order.
LEMMA FieldLabels ==
  ASSUME NEW f, f.shape \in DOMAIN Shape, Kind(f) = "object"
  PROVE  \E written :
           /\ Increasing(written, DOMAIN Shape[f.shape].fields, Len(Shape[f.shape].fields))
           /\ Len(Parts(f)) = Len(written)
           /\ \A k \in 1..Len(written) :
                Parts(f)[k].label.part = SpelledName(Shape[f.shape].fields, input.strategy, written[k])
  <1> DEFINE fields == Shape[f.shape].fields
             S == {i \in DOMAIN fields : ~(fields[i].optional /\ f.value[i] = <<>>)}
             written == InOrder(S, Len(fields))
             P(k) == Part("object", SpelledName(fields, input.strategy, written[k]),
                          fields[written[k]].of, f.value[written[k]][1])
             n == Len(written)
             parts == [k \in 1..n |-> P(k)]
  <1>1. Len(fields) \in Nat /\ S \subseteq DOMAIN fields
    BY ShapeAssumption DEF Kind, Listed
  <1>2. Increasing(written, S, Len(fields))
    BY <1>1, InOrderIncreases, ZenonT(60)
  <1>3. IsSeq(written) /\ n \in Nat /\ DOMAIN written = 1..n
    BY <1>2, SeqFacts, ZenonT(60) DEF Increasing
  <1>4. Parts(f) = parts
    BY <1>3, Zenon DEF Parts, FieldParts
  <1> HIDE DEF written
  <1>5. Increasing(written, DOMAIN fields, Len(fields))
    <2> HIDE DEF S, fields
    <2> QED
      BY <1>1, <1>2 DEF Increasing
  <1>6. DOMAIN parts = 1..n /\ parts = [k \in 1..n |-> parts[k]] /\ \A k \in 1..n : parts[k] = P(k)
    OBVIOUS
  <1>7. \A k \in 1..n : P(k).label.part = SpelledName(fields, input.strategy, written[k])
    BY DEF Part
  <1> HIDE DEF parts, P, n
  <1>8. Len(parts) = n
    BY <1>3, <1>6, SeqMake
  <1> HIDE DEF fields
  <1> QED
    BY <1>4, <1>5, <1>6, <1>7, <1>8 DEF n, fields

\* No two parts of a record have one name: a map has a key once, and an object
\* whose fields a strategy spells alike is refused.
LEMMA LabelsDiffer ==
  ASSUME NEW f, IsFrame(f), f.begun, Kind(f) \in Containers, Kind(f) # "list",
         NEW j \in 1..Len(Parts(f)), NEW k \in 1..Len(Parts(f)), j < k
  PROVE  Parts(f)[j].label.part # Parts(f)[k].label.part
  <1>1. f.shape \in DOMAIN Shape /\ f.value \in Values[f.shape] /\ ~Refuses(f)
    BY FrameFacts
  <1>2. CASE Kind(f) = "object"
    <2> DEFINE fields == Shape[f.shape].fields
    <2>1. PICK w : /\ Increasing(w, DOMAIN fields, Len(fields))
                   /\ Len(Parts(f)) = Len(w)
                   /\ \A i \in 1..Len(w) :
                        Parts(f)[i].label.part = SpelledName(fields, input.strategy, w[i])
      BY <1>1, <1>2, FieldLabels
    <2>2. ~SpellingFault(fields, input.strategy)
      BY <1>1, <1>2 DEF Refuses
    <2>3. w[j] \in DOMAIN fields /\ w[k] \in DOMAIN fields /\ w[j] < w[k]
      BY <2>1 DEF Increasing
    <2> HIDE DEF fields
    <2> QED
      BY <2>1, <2>2, <2>3 DEF SpellingFault
  <1>3. CASE Kind(f) = "union"
    <2>1. Parts(f) = <<VariantPart(f)>>
      BY <1>3 DEF Parts
    <2>2. Len(Parts(f)) = 1
      BY <2>1, SeqOne
    <2> QED
      BY <2>2
  <1>4. CASE Kind(f) = "map"
    <2> DEFINE S == {i \in DOMAIN Keys : Keys[i] \in DOMAIN f.value}
               held == InOrder(S, Len(Keys))
               n == Len(held)
               P(i) == Part("map", Keys[held[i]], Shape[f.shape].of, f.value[Keys[held[i]]])
               parts == [i \in 1..n |-> P(i)]
    <2>1. Len(Keys) \in Nat /\ \A a, b \in DOMAIN Keys : Keys[a] = Keys[b] => a = b
      BY NameAssumption
    <2>2. Increasing(held, S, Len(Keys))
      BY <2>1, InOrderIncreases
    <2>3. IsSeq(held) /\ n \in Nat /\ DOMAIN held = 1..n
      BY <2>2, SeqFacts DEF Increasing
    <2>4. Parts(f) = parts
      BY <1>4, <2>3 DEF Parts, EntryParts
    <2> HIDE DEF held
    <2>5. DOMAIN parts = 1..n /\ parts = [i \in 1..n |-> parts[i]] /\ \A i \in 1..n : parts[i] = P(i)
      OBVIOUS
    <2>6. \A i \in 1..n : P(i).label.part = Keys[held[i]]
      BY DEF Part
    <2> HIDE DEF parts, P
    <2>7. Len(parts) = n
      BY <2>3, <2>5, SeqMake
    <2>8. j \in 1..n /\ k \in 1..n
      BY <2>4, <2>7
    <2>9. held[j] \in S /\ held[k] \in S /\ held[j] < held[k] /\ held[j] \in 1..Len(Keys)
      BY <2>2, <2>8 DEF Increasing
    <2>10. held[j] \in DOMAIN Keys /\ held[k] \in DOMAIN Keys /\ held[j] # held[k]
      BY <2>1, <2>9
    <2>11. Keys[held[j]] # Keys[held[k]]
      BY <2>1, <2>10
    <2> QED
      BY <2>4, <2>5, <2>6, <2>8, <2>11
  <1> QED
    BY <1>2, <1>3, <1>4 DEF Containers

\* Under the literal strategy a variant has no part named as its tag.
LEMMA TagDiffers ==
  ASSUME NEW f, f.shape \in DOMAIN Shape, Kind(f) = "object", input.strategy = Literal,
         NEW tag \in DOMAIN Spell[Literal], IsVariant(f.shape, tag),
         NEW k \in 1..Len(Parts(f))
  PROVE  Parts(f)[k].label.part # Spell[Literal][tag]
  <1> DEFINE fields == Shape[f.shape].fields
  <1>1. PICK w : /\ Increasing(w, DOMAIN fields, Len(fields))
                 /\ Len(Parts(f)) = Len(w)
                 /\ \A i \in 1..Len(w) :
                      Parts(f)[i].label.part = SpelledName(fields, input.strategy, w[i])
    BY FieldLabels
  <1>2. w[k] \in DOMAIN fields
    BY <1>1 DEF Increasing
  <1>3. FieldsOf(f.shape) = fields
    BY DEF FieldsOf, Kind
  <1>4. fields[w[k]].name # tag
    BY <1>2, <1>3 DEF IsVariant
  <1>5. fields[w[k]].name \in DOMAIN Spell[Literal]
    BY <1>2, NameAssumption DEF Kind
  <1>6. SpelledName(fields, Literal, w[k]) = fields[w[k]].name /\ Spell[Literal][tag] = tag
    BY <1>5, NameAssumption DEF SpelledName
  <1> HIDE DEF fields
  <1> QED
    BY <1>1, <1>4, <1>6

\* So under the literal strategy the next name is new to the object it is for.
LEMMA FreshName ==
  ASSUME NEW fr, NEW tg, NEW sk, Goes(fr, tg, sk), fr # <<>>, NEW n, n = Len(fr), n \in OpenIx(fr),
         Kind(fr[n]) # "list", input.strategy = Literal, NEW k, k = fr[n].at + 1, k <= Len(Parts(fr[n]))
  PROVE  ~Contains(Given(fr, n), Parts(fr[n])[k].label.part)
  <1> DEFINE f == fr[n]
             e == Parts(f)[k].label.part
             tagged == TagAt(fr, n)
             labels == Labels(f, f.at)
             p == Len(tagged)
             q == f.at
  <1>1. /\ n \in Nat /\ n # 0 /\ IsFrame(f) /\ f.begun /\ Kind(f) \in Containers /\ Stacked(fr) /\ Variants(fr)
    BY TopFacts DEF Goes
  <1>2. q \in Nat /\ f.shape \in DOMAIN Shape /\ f.value \in Values[f.shape] /\ ~Refuses(f)
    BY <1>1, FrameFacts
  <1>3. IsSeq(labels) /\ Len(labels) = q /\ IsSeq(tagged) /\ p \in Nat
    BY <1>2, GivenIsSeq, SeqFacts
  <1>4. Len(Parts(f)) \in Nat
    BY <1>1, <1>2, PartsSound
  <1>5. \A i \in 1..q : labels[i] = Parts(f)[i].label.part
    BY DEF Labels
  <1>6. \A i \in 1..q : labels[i] # e
    <2> TAKE i \in 1..q
    <2>1. i \in 1..Len(Parts(f)) /\ k \in 1..Len(Parts(f)) /\ i < k
      BY <1>2, <1>4
    <2> HIDE DEF f, labels
    <2> QED
      BY <1>1, <1>5, <2>1, LabelsDiffer DEF f
  <1>7. \A i \in 1..p : tagged[i] # e
    <2> SUFFICES ASSUME NEW i \in 1..p PROVE tagged[i] # e
      OBVIOUS
    <2>1. CASE ~(n > 1 /\ Kind(fr[n - 1]) = "tagged")
      <3>1. tagged = <<>>
        BY <2>1 DEF TagAt
      <3> QED
        BY <3>1
    <2>2. CASE n > 1 /\ Kind(fr[n - 1]) = "tagged"
      <3> DEFINE tag == Shape[fr[n - 1].shape].tag
      <3>1. n - 1 \in 1..(n - 1) /\ (n - 1) + 1 = n /\ n - 1 \in 1..n
        BY <1>1, <2>2
      <3>2. IsVariant(f.shape, tag)
        BY <1>1, <2>2, <3>1 DEF Variants
      <3>3. Kind(f) = "object"
        BY <1>1, <3>2 DEF IsVariant, IsObject, Containers, Kind
      <3>4. fr[n - 1].shape \in DOMAIN Shape
        BY <1>1, <3>1, FrameFacts DEF Stacked
      <3>5. tag \in DOMAIN Spell[Literal]
        BY <2>2, <3>4, NameAssumption DEF Kind
      <3>6. tagged = <<Spell[Literal][tag]>>
        BY <2>2 DEF TagAt
      <3>7. p = 1 /\ tagged[1] = Spell[Literal][tag]
        BY <3>6, SeqOne
      <3>8. k \in 1..Len(Parts(f))
        BY <1>2, <1>4
      <3>9. e # Spell[Literal][tag]
        BY <1>2, <3>2, <3>3, <3>5, <3>8, TagDiffers
      <3>10. i = 1
        BY <3>7
      <3> QED
        BY <3>7, <3>9, <3>10
    <2> QED
      BY <2>1, <2>2
  <1>8. Given(fr, n) = tagged \o labels
    BY DEF Given
  <1> HIDE DEF tagged, labels, q, e, f
  <1> DEFINE c == tagged \o labels
  <1>9. Len(c) = p + q /\ \A i \in 1..(p + q) : c[i] = IF i <= p THEN tagged[i] ELSE labels[i - p]
    BY <1>3, SeqConcat
  <1> HIDE DEF c, p
  <1>10. ASSUME NEW i \in 1..Len(c) PROVE c[i] # e
    <2>1. i \in 1..(p + q)
      BY <1>9
    <2>2. CASE i <= p
      <3>1. i \in 1..p
        BY <1>3, <2>1, <2>2
      <3> QED
        BY <1>7, <1>9, <2>1, <2>2, <3>1
    <2>3. CASE ~(i <= p)
      <3>1. i - p \in 1..q
        BY <1>2, <1>3, <2>1, <2>3 DEF q
      <3> QED
        BY <1>6, <1>9, <2>1, <2>3, <3>1
    <2> QED
      BY <2>2, <2>3
  <1> QED
    BY <1>8, <1>10 DEF Contains, c, e, f

\* What fits an encoding fits it as long as it is the same encoding.
LEMMA SameEncoding ==
  ASSUME input' = input
  PROVE  /\ \A fr, tg, sk : Goes(fr, tg, sk)' <=> Goes(fr, tg, sk)
         /\ \A fr, tg, sk : Failed(fr, tg, sk)' <=> Failed(fr, tg, sk)
  <1>1. \A f : Parts(f)' = Parts(f) /\ (Refuses(f)' <=> Refuses(f))
    BY PartsStay
  <1>2. \A f : IsFrame(f)' <=> IsFrame(f)
    BY <1>1 DEF IsFrame
  <1>3. \A fr : Stacked(fr)' <=> Stacked(fr)
    BY <1>2 DEF Stacked
  <1>4. \A fr, n : Given(fr, n)' = Given(fr, n)
    BY <1>1, Zenon DEF Given, TagAt, Labels
  <1>5. \A fr, sk : DocFits(fr, sk)' <=> DocFits(fr, sk)
    <2>1. \A fr, i : PartsDone(fr, i)' = PartsDone(fr, i) /\ (Awaits(fr, i)' <=> Awaits(fr, i))
      BY DEF PartsDone, Awaits
    <2>2. ASSUME NEW fr, NEW sk, NEW i
          PROVE  RecordFits(fr, sk, i)' <=> RecordFits(fr, sk, i)
      <3>1. /\ Given(fr, i)' = Given(fr, i) /\ PartsDone(fr, i)' = PartsDone(fr, i)
            /\ Awaits(fr, i)' <=> Awaits(fr, i)
        BY <1>4, <2>1
      <3> QED
        BY <3>1 DEF RecordFits
    <2> QED
      BY <2>2 DEF DocFits
  <1>6. \A fr, tg : Depths(fr, tg)' <=> Depths(fr, tg)
    BY DEF Depths, Chosen
  <1>7. /\ \A fr, n : Active(fr, n)' <=> Active(fr, n)
        /\ \A fr : Variants(fr)' <=> Variants(fr)
        /\ \A fr, tg : TagsFit(fr, tg)' <=> TagsFit(fr, tg)
        /\ \A fr, sk : RootFits(fr, sk)' <=> RootFits(fr, sk)
    BY DEF Active, Variants, TagsFit, RootFits
  <1> QED
    BY <1>3, <1>5, <1>6, <1>7 DEF Goes, Failed

\* A step after which the encode goes on preserves the invariant.
LEMMA IInvGoes ==
  ASSUME IInv, input' = input, failure' = <<>>, Goes(frames', tags', sink')
  PROVE  IInv'
  BY SameEncoding DEF IInv, Goes

\* So does one after which it has failed.
LEMMA IInvFails ==
  ASSUME IInv, input' = input, Len(failure') = 1, Failed(frames', tags', sink'),
         sink'.err = "duplicate" => input.strategy # Literal
  PROVE  IInv'
  <1>1. failure' # <<>>
    BY SeqEmpty
  <1> QED
    BY <1>1, SameEncoding DEF IInv

\* While the encode runs, there is a record on top and the sink takes calls.
LEMMA TopRuns ==
  ASSUME IInv, Running
  PROVE  /\ Goes(frames, tags, sink) /\ frames # <<>> /\ failure = <<>>
         /\ Len(frames) \in Nat /\ Len(frames) # 0 /\ Len(frames) \in 1..Len(frames)
         /\ Top = frames[Len(frames)] /\ Top = Last(frames) /\ IsFrame(Top)
         /\ Stacked(frames) /\ IsSeq(frames) /\ IsSink(sink) /\ sink.err = "none"
         /\ Top.shape \in DOMAIN Shape /\ Top.value \in Values[Top.shape]
         /\ Kind(Top) \notin Containers \cup {"tagged"} => ~Top.begun
         /\ Kind(Top) # "tagged" \/ ~Top.begun => Len(frames) \notin TaggedIx(frames)
         /\ Top.begun /\ Kind(Top) \in Containers => Len(frames) \in OpenIx(frames)
         /\ Top.begun /\ Kind(Top) = "tagged" => Len(frames) \in TaggedIx(frames)
  <1>1. Goes(frames, tags, sink) /\ frames # <<>> /\ failure = <<>>
    BY DEF IInv, Running
  <1>2. /\ Len(frames) \in Nat /\ Len(frames) # 0 /\ Len(frames) \in 1..Len(frames)
        /\ Top = frames[Len(frames)] /\ Top = Last(frames) /\ IsFrame(Top)
        /\ Stacked(frames) /\ IsSeq(frames)
    BY <1>1, TopFacts DEF Goes, Top
  <1>3. /\ Top.shape \in DOMAIN Shape /\ Top.value \in Values[Top.shape]
        /\ Kind(Top) \notin Containers \cup {"tagged"} => ~Top.begun
    BY <1>2, FrameFacts
  <1>4. /\ Kind(Top) # "tagged" \/ ~Top.begun => Len(frames) \notin TaggedIx(frames)
        /\ Top.begun /\ Kind(Top) \in Containers => Len(frames) \in OpenIx(frames)
        /\ Top.begun /\ Kind(Top) = "tagged" => Len(frames) \in TaggedIx(frames)
    BY <1>2 DEF OpenIx, TaggedIx
  <1>5. IsSink(sink) /\ sink.err = "none"
    BY <1>1 DEF Goes
  <1> QED
    BY <1>1, <1>2, <1>3, <1>4, <1>5

\* A step that fails, whatever it has done to the sink.
LEMMA FailStep ==
  ASSUME IInv, Running, Len(frames) \notin TaggedIx(frames), Fail, input' = input, tags' = tags,
         IsSink(sink'), sink'.kind = sink.kind, sink'.err \in {"none", "duplicate"},
         sink'.err = "duplicate" => input.strategy # Literal
  PROVE  IInv'
  <1>1. frames' = Front(frames) /\ Len(failure') = 1
    BY SeqOne DEF Fail
  <1>2. Failed(frames', tags', sink')
    BY <1>1, TopRuns, Fails
  <1> QED
    BY <1>1, <1>2, IInvFails

\* Such a step where the tagSinks have counted an object more, or less.
LEMMA FailStepCounting ==
  ASSUME IInv, Running, Len(frames) \notin TaggedIx(frames), Fail, input' = input,
         TagsFit(Front(frames), tags'),
         IsSink(sink'), sink'.kind = sink.kind, sink'.err = "none"
  PROVE  IInv'
  <1>1. frames' = Front(frames) /\ Len(failure') = 1
    BY SeqOne DEF Fail
  <1>2. Failed(Front(frames), tags, sink')
    BY TopRuns, Fails
  <1>3. Failed(frames', tags', sink')
    BY <1>1, <1>2 DEF Failed
  <1> QED
    BY <1>1, <1>3, IInvFails

\* A value its schema refuses.
LEMMA RefuseStep ==
  ASSUME IInv, Refuse
  PROVE  IInv'
  <1>1. Running /\ ~Top.begun /\ Fail /\ input' = input /\ tags' = tags /\ sink' = sink
    BY DEF Refuse
  <1>2. IsSink(sink') /\ sink'.kind = sink.kind /\ sink'.err = "none"
    BY <1>1, TopRuns
  <1> QED
    BY <1>1, <1>2, TopRuns, FailStep

\* A leaf: one call of the sink, and the record returns.
LEMMA LeafStep ==
  ASSUME IInv, Running, ~Top.begun, NEW op \in ScalarCalls \cup {"Null"}, NEW v,
         Emit(op, v, Return), input' = input, tags' = tags
  PROVE  IInv' /\ failure' = <<>>
  <1>1. Ready(sink)
    BY TopRuns, ReadyToWrite
  <1>2. sink' = SinkCall(sink, Call(op, v))
    BY DEF Emit, After
  <1>3. Filled(sink, sink', Len(OpenIn(sink)))
    BY <1>1, <1>2, TopRuns, ValueCall
  <1>4. Return
    BY <1>3 DEF Emit, After, Filled
  <1>5. frames' = Front(frames) /\ failure' = <<>>
    BY <1>4, TopRuns DEF Return
  <1>6. Goes(frames', tags', sink')
    BY <1>3, <1>5, TopRuns, LeafReturns
  <1> QED
    BY <1>5, <1>6, IInvGoes

\* A scalar, a transform's or a constant's included.
LEMMA WriteScalarStep ==
  ASSUME IInv, WriteScalar
  PROVE  IInv' /\ failure' = <<>>
  <1>1. /\ Running /\ Kind(Top) \in Scalars
        /\ Emit(ScalarOp[Kind(Top)], Top.value, Return) /\ input' = input /\ tags' = tags
    BY DEF WriteScalar
  <1>2. ~Top.begun
    BY <1>1, TopRuns DEF Scalars, Containers
  <1>3. ScalarOp[Kind(Top)] \in ScalarCalls \cup {"Null"}
    BY <1>1 DEF Scalars, ScalarOp, ScalarCalls
  <1> QED
    BY <1>1, <1>2, <1>3, LeafStep

\* An optional without a value.
LEMMA WriteNilStep ==
  ASSUME IInv, WriteNil
  PROVE  IInv' /\ failure' = <<>>
  <1>1. Running /\ Kind(Top) = "nullable" /\ Emit("Null", "", Return) /\ input' = input /\ tags' = tags
    BY ZenonT(60) DEF WriteNil
  <1>2. ~Top.begun
    BY <1>1, TopRuns, ZenonT(60) DEF Containers
  <1> QED
    BY <1>1, <1>2, LeafStep, ZenonT(60)

\* A wrapper hands its place to what it is of.
LEMMA EnterInnerStep ==
  ASSUME IInv, EnterInner
  PROVE  IInv' /\ failure' = <<>>
  <1> DEFINE s == Shape[Top.shape].of
             v == IF Kind(Top) = "nullable" THEN Top.value[1] ELSE Top.value
             g == Frame(s, v)
  <1>1. /\ Running /\ Kind(Top) \in Wrappers
        /\ Kind(Top) = "nullable" => Top.value # <<>>
        /\ frames' = [frames EXCEPT ![Len(frames)] = g] /\ failure' = failure
        /\ input' = input /\ tags' = tags /\ sink' = sink
    BY DEF EnterInner, Become
  <1>2. s \in DOMAIN Shape
    BY <1>1, TopRuns, ShapeAssumption DEF Kind, Wrappers, Usable
  <1>3. v \in Values[s]
    BY <1>1, TopRuns, ValueAssumption DEF Kind, Wrappers
  <1>4. IsFrame(g) /\ ~g.begun /\ g.shape = s
    BY <1>2, <1>3, NewFrame
  <1> HIDE DEF g
  <1>5. Retopped(frames, frames', g)
    BY <1>1, TopRuns, Retops
  <1>6. ~Top.begun
    BY <1>1, TopRuns DEF Wrappers, Containers
  <1>7. Goes(frames', tags', sink')
    BY <1>1, <1>4, <1>5, <1>6, TopRuns, InnerEnters
  <1>8. failure' = <<>>
    BY <1>1, TopRuns
  <1> QED
    BY <1>1, <1>7, <1>8, IInvGoes

\* A tagged union returns from its variant.
LEMMA LeaveVariantStep ==
  ASSUME IInv, LeaveVariant
  PROVE  IInv' /\ failure' = <<>>
  <1>1. /\ Running /\ Kind(Top) = "tagged" /\ Top.begun
        /\ frames' = Front(frames) /\ failure' = failure /\ tags' = Front(tags)
        /\ input' = input /\ sink' = sink
    BY DEF LeaveVariant, Return
  <1>2. Goes(frames', tags', sink')
    BY <1>1, TopRuns, VariantLeaves
  <1>3. failure' = <<>>
    BY <1>1, TopRuns
  <1> QED
    BY <1>1, <1>2, <1>3, IInvGoes

\* An error returns through a caller.
LEMMA UnwindStep ==
  ASSUME IInv, Unwind
  PROVE  IInv'
  <1>1. /\ frames # <<>> /\ failure # <<>> /\ Len(failure') = 1
        /\ frames' = Front(frames) /\ tags' = IF Kind(Last(frames)) = "tagged" THEN Front(tags) ELSE tags
        /\ input' = input /\ sink' = sink
    BY SeqOne DEF Unwind, Top
  <1>2. Failed(frames, tags, sink)
    BY <1>1 DEF IInv
  <1>3. Failed(frames', tags', sink')
    BY <1>1, <1>2, Unwinds
  <1>4. sink'.err = "duplicate" => input.strategy # Literal
    BY <1>1 DEF IInv
  <1> QED
    BY <1>1, <1>3, <1>4, IInvFails

\* A tagged union's record is writing its one part, the variant.
LEMMA FrameTagged ==
  ASSUME NEW a, IsFrame(a), ~a.begun, Kind(a) = "tagged", ~Refuses(a),
         NEW b, b = [a EXCEPT !.begun = TRUE, !.at = 1]
  PROVE  IsFrame(b) /\ b.shape = a.shape /\ b.value = a.value /\ b.begun /\ b.at = 1
  <1>1. /\ a = [shape |-> a.shape, value |-> a.value, begun |-> a.begun, at |-> a.at] /\ a.at = 0
        /\ a.shape \in DOMAIN Shape /\ a.value \in Values[a.shape]
    BY FrameFacts
  <1>2. b = [shape |-> a.shape, value |-> a.value, begun |-> TRUE, at |-> 1]
    BY <1>1
  <1>3. b.shape = a.shape /\ b.value = a.value /\ b.begun = TRUE /\ b.at = 1
    BY <1>2
  <1>4. b.shape \in DOMAIN Shape /\ b.value \in Values[b.shape] /\ b.at \in Nat
    BY <1>1, <1>3
  <1>5. b.begun \in BOOLEAN
    BY <1>3
  <1>6. b = [shape |-> b.shape, value |-> b.value, begun |-> b.begun, at |-> b.at]
    BY <1>2, <1>3
  <1>7. b \in [shape : DOMAIN Shape, value : Values[b.shape], begun : BOOLEAN, at : Nat]
    BY <1>4, <1>5, <1>6
  <1>8. Kind(b) = Kind(a) /\ Refuses(b) = Refuses(a) /\ Parts(b) = Parts(a)
    BY <1>3, PartsAlike
  <1>9. Len(Parts(b)) = 1
    BY <1>1, <1>8, PartsSound
  <1>10. b.at <= Len(Parts(b)) /\ Kind(b) \in Containers \cup {"tagged"} /\ ~Refuses(b)
    BY <1>3, <1>8, <1>9
  <1> QED
    BY <1>3, <1>7, <1>10 DEF IsFrame

\* A container's record is writing one part more.
LEMMA FrameWrites ==
  ASSUME NEW a, IsFrame(a), a.begun, Kind(a) \in Containers, a.at < Len(Parts(a)),
         NEW b, b = [a EXCEPT !.at = @ + 1]
  PROVE  IsFrame(b) /\ b.shape = a.shape /\ b.value = a.value /\ b.begun /\ b.at = a.at + 1
  <1>1. /\ a = [shape |-> a.shape, value |-> a.value, begun |-> a.begun, at |-> a.at] /\ a.at \in Nat
        /\ a.shape \in DOMAIN Shape /\ a.value \in Values[a.shape] /\ a.begun \in BOOLEAN
        /\ ~Refuses(a)
    BY FrameFacts
  <1>2. b = [shape |-> a.shape, value |-> a.value, begun |-> a.begun, at |-> a.at + 1]
    BY <1>1
  <1>3. b.shape = a.shape /\ b.value = a.value /\ b.begun = a.begun /\ b.at = a.at + 1
    BY <1>2
  <1>4. b.shape \in DOMAIN Shape /\ b.value \in Values[b.shape] /\ b.at \in Nat
    BY <1>1, <1>3
  <1>5. b.begun \in BOOLEAN /\ b.begun
    BY <1>1, <1>3
  <1>6. b = [shape |-> b.shape, value |-> b.value, begun |-> b.begun, at |-> b.at]
    BY <1>2, <1>3
  <1>7. b \in [shape : DOMAIN Shape, value : Values[b.shape], begun : BOOLEAN, at : Nat]
    BY <1>4, <1>5, <1>6
  <1>8. Kind(b) = Kind(a) /\ Refuses(b) = Refuses(a) /\ Parts(b) = Parts(a)
    BY <1>3, PartsAlike
  <1>9. Len(Parts(a)) \in Nat
    BY <1>1, PartsSound
  <1>10. b.at <= Len(Parts(b)) /\ Kind(b) \in Containers \cup {"tagged"} /\ ~Refuses(b)
         /\ Kind(b) # "tagged"
    BY <1>1, <1>3, <1>8, <1>9 DEF Containers
  <1> QED
    BY <1>3, <1>5, <1>7, <1>10 DEF IsFrame

\* A tagged union encodes its variant into a tagSink.
LEMMA EnterVariantStep ==
  ASSUME IInv, EnterVariant
  PROVE  IInv' /\ failure' = <<>>
  <1> DEFINE n == Len(frames)
             b == [Top EXCEPT !.begun = TRUE, !.at = 1]
             part == VariantPart(Top)
             g == Frame(part.of, part.value)
             variants == Shape[Top.shape].variants
             tag == [name |-> Spell[input.strategy][Shape[Top.shape].tag],
                     value |-> part.label.part, depth |-> 0]
             hr == [frames EXCEPT ![n] = b]
  <1>1. /\ Running /\ Kind(Top) = "tagged" /\ ~Top.begun /\ ~Refuses(Top)
        /\ input' = input /\ sink' = sink /\ failure' = failure
        /\ tags' = Append(tags, tag)
    BY DEF EnterVariant
  <1>2. frames' = Append(hr, g)
    <2>1. Top = frames[n]
      BY <1>1, TopRuns
    <2>2. hr = [frames EXCEPT ![n].begun = TRUE, ![n].at = 1]
      <3>1. n \in DOMAIN frames
        BY <1>1, TopRuns, SeqFacts
      <3> QED
        BY <2>1, <3>1
    <2> QED
      BY <2>2 DEF EnterVariant
  <1>3. IsFrame(b) /\ b.shape = Top.shape /\ b.value = Top.value /\ b.begun /\ b.at = 1
    BY <1>1, TopRuns, FrameTagged, ZenonT(60)
  <1>4. /\ IsPart(part) /\ Top.value[1] \in DOMAIN variants
        /\ part.of = variants[Top.value[1]].of
    <2>1. Top.value[1] # 0
      BY <1>1, ZenonT(60) DEF Refuses
    <2> QED
      BY <1>1, <2>1, TopRuns, VariantPartSound
  <1>5. IsFrame(g) /\ ~g.begun /\ g.shape = part.of
    BY <1>4, NewFrame DEF IsPart
  <1>6. IsVariant(part.of, Shape[Top.shape].tag)
    <2>1. TaggedSound(variants, Shape[Top.shape].tag)
      BY <1>1, TopRuns, ShapeAssumption DEF Kind
    <2> HIDE DEF variants
    <2> QED
      BY <1>4, <2>1 DEF TaggedSound, IsVariant
  <1>7. /\ IsTag(tag) /\ tag.depth = 0 /\ tag.name = Spell[input.strategy][Shape[Top.shape].tag]
        /\ tag.value = Chosen(Top)
    BY DEF IsTag, VariantPart, Part, Chosen
  <1> HIDE DEF b, g, part, tag, hr
  <1>8. Retopped(frames, hr, b)
    BY <1>1, TopRuns, Retops DEF hr
  <1>9. Pushed(frames, frames', b, g)
    BY <1>1, <1>2, <1>8, TopRuns, Pushes, SMTT(60)
  <1>10. Goes(frames', Append(tags, tag), sink)
    <2>1. Goes(frames, tags, sink) /\ frames # <<>> /\ frames[n] = Top
      BY <1>1, TopRuns
    <2>2. ~frames[n].begun /\ Kind(frames[n]) = "tagged" /\ b.shape = frames[n].shape /\ b.value = frames[n].value
          /\ IsVariant(g.shape, Shape[frames[n].shape].tag)
          /\ tag.name = Spell[input.strategy][Shape[frames[n].shape].tag]
          /\ tag.value = Chosen(frames[n])
      BY <1>1, <1>3, <1>5, <1>6, <1>7, <2>1
    <2> QED
      BY <1>3, <1>5, <1>7, <1>9, <2>1, <2>2, VariantEnters
  <1>11. failure' = <<>>
    BY <1>1, TopRuns
  <1> QED
    BY <1>1, <1>10, <1>11, IInvGoes

\* A container ends.
LEMMA EndContainerStep ==
  ASSUME IInv, EndContainer
  PROVE  IInv' /\ failure' = <<>>
  <1> DEFINE n == Len(frames)
             is == IF Kind(Top) = "list" THEN "List" ELSE "Object"
             op == IF Kind(Top) = "list" THEN "EndList" ELSE "EndObject"
  <1>1. /\ Running /\ Kind(Top) \in Containers /\ Top.begun /\ input' = input
        /\ Emit(op, "", Return)
        /\ IF Kind(Top) = "list" THEN tags' = tags ELSE tags' = Deeper(tags, -1)
    BY ZenonT(60) DEF EndContainer, Deepen, Deeper
  <1>2. Goes(frames, tags, sink) /\ frames # <<>> /\ n \in OpenIx(frames) /\ Top = frames[n]
        /\ IsSink(sink) /\ sink.err = "none"
    BY <1>1, TopRuns, ZenonT(60)
  <1>3. /\ OpenIn(sink) # <<>>
        /\ Last(OpenIn(sink)).is = is
        /\ is = "Object" => AtName(sink)
    BY <1>2, TopOpen
  <1>4. is \in Both /\ op = IF is = "Object" THEN "EndObject" ELSE "EndList"
    BY DEF Both
  <1>5. sink' = SinkCall(sink, Call(op, ""))
    BY <1>1, ZenonT(60) DEF Emit, After
  <1>6. Filled(sink, sink', Len(OpenIn(sink)) - 1)
    <2> HIDE DEF is, op
    <2> QED
      BY <1>2, <1>3, <1>4, <1>5, EndCall, ZenonT(60)
  <1>7. Return
    BY <1>1, <1>6, ZenonT(60) DEF Emit, After, Filled
  <1>8. frames' = Front(frames) /\ failure' = <<>>
    BY <1>1, <1>7, TopRuns, ZenonT(60) DEF Return
  <1>9. Goes(frames', tags', sink')
    BY <1>1, <1>2, <1>6, <1>8, ContainerReturns, ZenonT(60)
  <1> QED
    BY <1>1, <1>8, <1>9, IInvGoes, ZenonT(60)

\* The tagSinks that have left an object fit the records below its own.
LEMMA ObjectLeft ==
  ASSUME IInv, Running, EndsObject(Top)
  PROVE  TagsFit(Front(frames), Deeper(tags, -1))
  <1> DEFINE n == Len(frames)
             t == SinkCall(sink, Call("EndObject", ""))
             th == Deeper(tags, -1)
  <1>1. Kind(Top) \in Containers /\ Kind(Top) # "list" /\ Top.begun
    BY DEF EndsObject
  <1>2. Goes(frames, tags, sink) /\ frames # <<>> /\ n \in OpenIx(frames) /\ Top = frames[n]
        /\ IsSink(sink) /\ sink.err = "none"
    BY <1>1, TopRuns, ZenonT(60)
  <1>3. OpenIn(sink) # <<>> /\ Last(OpenIn(sink)).is = "Object" /\ AtName(sink)
    BY <1>1, <1>2, TopOpen
  <1>4. "Object" \in Both
    BY DEF Both
  <1>5. Filled(sink, t, Len(OpenIn(sink)) - 1)
    BY <1>2, <1>3, <1>4, EndCall, ZenonT(60)
  <1>6. Kind(frames[n]) # "list"
    BY <1>1, <1>2
  <1> HIDE DEF t, th
  <1>7. Goes(Front(frames), th, t)
    BY <1>2, <1>5, <1>6, ContainerReturns, ZenonT(60) DEF th
  <1> QED
    BY <1>7 DEF Goes, th

\* A writer that has stopped taking bytes.
LEMMA WriterFailsStep ==
  ASSUME IInv, WriterFails
  PROVE  IInv'
  <1>1. /\ Running /\ Writing(Top) /\ Fail /\ input' = input /\ sink' = sink
        /\ IF EndsObject(Top) THEN tags' = Deeper(tags, -1) ELSE tags' = tags
    BY DEF WriterFails, Deepen, Deeper
  <1>2. IsSink(sink') /\ sink'.kind = sink.kind /\ sink'.err = "none"
    BY <1>1, TopRuns
  <1>3. Len(frames) \notin TaggedIx(frames)
    <2>1. Kind(Top) # "tagged"
      BY <1>1 DEF Writing, Scalars, Containers
    <2> QED
      BY <1>1, <2>1, TopRuns
  <1>4. CASE EndsObject(Top)
    BY <1>1, <1>2, <1>3, <1>4, ObjectLeft, FailStepCounting
  <1>5. CASE ~EndsObject(Top)
    BY <1>1, <1>2, <1>3, <1>5, FailStep
  <1> QED
    BY <1>4, <1>5

\* A container's next part is named, if it has names, and entered.
LEMMA WritePartStep ==
  ASSUME IInv, WritePart
  PROVE  /\ IInv'
         /\ \/ failure' = <<>>
            \/ /\ Fail /\ Kind(Top) # "list" /\ sink'.kind = sink.kind
               /\ sink.kind = "json" => sink'.open = sink.open
  <1> DEFINE n == Len(frames)
             b == [Top EXCEPT !.at = @ + 1]
             part == Parts(Top)[Top.at + 1]
             g == Frame(part.of, part.value)
             hr == [frames EXCEPT ![n] = b]
             name == part.label.part
  <1>1. /\ Running /\ Kind(Top) \in Containers /\ Top.begun /\ Top.at < Len(Parts(Top))
        /\ input' = input /\ tags' = tags
        /\ IF Kind(Top) = "list" THEN Enter(part) /\ sink' = sink ELSE Emit("FieldName", name, Enter(part))
    BY DEF WritePart
  <1>2. Goes(frames, tags, sink) /\ frames # <<>> /\ n \in OpenIx(frames) /\ Top = frames[n] /\ IsFrame(Top)
        /\ IsSink(sink) /\ sink.err = "none" /\ n \in DOMAIN frames /\ IsSeq(frames)
        /\ n \notin TaggedIx(frames)
    <2>1. Kind(Top) # "tagged"
      BY <1>1 DEF Containers
    <2> QED
      BY <1>1, <2>1, TopRuns, SeqFacts
  <1>3. IsFrame(b) /\ b.shape = Top.shape /\ b.value = Top.value /\ b.begun /\ b.at = Top.at + 1
    BY <1>1, <1>2, FrameWrites
  <1>4. IsPart(part) /\ Top.at + 1 <= Len(Parts(Top))
    <2>1. Top.shape \in DOMAIN Shape /\ Top.value \in Values[Top.shape] /\ ~Refuses(Top) /\ Top.at \in Nat
      BY <1>1, <1>2, FrameFacts
    <2>2. Len(Parts(Top)) \in Nat /\ \A k \in 1..Len(Parts(Top)) : IsPart(Parts(Top)[k])
      BY <1>1, <2>1, PartsSound
    <2>3. Top.at + 1 \in 1..Len(Parts(Top))
      BY <1>1, <2>1, <2>2
    <2> QED
      BY <2>2, <2>3
  <1>5. IsFrame(g) /\ ~g.begun
    BY <1>4, NewFrame DEF IsPart
  <1>6. Enter(part) => frames' = Append(hr, g) /\ failure' = failure
    <2>1. hr = [frames EXCEPT ![n].at = @ + 1]
      BY <1>2
    <2> QED
      BY <2>1 DEF Enter
  <1>7. Retopped(frames, hr, b)
    BY <1>2, Retops
  <1> HIDE DEF hr, b, g, part
  <1>8. Enter(part) => Pushed(frames, frames', b, g) /\ failure' = <<>>
    BY <1>1, <1>2, <1>6, <1>7, Pushes, TopRuns
  <1>9. part = Parts(frames[n])[b.at] /\ b.at = frames[n].at + 1 /\ b.shape = frames[n].shape
        /\ b.value = frames[n].value
    BY <1>2, <1>3 DEF part
  <1>10. CASE Kind(Top) = "list"
    <2>1. Enter(part) /\ sink' = sink /\ Kind(frames[n]) = "list"
      BY <1>1, <1>2, <1>10
    <2>2. Goes(frames', tags, sink')
      BY <1>2, <1>3, <1>5, <1>8, <1>9, <2>1, PartEnters
    <2> QED
      BY <1>1, <1>8, <2>1, <2>2, IInvGoes
  <1>11. CASE Kind(Top) # "list"
    <2>1. sink' = SinkCall(sink, Call("FieldName", name)) /\ IF sink'.err = "none" THEN Enter(part) ELSE Fail
      BY <1>1, <1>11 DEF Emit, After
    <2>2. AtName(sink) /\ (sink.kind = "json" => Last(sink.open).names = Given(frames, n))
      BY <1>2, <1>11, TopOpen
    <2> HIDE DEF name
    <2>3. \/ Named(sink, sink', name)
          \/ /\ sink.kind = "json" /\ Contains(Last(sink.open).names, name)
             /\ sink' = [sink EXCEPT !.err = "duplicate"]
      BY <1>2, <2>1, <2>2, NameCall
    <2>4. CASE Named(sink, sink', name)
      <3>1. Enter(part)
        BY <2>1, <2>4 DEF Named
      <3>2. Named(sink, sink', Parts(frames[n])[b.at].label.part) /\ Kind(frames[n]) # "list"
        BY <1>2, <1>9, <1>11, <2>4 DEF name
      <3>3. Goes(frames', tags, sink')
        BY <1>2, <1>3, <1>5, <1>8, <1>9, <3>1, <3>2, PartEnters
      <3> QED
        BY <1>1, <1>8, <3>1, <3>3, IInvGoes
    <2>5. CASE /\ sink.kind = "json" /\ Contains(Last(sink.open).names, name)
               /\ sink' = [sink EXCEPT !.err = "duplicate"]
      <3>1. IsSink(sink') /\ sink'.kind = sink.kind /\ sink'.err = "duplicate" /\ sink'.open = sink.open
        <4>1. IsJsonSink(sink)
          BY <1>2, <2>5, Openings
        <4>2. sink = [kind |-> "json", out |-> sink.out, open |-> sink.open, err |-> sink.err]
          BY <4>1 DEF IsJsonSink
        <4>3. sink' = [kind |-> "json", out |-> sink.out, open |-> sink.open, err |-> "duplicate"]
          BY <2>5, <4>2
        <4>4. /\ sink'.kind = "json" /\ sink'.out = sink.out /\ sink'.open = sink.open
              /\ sink'.err = "duplicate"
              /\ sink' \in [kind : {"json"}, out : {sink'.out}, open : {sink'.open}, err : {sink'.err}]
          BY <4>3
        <4>5. IsJsonSink(sink')
          BY <4>1, <4>4 DEF IsJsonSink
        <4> QED
          BY <2>5, <4>4, <4>5 DEF IsSink
      <3>2. Fail
        BY <2>1, <3>1
      <3>3. input.strategy # Literal
        <4>1. ~(input.strategy = Literal /\ ~Contains(Given(frames, n), name))
          BY <2>2, <2>5
        <4>2. Kind(frames[n]) # "list" /\ frames[n].at + 1 <= Len(Parts(frames[n]))
          BY <1>2, <1>4, <1>11
        <4>3. name = Parts(frames[n])[frames[n].at + 1].label.part
          BY <1>9 DEF name
        <4> QED
          BY <1>2, <4>1, <4>2, <4>3, FreshName
      <3>4. IInv'
        BY <1>1, <1>2, <3>1, <3>2, <3>3, FailStep
      <3> QED
        BY <1>11, <3>1, <3>2, <3>4
    <2> QED
      BY <2>3, <2>4, <2>5
  <1> QED
    BY <1>10, <1>11

\* Where the records i and the one over it are: the one over a tagged union's
\* is an object's, once it has begun.
LEMMA OverTagged ==
  ASSUME NEW fr, Stacked(fr), NEW n, n = Len(fr), Active(fr, n - 1), Variants(fr),
         NEW i \in 1..(n - 1), i \in TaggedIx(fr), i + 1 # n
  PROVE  i + 1 \in ObjectIx(fr) /\ i + 1 \in 1..n
  <1>1. n \in Nat
    BY SeqFacts DEF Stacked
  <1>2. i + 1 \in 1..(n - 1) /\ i + 1 \in 1..n
    BY <1>1
  <1>3. IsVariant(fr[i + 1].shape, Shape[fr[i].shape].tag)
    BY DEF Variants, TaggedIx
  <1>4. fr[i + 1].begun /\ IsFrame(fr[i + 1])
    BY <1>2 DEF Active, Stacked
  <1>5. Kind(fr[i + 1]) \in Containers \cup {"tagged"}
    BY <1>4, FrameFacts
  <1>6. Kind(fr[i + 1]) = "object"
    BY <1>3, <1>5 DEF IsVariant, IsObject, Containers, Kind
  <1> QED
    BY <1>2, <1>4, <1>6 DEF ObjectIx, OpenIx, Containers

\* Before the top record begins, a tagSink has seen no object exactly when it is
\* the innermost and the top record is its variant's own.
LEMMA LayersAt ==
  ASSUME NEW fr, NEW tg, NEW sk, Goes(fr, tg, sk), fr # <<>>, NEW n, n = Len(fr), ~fr[n].begun,
         NEW m, m = Len(tg)
  PROVE  /\ IsSeq(tg) /\ m \in Nat
         /\ \A j \in 1..(m - 1) : tg[j].depth # 0
         /\ IF n > 1 /\ Kind(fr[n - 1]) = "tagged"
            THEN /\ m # 0 /\ tg[m].depth = 0 /\ TagAt(fr, n) = <<tg[m].name>>
                 /\ tg[m].value = Chosen(fr[n - 1])
            ELSE ~(m # 0 /\ tg[m].depth = 0) /\ TagAt(fr, n) = <<>>
  <1>1. /\ Stacked(fr) /\ Active(fr, n - 1) /\ Variants(fr) /\ TagsFit(fr, tg) /\ Depths(fr, tg)
        /\ IsSeq(fr) /\ n \in Nat /\ n # 0 /\ n \in 1..n /\ n \notin TaggedIx(fr) /\ n \notin OpenIx(fr)
        /\ n - 1 \in Nat
    BY TopFacts DEF Goes
  <1>2. IsSeq(tg) /\ m \in Nat /\ m = UpTo(n, TaggedIx(fr)) /\ \A j \in 1..m : IsTag(tg[j])
    BY <1>1, SeqFacts DEF TagsFit
  <1>3. n \notin ObjectIx(fr)
    BY <1>1 DEF ObjectIx
  <1>4. /\ UpTo(n, TaggedIx(fr)) = UpTo(n - 1, TaggedIx(fr))
        /\ UpTo(n, ObjectIx(fr)) = UpTo(n - 1, ObjectIx(fr))
    BY <1>1, <1>3, TopFacts
  <1>5. ASSUME NEW i \in TaggedIx(fr), i # n - 1
        PROVE  tg[UpTo(i, TaggedIx(fr))].depth # 0
    <2>1. i \in 1..n
      BY <1>1, Positions
    <2>2. i \in 1..(n - 1) /\ i + 1 # n
      BY <1>1, <1>5, <2>1
    <2>3. i + 1 \in ObjectIx(fr) /\ i + 1 \in 1..n
      BY <1>1, <2>2, OverTagged
    <2>4. UpTo(i, ObjectIx(fr)) < UpTo(i + 1, ObjectIx(fr))
      BY <2>2, <2>3, UpToLess
    <2>5. UpTo(i + 1, ObjectIx(fr)) <= UpTo(n, ObjectIx(fr))
      BY <1>1, <2>3, UpToGrows
    <2>6. /\ UpTo(i, ObjectIx(fr)) \in Nat /\ UpTo(i + 1, ObjectIx(fr)) \in Nat
          /\ UpTo(n, ObjectIx(fr)) \in Nat
      BY <1>1, <2>2, <2>3, UpToNat
    <2>7. tg[UpTo(i, TaggedIx(fr))].depth + UpTo(i, ObjectIx(fr)) = UpTo(n, ObjectIx(fr))
      BY <1>1 DEF Depths
    <2>8. UpTo(i, TaggedIx(fr)) \in 1..m
      BY <1>1, <1>2, Positions
    <2>9. tg[UpTo(i, TaggedIx(fr))].depth \in Nat
      BY <1>2, <2>8 DEF IsTag
    <2> QED
      BY <2>4, <2>5, <2>6, <2>7, <2>9
  <1>6. ASSUME NEW j \in 1..(m - 1) PROVE tg[j].depth # 0
    <2>1. j \in 1..m
      BY <1>2
    <2>2. PICK i \in 1..n : i \in TaggedIx(fr) /\ UpTo(i, TaggedIx(fr)) = j
      BY <1>1, <1>2, <2>1, UpToOnto
    <2>3. i # n - 1
      BY <1>2, <1>4, <2>2
    <2> QED
      BY <1>5, <2>2, <2>3
  <1>7. CASE n > 1 /\ Kind(fr[n - 1]) = "tagged"
    <2>1. n - 1 \in 1..(n - 1) /\ n - 1 \in 1..n
      BY <1>1, <1>7
    <2>2. n - 1 \in TaggedIx(fr)
      BY <1>1, <1>7, <2>1 DEF Active, TaggedIx
    <2>3. UpTo(n - 1, TaggedIx(fr)) \in 1..m
      BY <1>1, <1>2, <2>2, Positions
    <2>4. m = UpTo(n - 1, TaggedIx(fr)) /\ m # 0 /\ m \in 1..m
      BY <1>2, <1>4, <2>3
    <2>5. /\ tg[m].depth + UpTo(n - 1, ObjectIx(fr)) = UpTo(n - 1, ObjectIx(fr))
          /\ tg[m].name = Spell[input.strategy][Shape[fr[n - 1].shape].tag]
          /\ tg[m].value = Chosen(fr[n - 1])
      BY <1>1, <1>4, <2>2, <2>4 DEF Depths
    <2>6. tg[m].depth \in Nat /\ UpTo(n - 1, ObjectIx(fr)) \in Nat
      BY <1>1, <1>2, <2>4, UpToNat DEF IsTag
    <2>7. tg[m].depth = 0
      BY <2>5, <2>6
    <2> QED
      BY <1>2, <1>6, <1>7, <2>4, <2>5, <2>7 DEF TagAt
  <1>8. CASE ~(n > 1 /\ Kind(fr[n - 1]) = "tagged")
    <2>1. ASSUME m # 0 PROVE tg[m].depth # 0
      <3>1. m \in 1..m
        BY <1>2, <2>1
      <3>2. PICK i \in 1..n : i \in TaggedIx(fr) /\ UpTo(i, TaggedIx(fr)) = m
        BY <1>1, <1>2, <3>1, UpToOnto
      <3>3. i # n - 1
        <4>1. SUFFICES ASSUME i = n - 1 PROVE FALSE
          OBVIOUS
        <4>2. n > 1
          BY <1>1, <4>1
        <4> QED
          BY <1>8, <3>2, <4>1, <4>2 DEF TaggedIx
      <3> QED
        BY <1>5, <3>2, <3>3
    <2>2. TagAt(fr, n) = <<>>
      BY <1>8 DEF TagAt
    <2> QED
      BY <1>2, <1>6, <1>8, <2>1, <2>2
  <1> QED
    BY <1>7, <1>8

\* A variant's own object has begun in t, and at most its tag's name is in it.
TagRefused(fr, sk, t) ==
  LET m == Len(OpenIn(sk))
  IN  /\ IsSink(t) /\ t.kind = sk.kind /\ t.err = "none" /\ Len(OpenIn(t)) = m + 1
      /\ \A k \in 1..m : OpenIn(t)[k] = OpenIn(sk)[k]
      /\ OpenIn(t)[m + 1].is = "Object"
      /\ \/ Holds(t, m + 1, <<>>, FALSE)
         \/ Holds(t, m + 1, TagAt(fr, Len(fr)), TRUE)

\* Where the writer refuses a tag: it is that of the record below the top one.
LEMMA TagFailsThere ==
  ASSUME IInv, TagFails
  PROVE  LET n == Len(frames)
         IN  /\ Running /\ Fail /\ input' = input /\ input.fails /\ ~Top.begun
             /\ n > 1 /\ Kind(frames[n - 1]) = "tagged"
             /\ n \notin TaggedIx(frames) /\ n \notin OpenIx(frames)
             /\ TagRefused(frames, sink, sink') /\ TagsFit(Front(frames), tags')
  <1> DEFINE n == Len(frames)
             m == Len(tags)
             p == Len(OpenIn(sink))
             inner == SinkCall(sink, Call("BeginObject", ""))
             begun(i) == Layered(inner, i - 1)
             named(i) == SinkCall(begun(i), Call("FieldName", tags[i].name))
             counted(i) == [j \in DOMAIN tags |->
                              IF j <= i THEN [tags[j] EXCEPT !.depth = @ + 1] ELSE tags[j]]
  <1>1. /\ Running /\ input.kind = "json" /\ input.fails /\ Kind(Top) \in Containers
        /\ ~Top.begun /\ ~Refuses(Top) /\ Fail /\ input' = input
    BY DEF TagFails
  <1>2. PICK i \in DOMAIN tags : /\ tags[i].depth = 0 /\ sink' \in {begun(i), named(i)}
                                 /\ sink'.err = "none" /\ tags' = counted(i)
    BY Zenon DEF TagFails
  <1> HIDE DEF inner, begun, named, counted
  <1>3. Goes(frames, tags, sink) /\ frames # <<>> /\ Top = frames[n] /\ n \in Nat /\ IsSink(sink)
        /\ sink.err = "none" /\ n \notin TaggedIx(frames) /\ n \notin OpenIx(frames)
    BY <1>1, TopRuns DEF OpenIx
  <1>4. /\ IsSeq(tags) /\ m \in Nat
        /\ \A j \in 1..(m - 1) : tags[j].depth # 0
        /\ IF n > 1 /\ Kind(frames[n - 1]) = "tagged"
           THEN /\ m # 0 /\ tags[m].depth = 0 /\ TagAt(frames, n) = <<tags[m].name>>
                /\ tags[m].value = Chosen(frames[n - 1])
           ELSE ~(m # 0 /\ tags[m].depth = 0) /\ TagAt(frames, n) = <<>>
    BY <1>1, <1>3, LayersAt, ZenonT(60)
  <1>5. i = m /\ m # 0
    <2>1. i \in 1..m
      BY <1>4, SeqFacts
    <2>2. i \notin 1..(m - 1)
      BY <1>2, <1>4
    <2> QED
      BY <1>4, <2>1, <2>2
  <1>6. n > 1 /\ Kind(frames[n - 1]) = "tagged" /\ TagAt(frames, n) = <<tags[m].name>>
    BY <1>2, <1>4, <1>5
  <1>7. Begun(sink, inner, "Object")
    <2>1. Ready(sink)
      BY <1>1, <1>3, TopRuns, ReadyToWrite, ZenonT(60)
    <2>2. "Object" \in Both
      BY DEF Both
    <2> QED
      BY <1>3, <2>1, <2>2, BeginCall, ZenonT(60) DEF inner
  <1>8. begun(i) = inner
    <2> DEFINE k == m - 1
    <2>1. k \in Nat /\ \A j \in 1..k : tags[j].depth # 0
      BY <1>4, <1>5
    <2>2. begun(i) = Layered(inner, k)
      BY <1>5 DEF begun
    <2> HIDE DEF k
    <2> QED
      BY <2>1, <2>2, LayeredAlone
  <1>9. /\ IsSink(inner) /\ inner.kind = sink.kind /\ inner.err = "none"
        /\ Len(OpenIn(inner)) = p + 1
        /\ \A k \in 1..p : OpenIn(inner)[k] = OpenIn(sink)[k]
        /\ OpenIn(inner)[p + 1].is = "Object" /\ Holds(inner, p + 1, <<>>, FALSE)
        /\ p \in Nat
    BY <1>3, <1>7, Openings DEF Begun
  <1>10. ASSUME sink' = begun(i)
         PROVE  TagRefused(frames, sink, sink')
    BY <1>8, <1>9, <1>10 DEF TagRefused
  <1>11. ASSUME sink' = named(i)
         PROVE  TagRefused(frames, sink, sink')
    <2> DEFINE name == tags[i].name
               t == SinkCall(inner, Call("FieldName", name))
    <2>1. sink' = t
      BY <1>8, <1>11 DEF named
    <2>2. AtName(inner)
      <3>1. OpenIn(inner) # <<>> /\ Last(OpenIn(inner)).is = "Object"
        BY <1>9, Openings DEF Last
      <3> QED
        BY <1>9, <3>1, InnermostObject
    <2>3. Named(inner, t, name)
      <3>1. t.err = "none" /\ "none" # "duplicate"
        BY <1>2, <2>1
      <3>2. inner.kind = "json" => ~Contains(Last(inner.open).names, name)
        <4>1. inner.kind = "json" => Last(inner.open).names = <<>>
          <5>1. OpenIn(inner) # <<>> /\ Last(OpenIn(inner)).is = "Object"
            BY <1>9, Openings DEF Last
          <5> QED
            BY <1>9, <5>1, InnermostObject
        <4>2. ~Contains(<<>>, name)
          BY SeqEmpty DEF Contains
        <4> QED
          BY <4>1, <4>2
      <3> QED
        BY <1>9, <2>2, <3>2, NameCall DEF t
    <2> HIDE DEF t, name
    <2>4. /\ IsSink(t) /\ t.kind = inner.kind /\ t.err = "none" /\ Len(OpenIn(t)) = p + 1
          /\ \A k \in 1..(p + 1) : k < p + 1 => OpenIn(t)[k] = OpenIn(inner)[k]
          /\ OpenIn(t)[p + 1].is = "Object"
          /\ Holds(t, p + 1, Append(<<>>, name), TRUE)
      BY <1>9, <2>3, SeqEmpty DEF Named
    <2>5. \A k \in 1..p : k \in 1..(p + 1) /\ k < p + 1
      BY <1>9
    <2>6. Append(<<>>, name) = TagAt(frames, n)
      <3>1. Append(<<>>, name) = <<name>>
        OBVIOUS
      <3> QED
        BY <1>5, <1>6, <3>1 DEF name
    <2>7. Holds(t, p + 1, TagAt(frames, n), TRUE)
      BY <2>4, <2>6
    <2>8. TagRefused(frames, sink, t)
      BY <1>9, <2>4, <2>5, <2>7 DEF TagRefused
    <2> QED
      BY <2>1, <2>8
  <1>12. TagRefused(frames, sink, sink')
    BY <1>2, <1>10, <1>11
  <1>13. TagsFit(Front(frames), tags')
    <2>1. TagsFit(Front(frames), tags)
      <3>1. sink.kind = sink.kind /\ sink.err \in {"none", "duplicate"}
        BY <1>3
      <3>2. Failed(Front(frames), tags, sink)
        BY <1>3, <3>1, Fails
      <3> QED
        BY <3>2 DEF Failed
    <2>2. /\ DOMAIN tags' = DOMAIN tags /\ tags' = [j \in DOMAIN tags |-> tags'[j]]
          /\ \A j \in DOMAIN tags : tags'[j] = IF j <= i THEN [tags[j] EXCEPT !.depth = @ + 1] ELSE tags[j]
      BY <1>2 DEF counted
    <2>3. IsSeq(tags') /\ Len(tags') = Len(tags) /\ DOMAIN tags = 1..Len(tags)
      BY <1>4, <2>2, SeqUpdate, SeqFacts
    <2>4. ASSUME NEW j \in 1..Len(tags) PROVE IsTag(tags'[j])
      <3> DEFINE a == tags[j]
                 b == tags'[j]
      <3>1. a \in [name : {a.name}, value : {a.value}, depth : Nat]
        BY <2>1 DEF TagsFit, IsTag
      <3>2. b = IF j <= i THEN [a EXCEPT !.depth = @ + 1] ELSE a
        BY <2>2, <2>3
      <3> HIDE DEF a, b
      <3>3. b \in [name : {b.name}, value : {b.value}, depth : Nat]
        BY <3>1, <3>2
      <3> QED
        BY <3>3 DEF b, IsTag
    <2> QED
      BY <2>1, <2>3, <2>4 DEF TagsFit
  <1> QED
    BY <1>1, <1>3, <1>6, <1>12, <1>13

\* A writer that has stopped taking bytes at a tag.
LEMMA TagFailsStep ==
  ASSUME IInv, TagFails
  PROVE  IInv'
  <1>1. TagRefused(frames, sink, sink')
    BY TagFailsThere
  <1>2. IsSink(sink') /\ sink'.kind = sink.kind /\ sink'.err = "none"
    BY <1>1 DEF TagRefused
  <1> QED
    BY <1>2, TagFailsThere, FailStepCounting

\* A container begins, under the tag when it is a tagged union's variant.
LEMMA BeginContainerStep ==
  ASSUME IInv, BeginContainer
  PROVE  IInv' /\ failure' = <<>>
  <1> DEFINE n == Len(frames)
             m == Len(tags)
             p == Len(OpenIn(sink))
             b == [Top EXCEPT !.begun = TRUE]
             hr == [frames EXCEPT ![n] = b]
             begun == frames' = [frames EXCEPT ![Len(frames)].begun = TRUE] /\ failure' = failure
             inner == SinkCall(sink, Call("BeginObject", ""))
  <1>1. /\ Running /\ Kind(Top) \in Containers /\ ~Top.begun /\ ~Refuses(Top) /\ input' = input
        /\ IF Kind(Top) = "list" THEN Emit("BeginList", "", begun) /\ tags' = tags
           ELSE After(Tagged(inner), begun) /\ tags' = Deeper(tags, 1)
    BY ZenonT(60) DEF BeginContainer, Deepen, Deeper
  <1>2. Goes(frames, tags, sink) /\ frames # <<>> /\ Top = frames[n] /\ Top = Last(frames) /\ IsFrame(Top)
        /\ IsSink(sink) /\ sink.err = "none" /\ n \in DOMAIN frames /\ IsSeq(frames)
        /\ failure = <<>>
    BY <1>1, TopRuns, SeqFacts, ZenonT(60)
  <1>3. IsFrame(b) /\ b.shape = Top.shape /\ b.value = Top.value /\ b.begun /\ b.at = 0
    BY <1>1, <1>2, FrameBegins, ZenonT(60)
  <1>4. begun => frames' = hr /\ failure' = <<>>
    <2>1. hr = [frames EXCEPT ![Len(frames)].begun = TRUE]
      BY <1>2
    <2> QED
      BY <1>2, <2>1
  <1>5. Ready(sink) /\ p \in Nat
    BY <1>1, <1>2, ReadyToWrite, Openings, ZenonT(60)
  <1>6. Retopped(frames, hr, b)
    BY <1>2, Retops
  <1> HIDE DEF hr, b
  <1>7. CASE Kind(Top) = "list"
    <2>1. sink' = SinkCall(sink, Call("BeginList", "")) /\ (sink'.err = "none" => begun) /\ tags' = tags
      BY <1>1, <1>7, ZenonT(60) DEF Emit, After
    <2>2. "List" \in Both /\ "List" # "Object"
      BY DEF Both
    <2> HIDE DEF begun
    <2>3. Begun(sink, sink', "List")
      BY <1>2, <1>5, <2>1, <2>2, BeginCall, ZenonT(60)
    <2>4. begun
      BY <2>1, <2>3, ZenonT(60) DEF Begun
    <2>5. /\ IsSink(sink') /\ sink'.kind = sink.kind /\ sink'.err = "none"
          /\ Len(OpenIn(sink')) = p + 1
          /\ \A k \in 1..p : OpenIn(sink')[k] = OpenIn(sink)[k]
          /\ OpenIn(sink')[Len(OpenIn(sink'))].is = "List"
          /\ Counts(sink', Len(OpenIn(sink')), 0)
      BY <2>3 DEF Begun
    <2>6. Kind(frames[n]) = "list" /\ ~frames[n].begun /\ Kind(frames[n]) \in Containers
          /\ b.shape = frames[n].shape /\ b.value = frames[n].value
      BY <1>1, <1>2, <1>3, <1>7, ZenonT(60)
    <2>7. Retopped(frames, frames', b) /\ failure' = <<>>
      BY <1>4, <1>6, <2>4
    <2>8. /\ IF Kind(frames[n]) = "list" THEN tags' = tags ELSE tags' = Deeper(tags, 1)
          /\ IF Kind(frames[n]) = "list"
             THEN OpenIn(sink')[Len(OpenIn(sink'))].is = "List" /\ Counts(sink', Len(OpenIn(sink')), 0)
             ELSE OpenIn(sink')[Len(OpenIn(sink'))].is = "Object"
                  /\ Holds(sink', Len(OpenIn(sink')), TagAt(frames, n), FALSE)
      BY <2>1, <2>5, <2>6, ZenonT(60)
    <2>9. /\ IsSink(sink') /\ sink'.kind = sink.kind /\ sink'.err = "none"
          /\ Len(OpenIn(sink')) = Len(OpenIn(sink)) + 1
          /\ \A k \in 1..Len(OpenIn(sink)) : OpenIn(sink')[k] = OpenIn(sink)[k]
      BY <2>5
    <2>10. Goes(frames', tags', sink')
      BY <1>2, <1>3, <2>6, <2>7, <2>8, <2>9, Begins, ZenonT(30)
    <2> QED
      BY <1>1, <2>7, <2>10, IInvGoes, ZenonT(60)
  <1>8. CASE Kind(Top) # "list"
    <2>1. sink' = Tagged(inner) /\ (sink'.err = "none" => begun) /\ tags' = Deeper(tags, 1)
      BY <1>1, <1>8, ZenonT(60) DEF After
    <2> HIDE DEF begun
    <2>2. "Object" \in Both
      BY DEF Both
    <2>3. Begun(sink, inner, "Object")
      BY <1>2, <1>5, <2>2, BeginCall, ZenonT(60)
    <2> HIDE DEF inner
    <2>4. /\ IsSeq(tags) /\ m \in Nat
          /\ \A j \in 1..(m - 1) : tags[j].depth # 0
          /\ IF n > 1 /\ Kind(frames[n - 1]) = "tagged"
             THEN /\ m # 0 /\ tags[m].depth = 0 /\ TagAt(frames, n) = <<tags[m].name>>
                  /\ tags[m].value = Chosen(frames[n - 1])
             ELSE ~(m # 0 /\ tags[m].depth = 0) /\ TagAt(frames, n) = <<>>
      BY <1>1, <1>2, LayersAt, ZenonT(60)
    <2>5. Tagged(inner) = IF m # 0 /\ tags[m].depth = 0
                          THEN SinkTag(inner, tags[m].name, tags[m].value) ELSE inner
      BY <2>4, TaggedOnce
    <2>6. /\ IsSink(inner) /\ inner.kind = sink.kind /\ inner.err = "none"
          /\ Len(OpenIn(inner)) = p + 1
          /\ \A k \in 1..p : OpenIn(inner)[k] = OpenIn(sink)[k]
          /\ OpenIn(inner)[p + 1].is = "Object"
          /\ Holds(inner, p + 1, <<>>, FALSE)
      BY <2>3 DEF Begun
    <2>7. OpenIn(inner) # <<>> /\ Last(OpenIn(inner)).is = "Object"
      BY <1>5, <2>6, Openings DEF Last
    <2>8. /\ IsSink(sink') /\ sink'.kind = sink.kind /\ sink'.err = "none"
          /\ Len(OpenIn(sink')) = p + 1
          /\ \A k \in 1..p : OpenIn(sink')[k] = OpenIn(sink)[k]
          /\ OpenIn(sink')[p + 1].is = "Object"
          /\ Holds(sink', p + 1, TagAt(frames, n), FALSE)
      <3>1. CASE m # 0 /\ tags[m].depth = 0
        <4>1. sink' = SinkTag(inner, tags[m].name, tags[m].value) /\ TagAt(frames, n) = <<tags[m].name>>
          BY <2>1, <2>4, <2>5, <3>1
        <4> DEFINE t == SinkTag(inner, tags[m].name, tags[m].value)
        <4>2. p + 1 = Len(OpenIn(inner)) /\ IsSink(inner) /\ inner.err = "none" /\ Holds(inner, p + 1, <<>>, FALSE)
          BY <2>6
        <4>3. /\ IsSink(t) /\ t.kind = inner.kind /\ t.err = "none"
              /\ Len(OpenIn(t)) = p + 1
              /\ \A k \in 1..(p + 1) : k < p + 1 => OpenIn(t)[k] = OpenIn(inner)[k]
              /\ OpenIn(t)[p + 1].is = "Object"
              /\ Holds(t, p + 1, <<tags[m].name>>, FALSE)
          BY <2>7, <4>2, TagCalls
        <4> HIDE DEF t
        <4>4. /\ IsSink(sink') /\ sink'.kind = inner.kind /\ sink'.err = "none"
              /\ Len(OpenIn(sink')) = p + 1
              /\ \A k \in 1..(p + 1) : k < p + 1 => OpenIn(sink')[k] = OpenIn(inner)[k]
              /\ OpenIn(sink')[p + 1].is = "Object"
              /\ Holds(sink', p + 1, <<tags[m].name>>, FALSE)
          BY <4>1, <4>3 DEF t
        <4>5. \A k \in 1..p : k \in 1..(p + 1) /\ k < p + 1
          BY <1>5
        <4> QED
          BY <2>6, <4>1, <4>4, <4>5
      <3>2. CASE ~(m # 0 /\ tags[m].depth = 0)
        <4>1. sink' = inner /\ TagAt(frames, n) = <<>>
          BY <2>1, <2>4, <2>5, <3>2
        <4> QED
          BY <2>6, <4>1
      <3> QED
        BY <3>1, <3>2
    <2>9. begun
      BY <2>1, <2>8
    <2>10. Kind(frames[n]) # "list" /\ ~frames[n].begun /\ Kind(frames[n]) \in Containers
           /\ b.shape = frames[n].shape /\ b.value = frames[n].value
      BY <1>1, <1>2, <1>3, <1>8
    <2>11. Retopped(frames, frames', b) /\ failure' = <<>>
      BY <1>4, <1>6, <2>9
    <2>12. /\ IF Kind(frames[n]) = "list" THEN tags' = tags ELSE tags' = Deeper(tags, 1)
           /\ IF Kind(frames[n]) = "list"
              THEN OpenIn(sink')[Len(OpenIn(sink'))].is = "List" /\ Counts(sink', Len(OpenIn(sink')), 0)
              ELSE OpenIn(sink')[Len(OpenIn(sink'))].is = "Object"
                   /\ Holds(sink', Len(OpenIn(sink')), TagAt(frames, n), FALSE)
      BY <2>1, <2>8, <2>10
    <2>13. /\ IsSink(sink') /\ sink'.kind = sink.kind /\ sink'.err = "none"
           /\ Len(OpenIn(sink')) = Len(OpenIn(sink)) + 1
           /\ \A k \in 1..Len(OpenIn(sink)) : OpenIn(sink')[k] = OpenIn(sink)[k]
      BY <2>8
    <2>14. Goes(frames', tags', sink')
      BY <1>2, <1>3, <2>10, <2>11, <2>12, <2>13, Begins, ZenonT(30)
    <2> QED
      BY <1>1, <2>11, <2>14, IInvGoes, ZenonT(60)
  <1> QED
    BY <1>7, <1>8

\* The invariant of an encode about to begin.
LEMMA FirstInv ==
  ASSUME Init
  PROVE  IInv
  <1> DEFINE f == Frame(input.shape, input.value)
  <1>1. /\ input \in Inputs /\ input.shape \in DOMAIN Shape /\ input.value \in Values[input.shape]
        /\ input.kind \in {"json", "dynamic"}
    BY InputAssumption DEF Init
  <1>2. IsFrame(f) /\ ~f.begun
    BY <1>1, NewFrame
  <1>3. frames = <<f>> /\ tags = <<>> /\ failure = <<>>
    BY DEF Init
  <1> HIDE DEF f
  <1>4. IsSeq(frames) /\ Len(frames) = 1 /\ frames[1] = f /\ frames # <<>>
    BY <1>3, SeqOne, SeqFacts
  <1>5. OpenIx(frames) = {} /\ TaggedIx(frames) = {} /\ ObjectIx(frames) = {}
    BY <1>2, <1>4 DEF OpenIx, TaggedIx, ObjectIx
  <1>6. UpTo(1, {}) = 0
    <2>1. UpTo(0, {}) = 0 /\ \A j \in (0 + 1)..1 : j \notin {}
      BY UpToNone
    <2> QED
      BY <2>1, UpToNoMore
  <1>7. Stacked(frames) /\ Active(frames, Len(frames) - 1) /\ Variants(frames)
    BY <1>2, <1>4 DEF Stacked, Active, Variants
  <1>8. TagsFit(frames, tags) /\ Depths(frames, tags)
    <2>1. IsSeq(tags) /\ Len(tags) = 0
      BY <1>3, SeqEmpty
    <2>2. UpTo(Len(frames), TaggedIx(frames)) = 0
      BY <1>4, <1>5, <1>6
    <2>3. \A j \in 1..0 : IsTag(tags[j])
      OBVIOUS
    <2> QED
      BY <1>5, <2>1, <2>2, <2>3 DEF TagsFit, Depths
  <1>9. /\ IsSink(sink) /\ sink.kind = input.kind /\ sink.err = "none" /\ OpenIn(sink) = <<>>
        /\ sink.kind = "json" => sink.out = <<>>
    <2>1. CASE input.kind = "json"
      <3>1. sink = JsonSink
        BY <2>1 DEF Init
      <3>2. IsJsonSink(sink)
        BY <3>1, SeqEmpty, FirstValueNone DEF JsonSink, IsJsonSink
      <3> QED
        BY <2>1, <3>1, <3>2 DEF IsSink, JsonSink, OpenIn
    <2>2. CASE input.kind = "dynamic"
      <3>1. sink = DynamicSink
        BY <2>2 DEF Init
      <3>2. IsDynamicSink(sink)
        BY <3>1, SeqEmpty DEF DynamicSink, NothingBuilt, IsDynamicSink
      <3> QED
        BY <2>2, <3>1, <3>2 DEF IsSink, DynamicSink, NothingBuilt, OpenIn
    <2> QED
      BY <1>1, <2>1, <2>2
  <1>10. DocFits(frames, sink)
    BY <1>4, <1>5, <1>6, <1>9, SeqEmpty DEF DocFits
  <1>11. RootFits(frames, sink)
    BY <1>2, <1>4, <1>9 DEF RootFits
  <1> QED
    BY <1>1, <1>3, <1>7, <1>8, <1>9, <1>10, <1>11 DEF IInv, Goes

\* Every step preserves it: one lemma per action.
LEMMA NextInv ==
  ASSUME IInv, [Next]_vars
  PROVE  IInv'
  <1>1. CASE UNCHANGED vars
    <2>1. input' = input /\ frames' = frames /\ tags' = tags /\ sink' = sink /\ failure' = failure
      BY <1>1 DEF vars
    <2>2. CASE failure = <<>>
      BY <2>1, <2>2, IInvGoes DEF IInv
    <2>3. CASE failure # <<>>
      BY <2>1, <2>3, IInvFails DEF IInv
    <2> QED
      BY <2>2, <2>3
  <1>2. CASE Step
    BY <1>2, RefuseStep, WriteScalarStep, WriteNilStep, EnterInnerStep, EnterVariantStep,
       LeaveVariantStep, BeginContainerStep, WritePartStep, EndContainerStep, WriterFailsStep,
       TagFailsStep, UnwindStep DEF Step
  <1>3. CASE Finished
    BY <1>1, <1>3 DEF Finished
  <1> QED
    BY <1>1, <1>2, <1>3 DEF Next

\* So it holds throughout.
LEMMA Inductive == Spec => []IInv
  <1>1. Init => IInv
    BY FirstInv
  <1>2. IInv /\ [Next]_vars => IInv'
    BY NextInv
  <1> QED
    BY <1>1, <1>2, PTL DEF Spec

\* Of the invariant: the variables have their types and no call is out of
\* order.
LEMMA TypesHold ==
  ASSUME IInv
  PROVE  TypeOK /\ CallsInOrder
  <1>1. \/ failure = <<>> /\ Goes(frames, tags, sink)
        \/ Len(failure) = 1 /\ Failed(frames, tags, sink)
    BY DEF IInv
  <1>2. /\ Stacked(frames) /\ TagsFit(frames, tags) /\ sink.kind = input.kind
        /\ sink.err \in {"none", "duplicate"}
    BY <1>1 DEF Goes, Failed
  <1>3. Len(failure) \in {0, 1}
    BY <1>1, SeqEmpty
  <1>4. ASSUME NEW i \in DOMAIN frames
        PROVE  /\ frames[i].shape \in DOMAIN Shape
               /\ frames[i].begun \in BOOLEAN
               /\ frames[i].at \in Nat
               /\ frames[i].at > 0 => frames[i].at \in DOMAIN Parts(frames[i])
    <2> DEFINE f == frames[i]
    <2>1. IsFrame(f)
      BY <1>2, SeqFacts DEF Stacked
    <2> HIDE DEF f
    <2>2. /\ f.shape \in DOMAIN Shape /\ f.value \in Values[f.shape] /\ f.begun \in BOOLEAN /\ f.at \in Nat
          /\ ~f.begun => f.at = 0
          /\ f.begun => Kind(f) \in Containers \cup {"tagged"} /\ ~Refuses(f) /\ f.at <= Len(Parts(f))
      BY <2>1, FrameFacts
    <2>3. f.at > 0 => f.at \in DOMAIN Parts(f)
      <3> SUFFICES ASSUME f.at > 0 PROVE f.at \in DOMAIN Parts(f)
        OBVIOUS
      <3>1. f.begun /\ Kind(f) \in Containers \cup {"tagged"} /\ ~Refuses(f) /\ f.at <= Len(Parts(f))
        BY <2>2
      <3>2. IsSeq(Parts(f)) /\ Len(Parts(f)) \in Nat
        BY <2>2, <3>1, PartsSound
      <3> QED
        BY <2>2, <3>1, <3>2, SeqFacts
    <2> QED
      BY <2>2, <2>3 DEF f
  <1>5. \A j \in DOMAIN tags : tags[j].depth \in Nat
    BY <1>2, SeqFacts DEF TagsFit, IsTag
  <1> QED
    BY <1>2, <1>3, <1>4, <1>5 DEF TypeOK, CallsInOrder

\* Without the last of what a record has given, it has given one part less.
LEMMA GivenLess ==
  ASSUME NEW fr, NEW i, fr[i].at \in Nat, fr[i].at # 0
  PROVE  Front(Given(fr, i)) = TagAt(fr, i) \o Labels(fr[i], fr[i].at - 1)
  <1> DEFINE f == fr[i]
             p == f.at - 1
             s == Labels(f, p)
             t == Labels(f, p + 1)
             e == Parts(f)[p + 1].label.part
             a == TagAt(fr, i)
             c == a \o s
             r == Append(c, e)
  <1>1. p \in Nat /\ p + 1 = f.at
    OBVIOUS
  <1>2. /\ DOMAIN s = 1..p /\ s = [k \in 1..p |-> s[k]]
        /\ DOMAIN t = 1..(p + 1) /\ t = [k \in 1..(p + 1) |-> t[k]]
        /\ \A k \in 1..p : s[k] = Parts(f)[k].label.part
        /\ \A k \in 1..(p + 1) : t[k] = Parts(f)[k].label.part
    BY DEF Labels
  <1> HIDE DEF p, s, t, e
  <1>3. p + 1 \in Nat /\ p + 1 \in 1..(p + 1) /\ \A k \in 1..p : k \in 1..(p + 1)
    BY <1>1
  <1>4. IsSeq(s) /\ Len(s) = p /\ IsSeq(t) /\ Len(t) = p + 1
    BY <1>1, <1>2, <1>3, SeqMake
  <1> DEFINE u == Append(s, e)
  <1>5. IsSeq(u) /\ Len(u) = p + 1 /\ u[p + 1] = e /\ \A k \in 1..p : u[k] = s[k]
    BY <1>4, SeqAppend
  <1> HIDE DEF u
  <1>6. \A k \in 1..(p + 1) : t[k] = u[k]
    <2> TAKE k \in 1..(p + 1)
    <2>1. k \in 1..p \/ k = p + 1
      BY <1>1
    <2> QED
      BY <1>2, <1>3, <1>5, <2>1 DEF e
  <1>7. t = u
    BY <1>4, <1>5, <1>6, SeqSame
  <1>8. IsSeq(a)
    BY SeqOne, SeqEmpty DEF TagAt
  <1> HIDE DEF a
  <1>9. a \o t = r
    BY <1>4, <1>7, <1>8, ConcatAppend DEF u
  <1>10. IsSeq(c) /\ Len(c) \in Nat
    BY <1>4, <1>8, SeqConcat, SeqFacts
  <1> HIDE DEF c
  <1>11. IsSeq(r) /\ Len(r) = Len(c) + 1 /\ \A k \in 1..Len(c) : r[k] = c[k]
    BY <1>10, SeqAppend
  <1> HIDE DEF r
  <1>12. r # <<>> /\ Len(r) - 1 = Len(c)
    BY <1>10, <1>11, SeqFacts
  <1>13. IsSeq(Front(r)) /\ Len(Front(r)) = Len(c) /\ \A k \in 1..Len(c) : Front(r)[k] = c[k]
    BY <1>11, <1>12, SeqFront DEF Front
  <1>14. Front(r) = c
    BY <1>10, <1>13, SeqSame
  <1>15. Given(fr, i) = r
    BY <1>1, <1>9 DEF Given, a, t
  <1> QED
    BY <1>14, <1>15 DEF c, a, s, p

\* Of the invariant: the document stands where the records stand.
LEMMA TracksHolds ==
  ASSUME IInv
  PROVE  DocumentTracksStack
  <1> SUFFICES ASSUME failure = <<>>
               PROVE  /\ Len(OpenIn(sink)) = Count(Len(frames), OpenRecords)
                      /\ \A i \in OpenRecords :
                           LET k == Count(i, OpenRecords)
                           IN  IF Kind(frames[i]) = "list" THEN OpenIn(sink)[k].is = "List"
                               ELSE OpenIn(sink)[k].is = "Object" /\ NamesIn(sink, k) = NamesGiven(i)
    BY DEF DocumentTracksStack
  <1>1. Goes(frames, tags, sink)
    BY DEF IInv
  <1>2. /\ Stacked(frames) /\ Active(frames, Len(frames) - 1) /\ DocFits(frames, sink) /\ IsSink(sink)
        /\ IsSeq(frames) /\ DOMAIN frames = 1..Len(frames) /\ Len(frames) \in Nat
    BY <1>1, SeqFacts DEF Goes, Stacked
  <1>3. OpenRecords = OpenIx(frames) /\ TaggedRecords = TaggedIx(frames)
    BY <1>2 DEF OpenRecords, OpenIx, TaggedRecords, TaggedIx
  <1>4. \A i : Count(i, OpenRecords) = UpTo(i, OpenIx(frames))
    BY <1>3 DEF Count, UpTo
  <1>5. ASSUME NEW i \in OpenIx(frames), NEW k, k = UpTo(i, OpenIx(frames)), Kind(frames[i]) # "list"
        PROVE  OpenIn(sink)[k].is = "Object" /\ NamesIn(sink, k) = NamesGiven(i)
    <2>1. RecordFits(frames, sink, i)
      BY <1>2 DEF DocFits
    <2>2. /\ OpenIn(sink)[k].is = "Object"
          /\ Awaits(frames, i) => Holds(sink, k, Given(frames, i), TRUE)
          /\ ~Awaits(frames, i) => Holds(sink, k, Given(frames, i), FALSE)
      BY <1>5, <2>1 DEF RecordFits
    <2>3. Inside(i) <=> Awaits(frames, i)
      BY <1>3 DEF Inside, Awaits
    <2>4. TagOver(i) = TagAt(frames, i)
      BY DEF TagOver, TagAt
    <2>5. i \in 1..Len(frames) /\ frames[i].at \in Nat
      BY <1>2, FrameFacts DEF Stacked, OpenIx
    <2>6. CASE sink.kind = "dynamic" /\ Inside(i)
      <3>1. frames[i].at # 0
        <4>1. PICK j \in (i + 1)..Len(frames) : TRUE
          BY <2>6 DEF Inside
        <4>2. i \in 1..(Len(frames) - 1)
          BY <1>2, <2>5, <4>1
        <4> QED
          BY <1>2, <2>5, <4>2 DEF Active
      <3>2. NamesIn(sink, k) = Front(Given(frames, i))
        BY <2>2, <2>3, <2>6 DEF Holds
      <3>3. NamesGiven(i) = TagAt(frames, i) \o Labels(frames[i], frames[i].at - 1)
        BY <2>4, <2>6 DEF NamesGiven, Labels
      <3> QED
        BY <2>2, <2>5, <3>1, <3>2, <3>3, GivenLess
    <2>7. CASE ~(sink.kind = "dynamic" /\ Inside(i))
      <3>1. NamesGiven(i) = Given(frames, i)
        BY <2>4, <2>7 DEF NamesGiven, Given, Labels
      <3>2. CASE sink.kind = "json"
        BY <2>2, <3>1, <3>2 DEF Holds, NamesIn
      <3>3. CASE sink.kind # "json"
        <4>1. ~Inside(i)
          BY <1>2, <2>7, <3>3, Openings
        <4> QED
          BY <2>2, <2>3, <3>1, <3>3, <4>1 DEF Holds
      <3> QED
        BY <3>2, <3>3
    <2> QED
      BY <2>6, <2>7
  <1>6. ASSUME NEW i \in OpenIx(frames), Kind(frames[i]) = "list"
        PROVE  OpenIn(sink)[UpTo(i, OpenIx(frames))].is = "List"
    BY <1>2, <1>6 DEF DocFits, RecordFits
  <1>7. Len(OpenIn(sink)) = Count(Len(frames), OpenRecords)
    BY <1>2, <1>4 DEF DocFits
  <1>8. ASSUME NEW i \in OpenRecords
        PROVE  LET k == Count(i, OpenRecords)
               IN  IF Kind(frames[i]) = "list" THEN OpenIn(sink)[k].is = "List"
                   ELSE OpenIn(sink)[k].is = "Object" /\ NamesIn(sink, k) = NamesGiven(i)
    BY <1>3, <1>4, <1>5, <1>6
  <1> QED
    BY <1>7, <1>8

\* For every set of schemas, values and strategies: whatever is encoded, each
\* call encodeWith makes reaches its sink where the sink can take it, and the
\* containers, names and tags in the document are those of the schemas on the
\* call stack, through any nesting of tagged unions.
THEOREM EncodesInStepAlways == Spec => []EncodesInStep
  <1>1. IInv => EncodesInStep
    BY TypesHold, TracksHolds DEF EncodesInStep
  <1> QED
    BY <1>1, Inductive, PTL

\* jsonSink refuses a name only when a naming strategy has rewritten names:
\* under Literal no object, map or tagged union's variant is given one twice.
THEOREM DuplicatesNeedStrategyAlways == Spec => []DuplicatesNeedStrategy
  <1>1. IInv => DuplicatesNeedStrategy
    BY DEF IInv, DuplicatesNeedStrategy
  <1> QED
    BY <1>1, Inductive, PTL

----------------------------------------------------------------------------
(* What a value is for a sink. *)

\* What Document says of a value, if g says what it does of those it is made of.
Inner(g, f) == [k \in DOMAIN Parts(f) |-> g[<<Parts(f)[k].of, Parts(f)[k].value>>]]
Matched(f) == Kind(f) \in {"union", "tagged"} => f.value[1] # 0

Makes(g, p) ==
  LET f == Frame(p[1], p[2])
  IN  CASE Kind(f) = "nullable" /\ f.value # <<>>  -> g[<<Shape[f.shape].of, f.value[1]>>]
        [] Kind(f) \in {"refined", "suspend"}      -> g[<<Shape[f.shape].of, f.value>>]
        [] Kind(f) = "tagged" /\ Matched(f)        -> Labelled(f, Inner(g, f)[1])
        [] Kind(f) \in Containers /\ Matched(f)    -> Assembled(f, Inner(g, f))
        [] OTHER                                   -> Leaf(f)

\* g says it of the values of less than height k.
MakesTo(g, k) == \A p \in Writable : Height[p] < k => g[p] = Makes(g, p)

\* A value to write, as the record that writes it.
LEMMA WritableIs ==
  ASSUME NEW p \in Writable, NEW f, f = Frame(p[1], p[2])
  PROVE  /\ f.shape = p[1] /\ f.value = p[2] /\ p[1] \in DOMAIN Shape /\ p[2] \in Values[p[1]]
         /\ p = <<p[1], p[2]>> /\ Kind(f) = Shape[p[1]].kind
  <1>1. PICK s \in DOMAIN Shape : p \in {s} \X Values[s]
    BY DEF Writable
  <1>2. p[1] = s /\ p[2] \in Values[s] /\ p = <<p[1], p[2]>>
    BY <1>1
  <1> QED
    BY <1>2 DEF Frame, Kind

\* A value of a schema is one to write.
LEMMA ValueWritable ==
  ASSUME NEW s \in DOMAIN Shape, NEW v \in Values[s]
  PROVE  <<s, v>> \in Writable
  BY DEF Writable

\* What a value is made of, by its schema.
LEMMA MadeOfParts ==
  ASSUME NEW p, NEW s, NEW v, s = p[1], v = p[2]
  PROVE  /\ Shape[s].kind = "object" =>
              \A i \in DOMAIN Shape[s].fields :
                v[i] # <<>> => <<Shape[s].fields[i].of, v[i][1]>> \in MadeOf(p)
         /\ Shape[s].kind \in {"list", "map"} =>
              \A i \in DOMAIN v : <<Shape[s].of, v[i]>> \in MadeOf(p)
  <1>1. ASSUME Shape[s].kind = "object"
        PROVE  MadeOf(p) = {<<Shape[s].fields[i].of, v[i][1]>> :
                              i \in {j \in DOMAIN Shape[s].fields : v[j] # <<>>}}
    BY <1>1, Zenon DEF MadeOf
  <1>2. ASSUME Shape[s].kind \in {"list", "map"}
        PROVE  MadeOf(p) = {<<Shape[s].of, v[i]>> : i \in DOMAIN v}
    BY <1>2, Zenon DEF MadeOf
  <1> QED
    BY <1>1, <1>2

\* What a part is of.
LEMMA PartHas ==
  \A in, name, of, value : /\ Part(in, name, of, value).of = of
                           /\ Part(in, name, of, value).value = value
                           /\ Part(in, name, of, value).label.part = name
  BY DEF Part

\* Everything a record writes is something its value is made of.
LEMMA PartsMade ==
  ASSUME NEW p \in Writable, NEW f, f = Frame(p[1], p[2]),
         Kind(f) \in Containers \cup {"tagged"}, Matched(f)
  PROVE  /\ IsSeq(Parts(f))
         /\ \A k \in 1..Len(Parts(f)) : <<Parts(f)[k].of, Parts(f)[k].value>> \in MadeOf(p)
         /\ Kind(f) = "tagged" => Len(Parts(f)) = 1 /\ Parts(f)[1] = VariantPart(f)
  <1> DEFINE s == p[1]
             v == p[2]
  <1>1. /\ f.shape = s /\ f.value = v /\ s \in DOMAIN Shape /\ v \in Values[s]
        /\ Kind(f) = Shape[s].kind
    BY WritableIs
  <1>6. /\ Shape[s].kind = "object" =>
              \A i \in DOMAIN Shape[s].fields :
                v[i] # <<>> => <<Shape[s].fields[i].of, v[i][1]>> \in MadeOf(p)
        /\ Shape[s].kind \in {"list", "map"} =>
              \A i \in DOMAIN v : <<Shape[s].of, v[i]>> \in MadeOf(p)
    BY MadeOfParts
  <1> HIDE DEF s, v
  <1>2. CASE Kind(f) = "object"
    <2> DEFINE fields == Shape[s].fields
               S == {i \in DOMAIN fields : ~(fields[i].optional /\ v[i] = <<>>)}
               written == InOrder(S, Len(fields))
               n == Len(written)
               P(k) == Part("object", SpelledName(fields, input.strategy, written[k]),
                            fields[written[k]].of, v[written[k]][1])
    <2>1. Len(fields) \in Nat
      BY <1>1, <1>2, ShapeAssumption DEF Listed
    <2>2. Increasing(written, S, Len(fields))
      BY <2>1, InOrderIncreases, SMTT(60)
    <2>3. IsSeq(written) /\ n \in Nat /\ DOMAIN written = 1..n
      BY <2>2, SeqFacts DEF Increasing
    <2>4. \A i \in DOMAIN fields : v[i] = <<>> => fields[i].optional
      BY <1>1, <1>2, ValueAssumption, ZenonT(60)
    <2>5. \A k \in 1..n : written[k] \in DOMAIN fields /\ v[written[k]] # <<>>
      BY <2>2, <2>4 DEF Increasing
    <2>6. Parts(f) = [k \in DOMAIN written |-> P(k)]
      BY <1>1, <1>2 DEF Parts, FieldParts
    <2> HIDE DEF written, n
    <2>7. Parts(f) = [k \in 1..n |-> P(k)]
      BY <2>3, <2>6
    <2> HIDE DEF P
    <2>8. DOMAIN Parts(f) = 1..n /\ \A k \in 1..n : Parts(f)[k] = P(k)
      BY <2>7
    <2>9. IsSeq(Parts(f)) /\ Len(Parts(f)) = n
      BY <2>3, <2>7, <2>8, SeqMake
    <2>10. ASSUME NEW k \in 1..n PROVE <<Parts(f)[k].of, Parts(f)[k].value>> \in MadeOf(p)
      <3>0. Parts(f)[k] = P(k)
        BY <2>8
      <3>1. Parts(f)[k].of = fields[written[k]].of /\ Parts(f)[k].value = v[written[k]][1]
        BY <3>0, PartHas DEF P
      <3> DEFINE w == written[k]
      <3>2. w \in DOMAIN Shape[s].fields /\ v[w] # <<>>
        BY <2>5
      <3>3. Shape[s].kind = "object"
        BY <1>1, <1>2
      <3> HIDE DEF w
      <3>4. <<Shape[s].fields[w].of, v[w][1]>> \in MadeOf(p)
        BY <1>6, <3>2, <3>3
      <3> QED
        BY <3>1, <3>4 DEF w
    <2> QED
      BY <1>2, <2>9, <2>10
  <1>3. CASE Kind(f) \in {"union", "tagged"}
    <2>1. Parts(f) = <<VariantPart(f)>>
      BY <1>3 DEF Parts
    <2>2. IsSeq(Parts(f)) /\ Len(Parts(f)) = 1 /\ Parts(f)[1] = VariantPart(f)
      BY <2>1, SeqOne
    <2>3. VariantPart(f).of = Shape[s].variants[v[1]].of /\ VariantPart(f).value = v[2]
      BY <1>1 DEF VariantPart, Part
    <2>4. MadeOf(p) = {<<Shape[s].variants[v[1]].of, v[2]>>}
      BY <1>1, <1>3 DEF MadeOf, Matched, s, v
    <2> QED
      BY <2>2, <2>3, <2>4
  <1>4. CASE Kind(f) = "list"
    <2> DEFINE n == Len(v)
               P(k) == Part("list", ToString(k - 1), Shape[s].of, v[k])
    <2>1. v \in Seq(Values[Shape[s].of])
      BY <1>1, <1>4, ValueAssumption
    <2>2. n \in Nat /\ DOMAIN v = 1..n
      BY <2>1
    <2>3. Parts(f) = [k \in 1..n |-> P(k)]
      BY <1>1, <1>4, <2>2 DEF Parts, ElementParts
    <2> HIDE DEF P, n
    <2>4. DOMAIN Parts(f) = 1..n /\ \A k \in 1..n : Parts(f)[k] = P(k)
      BY <2>3
    <2>5. IsSeq(Parts(f)) /\ Len(Parts(f)) = n
      BY <2>2, <2>3, <2>4, SeqMake
    <2>6. ASSUME NEW k \in 1..n PROVE <<Parts(f)[k].of, Parts(f)[k].value>> \in MadeOf(p)
      <3>0. Parts(f)[k] = P(k) /\ k \in DOMAIN v
        BY <2>2, <2>4 DEF n
      <3>1. Parts(f)[k].of = Shape[s].of /\ Parts(f)[k].value = v[k]
        BY <3>0, PartHas DEF P
      <3>2. <<Shape[s].of, v[k]>> \in MadeOf(p)
        BY <1>1, <1>4, <1>6, <3>0
      <3> QED
        BY <3>1, <3>2
    <2> QED
      BY <1>4, <2>5, <2>6
  <1>5. CASE Kind(f) = "map"
    <2> DEFINE S == {i \in DOMAIN Keys : Keys[i] \in DOMAIN v}
               held == InOrder(S, Len(Keys))
               n == Len(held)
               P(k) == Part("map", Keys[held[k]], Shape[s].of, v[Keys[held[k]]])
    <2>1. Len(Keys) \in Nat
      BY NameAssumption
    <2>2. Increasing(held, S, Len(Keys))
      BY <2>1, InOrderIncreases
    <2>3. IsSeq(held) /\ n \in Nat /\ DOMAIN held = 1..n
      BY <2>2, SeqFacts DEF Increasing
    <2>4. \A k \in 1..n : Keys[held[k]] \in DOMAIN v
      BY <2>2 DEF Increasing
    <2>5. Parts(f) = [k \in DOMAIN held |-> P(k)]
      BY <1>1, <1>5 DEF Parts, EntryParts
    <2> HIDE DEF held, n
    <2>6. Parts(f) = [k \in 1..n |-> P(k)]
      BY <2>3, <2>5
    <2> HIDE DEF P
    <2>7. DOMAIN Parts(f) = 1..n /\ \A k \in 1..n : Parts(f)[k] = P(k)
      BY <2>6
    <2>8. IsSeq(Parts(f)) /\ Len(Parts(f)) = n
      BY <2>3, <2>6, <2>7, SeqMake
    <2>9. ASSUME NEW k \in 1..n PROVE <<Parts(f)[k].of, Parts(f)[k].value>> \in MadeOf(p)
      <3>0. Parts(f)[k] = P(k)
        BY <2>7
      <3>1. Parts(f)[k].of = Shape[s].of /\ Parts(f)[k].value = v[Keys[held[k]]]
        BY <3>0, PartHas DEF P
      <3>2. <<Shape[s].of, v[Keys[held[k]]]>> \in MadeOf(p)
        BY <1>1, <1>5, <1>6, <2>4
      <3> QED
        BY <3>1, <3>2
    <2> QED
      BY <1>5, <2>8, <2>9
  <1> QED
    BY <1>2, <1>3, <1>4, <1>5 DEF Containers

\* Makes depends on what its function says of the values inside.
LEMMA MakesAlike ==
  ASSUME NEW p \in Writable, NEW g, NEW h, \A q \in MadeOf(p) : g[q] = h[q]
  PROVE  Makes(g, p) = Makes(h, p)
  <1> DEFINE f == Frame(p[1], p[2])
  <1>1. f.shape = p[1] /\ f.value = p[2] /\ Kind(f) = Shape[p[1]].kind
    BY WritableIs
  <1>2. CASE Kind(f) \in Containers \cup {"tagged"} /\ Matched(f)
    <2>1. Inner(g, f) = Inner(h, f)
      <3>1. DOMAIN Parts(f) = 1..Len(Parts(f))
        BY <1>2, PartsMade, SeqFacts
      <3>2. \A k \in DOMAIN Parts(f) : <<Parts(f)[k].of, Parts(f)[k].value>> \in MadeOf(p)
        BY <1>2, <3>1, PartsMade
      <3> QED
        BY <3>2 DEF Inner
    <2> QED
      BY <1>2, <2>1 DEF Makes, Containers
  <1>3. CASE Kind(f) = "nullable" /\ f.value # <<>>
    <2>1. <<Shape[f.shape].of, f.value[1]>> \in MadeOf(p)
      BY <1>1, <1>3 DEF MadeOf
    <2> QED
      BY <1>3, <2>1 DEF Makes, Containers
  <1>4. CASE Kind(f) \in {"refined", "suspend"}
    <2>1. <<Shape[f.shape].of, f.value>> \in MadeOf(p)
      BY <1>1, <1>4 DEF MadeOf
    <2>2. Kind(f) # "nullable"
      BY <1>4
    <2> QED
      BY <1>4, <2>1, <2>2 DEF Makes, Containers
  <1>5. CASE /\ ~(Kind(f) \in Containers \cup {"tagged"} /\ Matched(f))
             /\ ~(Kind(f) = "nullable" /\ f.value # <<>>)
             /\ Kind(f) \notin {"refined", "suspend"}
    BY <1>5 DEF Makes, Containers
  <1> QED
    BY <1>2, <1>3, <1>4, <1>5

\* Values of any height have a document.
LEMMA MakesExist ==
  \A k \in Nat : \E g : MakesTo(g, k)
  <1> DEFINE N == {k \in Nat : \E g : MakesTo(g, k)}
  <1>1. 0 \in N
    <2>1. MakesTo([p \in Writable |-> p], 0)
      BY HeightAssumption DEF MakesTo
    <2> QED
      BY <2>1
  <1>2. ASSUME NEW k \in Nat, k \in N PROVE k + 1 \in N
    <2>1. PICK g : MakesTo(g, k)
      BY <1>2
    <2> DEFINE h == [p \in Writable |-> Makes(g, p)]
    <2>2. ASSUME NEW p \in Writable, Height[p] < k + 1 PROVE h[p] = Makes(h, p)
      <3>1. ASSUME NEW q \in MadeOf(p) PROVE g[q] = h[q]
        <4>1. q \in Writable /\ Height[q] < k /\ Height[q] \in Nat
          BY <2>2, HeightAssumption
        <4> QED
          BY <2>1, <4>1 DEF MakesTo
      <3>2. h[p] = Makes(g, p)
        OBVIOUS
      <3> HIDE DEF h
      <3> QED
        BY <3>1, <3>2, MakesAlike
    <2> HIDE DEF h
    <2>3. MakesTo(h, k + 1)
      BY <2>2 DEF MakesTo
    <2> QED
      BY <2>3
  <1>3. Nat \subseteq N
    BY <1>1, <1>2, SetInduction
  <1> QED
    BY <1>3

\* And one.
LEMMA MakesAgree ==
  ASSUME NEW g, NEW h, NEW k \in Nat, NEW m \in Nat, MakesTo(g, k), MakesTo(h, m),
         NEW p \in Writable, Height[p] < k, Height[p] < m
  PROVE  g[p] = h[p]
  <1> DEFINE N == {d \in Nat : \A x \in Writable : (Height[x] < d /\ Height[x] < k /\ Height[x] < m) => g[x] = h[x]}
  <1>1. 0 \in N
    BY HeightAssumption
  <1>2. ASSUME NEW d \in Nat, d \in N PROVE d + 1 \in N
    <2> SUFFICES ASSUME NEW x \in Writable, Height[x] < d + 1, Height[x] < k, Height[x] < m
                 PROVE  g[x] = h[x]
      OBVIOUS
    <2>1. g[x] = Makes(g, x) /\ h[x] = Makes(h, x)
      BY DEF MakesTo
    <2>2. ASSUME NEW q \in MadeOf(x) PROVE g[q] = h[q]
      <3>1. /\ q \in Writable /\ Height[q] < Height[x] /\ Height[q] \in Nat /\ Height[x] \in Nat
        BY HeightAssumption
      <3>2. Height[q] < d /\ Height[q] < k /\ Height[q] < m
        BY <3>1
      <3> QED
        BY <1>2, <3>1, <3>2
    <2> QED
      BY <2>1, <2>2, MakesAlike
  <1>3. Nat \subseteq N
    BY <1>1, <1>2, SetInduction
  <1>4. Height[p] + 1 \in N /\ Height[p] < Height[p] + 1
    BY <1>3, HeightAssumption
  <1> QED
    BY <1>4

\* So Document is what its definition says, of every value.
LEMMA DocumentIs ==
  /\ Document = [p \in Writable |-> Makes(Document, p)]
  /\ \A p \in Writable : Document[p] = Makes(Document, p)
  <1> DEFINE At(p) == CHOOSE g : MakesTo(g, Height[p] + 1)
             G == [p \in Writable |-> At(p)[p]]
  <1>1. ASSUME NEW p \in Writable
        PROVE  MakesTo(At(p), Height[p] + 1) /\ Height[p] \in Nat /\ Height[p] + 1 \in Nat
    <2>1. Height[p] \in Nat /\ Height[p] + 1 \in Nat
      BY HeightAssumption
    <2>2. \E g : MakesTo(g, Height[p] + 1)
      BY <2>1, MakesExist
    <2> QED
      BY <2>1, <2>2
  <1> HIDE DEF At
  <1>2. ASSUME NEW p \in Writable PROVE G[p] = Makes(G, p)
    <2>1. At(p)[p] = Makes(At(p), p)
      BY <1>1 DEF MakesTo
    <2>2. ASSUME NEW q \in MadeOf(p) PROVE At(p)[q] = G[q]
      <3>1. q \in Writable /\ Height[q] < Height[p] + 1 /\ Height[q] < Height[q] + 1
        <4>1. q \in Writable /\ Height[q] < Height[p] /\ Height[q] \in Nat /\ Height[p] \in Nat
          BY HeightAssumption
        <4> QED
          BY <4>1
      <3>2. /\ MakesTo(At(q), Height[q] + 1) /\ MakesTo(At(p), Height[p] + 1)
            /\ Height[q] + 1 \in Nat /\ Height[p] + 1 \in Nat
        BY <1>1, <3>1
      <3>3. At(p)[q] = At(q)[q]
        BY <3>1, <3>2, MakesAgree
      <3> QED
        BY <3>1, <3>3
    <2>3. G[p] = At(p)[p]
      OBVIOUS
    <2> HIDE DEF G
    <2> QED
      BY <2>1, <2>2, <2>3, MakesAlike
  <1>3. G = [p \in Writable |-> G[p]]
    OBVIOUS
  <1> HIDE DEF G
  <1>4. G = [p \in Writable |-> Makes(G, p)]
    BY <1>2, <1>3
  <1>5. Document = [p \in Writable |-> Makes(Document, p)]
    BY <1>4, Zenon DEF Document, Makes, Matched, Inner
  <1> QED
    BY <1>5

----------------------------------------------------------------------------
(* The calls for a container's last parts. *)

\* h is Ending's reading of the last n of parts, of a container of that kind.
Endings(parts, kind, inner, n, h) ==
  h = [i \in 0..n |->
         IF i = 0 THEN <<Call(IF kind = "list" THEN "EndList" ELSE "EndObject", "")>>
         ELSE LET k == Len(parts) - i + 1
              IN  (IF kind = "list" THEN <<>> ELSE <<Call("FieldName", parts[k].label.part)>>)
                    \o inner[k].calls \o h[i - 1]]

EndingOf(parts, kind, inner, n) ==
  LET h == CHOOSE h : Endings(parts, kind, inner, n, h) IN h[n]

\* The calls for one part more, before those.
PartCalls(parts, kind, inner, k) ==
  (IF kind = "list" THEN <<>> ELSE <<Call("FieldName", parts[k].label.part)>>) \o inner[k].calls

\* Ending's reading is a function that exists.
LEMMA EndingsExist ==
  \A parts, kind, inner : \A n \in Nat : \E h : Endings(parts, kind, inner, n, h)
  <1> TAKE parts, kind, inner
  <1> DEFINE N == {n \in Nat : \E h : Endings(parts, kind, inner, n, h)}
             end == <<Call(IF kind = "list" THEN "EndList" ELSE "EndObject", "")>>
             step(i, rest) == PartCalls(parts, kind, inner, Len(parts) - i + 1) \o rest
  <1>0. ASSUME NEW n \in Nat, NEW h
        PROVE  Endings(parts, kind, inner, n, h)
                 <=> h = [i \in 0..n |-> IF i = 0 THEN end ELSE step(i, h[i - 1])]
    BY DEF Endings, PartCalls
  <1> HIDE DEF end, step
  <1>1. 0 \in N
    <2> DEFINE r == [i \in 0..0 |-> end]
    <2>1. r = [i \in 0..0 |-> IF i = 0 THEN end ELSE step(i, r[i - 1])]
      OBVIOUS
    <2> HIDE DEF r
    <2>2. Endings(parts, kind, inner, 0, r)
      BY <1>0, <2>1
    <2> QED
      BY <2>2
  <1>2. ASSUME NEW n \in Nat, n \in N PROVE n + 1 \in N
    <2>1. PICK r : Endings(parts, kind, inner, n, r)
      BY <1>2
    <2>2. r = [i \in 0..n |-> IF i = 0 THEN end ELSE step(i, r[i - 1])]
      BY <1>0, <2>1
    <2> DEFINE more == step(n + 1, r[n])
               q == [i \in 0..(n + 1) |-> IF i = n + 1 THEN more ELSE r[i]]
    <2>3. \A i \in 0..(n + 1) : q[i] = IF i = 0 THEN end ELSE step(i, q[i - 1])
      <3> TAKE i \in 0..(n + 1)
      <3>1. CASE i = n + 1
        <4>1. i # 0 /\ i - 1 = n /\ n \in 0..(n + 1) /\ n # n + 1
          BY <3>1
        <4>2. q[i] = more /\ q[i - 1] = r[n]
          BY <3>1, <4>1
        <4> HIDE DEF q
        <4> QED
          BY <3>1, <4>1, <4>2
      <3>2. CASE i \in 0..n /\ i # 0
        <4>1. i - 1 \in 0..(n + 1) /\ i - 1 # n + 1 /\ i # n + 1
          BY <3>2
        <4>2. q[i] = r[i] /\ q[i - 1] = r[i - 1]
          BY <4>1
        <4> HIDE DEF q
        <4> QED
          BY <2>2, <3>2, <4>2
      <3>3. CASE i = 0
        <4>1. q[i] = r[i] /\ r[i] = end
          BY <2>2, <3>3
        <4> QED
          BY <3>3, <4>1
      <3> QED
        BY <3>1, <3>2, <3>3
    <2>4. q = [i \in 0..(n + 1) |-> q[i]]
      OBVIOUS
    <2> HIDE DEF q
    <2>5. q = [i \in 0..(n + 1) |-> IF i = 0 THEN end ELSE step(i, q[i - 1])]
      BY <2>3, <2>4
    <2>6. Endings(parts, kind, inner, n + 1, q)
      BY <1>0, <2>5
    <2> QED
      BY <2>6
  <1>3. Nat \subseteq N
    BY <1>1, <1>2, SetInduction
  <1> QED
    BY <1>3

\* Two such readings agree where both read.
LEMMA EndingsAgree ==
  ASSUME NEW parts, NEW kind, NEW inner, NEW n \in Nat, NEW m \in Nat, NEW g, NEW h,
         Endings(parts, kind, inner, n, g), Endings(parts, kind, inner, m, h),
         NEW j \in Nat, j <= n, j <= m
  PROVE  g[j] = h[j]
  <1> DEFINE N == {i \in Nat : i <= n /\ i <= m => g[i] = h[i]}
  <1>1. 0 \in N
    <2> DEFINE end == <<Call(IF kind = "list" THEN "EndList" ELSE "EndObject", "")>>
    <2>1. 0 \in 0..n /\ 0 \in 0..m
      OBVIOUS
    <2>2. g[0] = end
      BY <2>1, ZenonT(60) DEF Endings
    <2>3. h[0] = end
      BY <2>1, ZenonT(60) DEF Endings
    <2> HIDE DEF end
    <2>4. g[0] = h[0]
      BY <2>2, <2>3
    <2> QED
      BY <2>4
  <1>2. ASSUME NEW i \in Nat, i \in N PROVE i + 1 \in N
    <2> SUFFICES ASSUME i + 1 <= n, i + 1 <= m PROVE g[i + 1] = h[i + 1]
      OBVIOUS
    <2>1. g[i] = h[i]
      BY <1>2
    <2>2. i + 1 \in 0..n /\ i + 1 \in 0..m /\ i + 1 # 0 /\ (i + 1) - 1 = i
      OBVIOUS
    <2>3. /\ g[i + 1] = PartCalls(parts, kind, inner, Len(parts) - (i + 1) + 1) \o g[i]
          /\ h[i + 1] = PartCalls(parts, kind, inner, Len(parts) - (i + 1) + 1) \o h[i]
      BY <2>2, Zenon DEF Endings, PartCalls
    <2> QED
      BY <2>1, <2>3
  <1>3. Nat \subseteq N
    BY <1>1, <1>2, SetInduction
  <1> QED
    BY <1>3

\* Ending, unrolled.
LEMMA EndingIs ==
  ASSUME NEW f, NEW inner, Len(Parts(f)) \in Nat
  PROVE  /\ \A n : Ending(f, inner, n) = EndingOf(Parts(f), Kind(f), inner, n)
         /\ Ending(f, inner, 0) = <<Call(IF Kind(f) = "list" THEN "EndList" ELSE "EndObject", "")>>
         /\ \A n \in Nat : Ending(f, inner, n + 1)
                             = PartCalls(Parts(f), Kind(f), inner, Len(Parts(f)) - n)
                                 \o Ending(f, inner, n)
  <1> DEFINE parts == Parts(f)
             kind == Kind(f)
  <1>0. Len(parts) \in Nat
    OBVIOUS
  <1>1. \A n : Ending(f, inner, n) = EndingOf(parts, kind, inner, n)
    BY DEF Ending, EndingOf, Endings
  <1> HIDE DEF parts, kind
  <1>2. ASSUME NEW n \in Nat
        PROVE  \E h : Endings(parts, kind, inner, n, h) /\ Ending(f, inner, n) = h[n]
    <2> DEFINE c == CHOOSE h : Endings(parts, kind, inner, n, h)
    <2>1. \E h : Endings(parts, kind, inner, n, h)
      BY EndingsExist
    <2>2. Endings(parts, kind, inner, n, c)
      BY <2>1
    <2>3. EndingOf(parts, kind, inner, n) = c[n]
      BY DEF EndingOf
    <2> HIDE DEF c
    <2> QED
      BY <1>1, <2>2, <2>3
  <1>3. Ending(f, inner, 0) = <<Call(IF kind = "list" THEN "EndList" ELSE "EndObject", "")>>
    <2>1. PICK h : Endings(parts, kind, inner, 0, h) /\ Ending(f, inner, 0) = h[0]
      BY <1>2
    <2>2. 0 \in 0..0
      OBVIOUS
    <2>3. h[0] = <<Call(IF kind = "list" THEN "EndList" ELSE "EndObject", "")>>
      BY <2>1, <2>2, ZenonT(60) DEF Endings
    <2> QED
      BY <2>1, <2>3, ZenonT(60)
  <1>4. ASSUME NEW n \in Nat
        PROVE  Ending(f, inner, n + 1) = PartCalls(parts, kind, inner, Len(parts) - n) \o Ending(f, inner, n)
    <2>1. PICK g : Endings(parts, kind, inner, n, g) /\ Ending(f, inner, n) = g[n]
      BY <1>2
    <2>2. n + 1 \in Nat
      OBVIOUS
    <2>3. PICK h : Endings(parts, kind, inner, n + 1, h) /\ Ending(f, inner, n + 1) = h[n + 1]
      BY <1>2, <2>2
    <2>4. g[n] = h[n]
      BY <2>1, <2>2, <2>3, EndingsAgree
    <2>5. n + 1 \in 0..(n + 1) /\ n + 1 # 0 /\ (n + 1) - 1 = n
      OBVIOUS
    <2>6. h[n + 1] = PartCalls(parts, kind, inner, Len(parts) - (n + 1) + 1) \o h[n]
      BY <2>3, <2>5, Zenon DEF Endings, PartCalls
    <2>7. Len(parts) - (n + 1) + 1 = Len(parts) - n
      BY <1>0
    <2> QED
      BY <2>1, <2>3, <2>4, <2>6, <2>7
  <1> QED
    BY <1>1, <1>3, <1>4, ZenonT(60) DEF parts, kind

----------------------------------------------------------------------------
(* What a document depends on. *)

\* What a record writes in, and what of it, by its parts and its variant.
AssembledOf(parts, kind, inner) ==
  [calls |-> <<Call(IF kind = "list" THEN "BeginList" ELSE "BeginObject", "")>>
               \o EndingOf(parts, kind, inner, Len(parts)),
   tree  |-> IF kind = "list" THEN List([k \in DOMAIN inner |-> inner[k].tree])
             ELSE Object([k \in DOMAIN inner |-> Member(parts[k].label.part, inner[k].tree)])]

LabelledOf(tag, name, variant) ==
  [calls |-> <<Call("BeginObject", ""), Call("FieldName", tag), Call("Text", name)>>
               \o Tail(variant.calls),
   tree  |-> Object(<<Member(tag, Text(name))>> \o variant.tree.members)]

\* The tag of a tagged union, as it is spelled.
TagOf(f) == Spell[input.strategy][Shape[f.shape].tag]

\* Documents by their parts.
LEMMA DocumentsOf ==
  ASSUME NEW f
  PROVE  /\ \A inner, n : Ending(f, inner, n) = EndingOf(Parts(f), Kind(f), inner, n)
         /\ \A inner : Assembled(f, inner) = AssembledOf(Parts(f), Kind(f), inner)
         /\ \A d : Labelled(f, d) = LabelledOf(TagOf(f), Chosen(f), d)
  <1>1. \A inner, n : Ending(f, inner, n) = EndingOf(Parts(f), Kind(f), inner, n)
    BY DEF Ending, EndingOf, Endings
  <1>2. \A inner : Assembled(f, inner) = AssembledOf(Parts(f), Kind(f), inner)
    BY <1>1, ZenonT(60) DEF Assembled, AssembledOf
  <1>3. VariantPart(f).label.part = Chosen(f)
    BY PartHas DEF VariantPart, Chosen
  <1>4. \A d : Labelled(f, d) = LabelledOf(TagOf(f), Chosen(f), d)
    BY <1>3 DEF Labelled, LabelledOf, TagOf
  <1> QED
    BY <1>1, <1>2, <1>4

\* Records of one schema and value have the same document.
LEMMA DocumentsAlike ==
  ASSUME NEW f, NEW g, g.shape = f.shape, g.value = f.value
  PROVE  /\ Parts(g) = Parts(f) /\ Kind(g) = Kind(f) /\ (Matched(g) <=> Matched(f))
         /\ \A d : Inner(d, g) = Inner(d, f)
         /\ \A inner : Assembled(g, inner) = Assembled(f, inner)
         /\ \A d : Labelled(g, d) = Labelled(f, d)
         /\ Leaf(g) = Leaf(f)
         /\ \A inner, n : Ending(g, inner, n) = Ending(f, inner, n)
  <1>1. Parts(g) = Parts(f) /\ Kind(g) = Kind(f)
    BY PartsAlike
  <1>2. Matched(g) <=> Matched(f)
    BY <1>1 DEF Matched
  <1>3. \A d : Inner(d, g) = Inner(d, f)
    BY <1>1 DEF Inner
  <1>4. TagOf(g) = TagOf(f) /\ Chosen(g) = Chosen(f)
    BY DEF TagOf, Chosen
  <1>5. Leaf(g) = Leaf(f)
    BY <1>1 DEF Leaf
  <1>6. \A inner : Assembled(g, inner) = Assembled(f, inner)
    BY <1>1, DocumentsOf
  <1>7. \A d : Labelled(g, d) = Labelled(f, d)
    BY <1>4, DocumentsOf
  <1>8. \A inner, n : Ending(g, inner, n) = Ending(f, inner, n)
    BY <1>1, DocumentsOf
  <1> QED
    BY <1>1, <1>2, <1>3, <1>5, <1>6, <1>7, <1>8

\* What makes a document depends on the encoding only by its strategy.
LEMMA MakesStays ==
  ASSUME input' = input, NEW g, NEW p
  PROVE  Makes(g, p)' = Makes(g, p)
  <1> DEFINE f == Frame(p[1], p[2])
  <1>1. Parts(f)' = Parts(f)
    BY PartsStay
  <1>2. Kind(f)' = Kind(f) /\ (Matched(f)' <=> Matched(f))
    BY DEF Kind, Matched
  <1>3. Inner(g, f)' = Inner(g, f)
    BY <1>1 DEF Inner
  <1>4. \A inner : Assembled(f, inner)' = Assembled(f, inner)
    <2> TAKE inner
    <2>1. Assembled(f, inner)' = AssembledOf(Parts(f)', Kind(f), inner)
      BY DEF Assembled, AssembledOf, Ending, EndingOf, Endings, Kind
    <2> QED
      BY <1>1, <2>1, DocumentsOf
  <1>5. \A d : Labelled(f, d)' = Labelled(f, d)
    BY DEF Labelled, VariantPart
  <1>6. Leaf(f)' = Leaf(f)
    BY DEF Leaf, Kind
  <1> HIDE DEF f
  <1> QED
    BY <1>2, <1>3, <1>4, <1>5, <1>6 DEF Makes, f

\* So a value's document is the same throughout an encode.
LEMMA DocumentStays ==
  ASSUME input' = input
  PROVE  Document' = Document
  <1>1. Document = [p \in Writable |-> Makes(Document, p)]
    BY DocumentIs
  <1>2. (Document = [p \in Writable |-> Makes(Document, p)])'
    BY DocumentIs, PTL
  <1>3. PICK d : d = Document'
    OBVIOUS
  <1>4. d = [p \in Writable |-> Makes(d, p)]
    <2>1. \A p : Makes(Document, p)' = Makes(d, p)
      BY <1>3, MakesStays
    <2> QED
      BY <1>2, <1>3, <2>1
  <1>5. \A k \in Nat : MakesTo(d, k) /\ MakesTo(Document, k)
    BY <1>1, <1>4 DEF MakesTo
  <1>6. \A p \in Writable : d[p] = Document[p]
    <2> TAKE p \in Writable
    <2>1. Height[p] \in Nat /\ Height[p] + 1 \in Nat /\ Height[p] < Height[p] + 1
      BY HeightAssumption
    <2> QED
      BY <1>5, <2>1, MakesAgree
  <1>7. \A p \in Writable : Makes(d, p) = Makes(Document, p)
    BY <1>1, <1>4, <1>6
  <1> QED
    BY <1>1, <1>3, <1>4, <1>7

\* A variant's document, under its tag.
LEMMA LabelledIs ==
  \A tag, name, d :
    /\ LabelledOf(tag, name, d).calls =
         <<Call("BeginObject", ""), Call("FieldName", tag), Call("Text", name)>> \o Tail(d.calls)
    /\ LabelledOf(tag, name, d).tree = Object(<<Member(tag, Text(name))>> \o d.tree.members)
  BY ZenonT(60) DEF LabelledOf

\* The calls that begin and end a container, and name a member.
BeginOf(kind) == Call(IF kind = "list" THEN "BeginList" ELSE "BeginObject", "")
EndOf(kind) == Call(IF kind = "list" THEN "EndList" ELSE "EndObject", "")
NameOf(name) == Call("FieldName", name)

\* The tree of a container with these in it.
TreeMade(parts, kind, inner) ==
  IF kind = "list" THEN List([k \in DOMAIN inner |-> inner[k].tree])
  ELSE Object([k \in DOMAIN inner |-> Member(parts[k].label.part, inner[k].tree)])

\* A container's document.
LEMMA AssembledIs ==
  ASSUME NEW parts, NEW kind, NEW inner
  PROVE  /\ AssembledOf(parts, kind, inner).calls =
              <<BeginOf(kind)>> \o EndingOf(parts, kind, inner, Len(parts))
         /\ AssembledOf(parts, kind, inner).tree = TreeMade(parts, kind, inner)
  BY ZenonT(60) DEF AssembledOf, BeginOf, TreeMade

\* And a leaf's.
LEMMA LeafIs ==
  ASSUME NEW f
  PROVE  \E call : /\ call = IF Kind(f) = "nullable" THEN Call("Null", "")
                             ELSE Call(ScalarOp[Kind(f)], f.value)
                   /\ Leaf(f).calls = <<call>> /\ Leaf(f).tree = ScalarTree(call)
  BY ZenonT(60) DEF Leaf

----------------------------------------------------------------------------
(* Documents are calls in sequence. *)

\* What holds of a value when it does of all it is made of holds of every value.
LEMMA HeightInduction ==
  ASSUME NEW S, \A p \in Writable : MadeOf(p) \subseteq S => p \in S
  PROVE  Writable \subseteq S
  <1> DEFINE N == {d \in Nat : \A p \in Writable : Height[p] < d => p \in S}
  <1>1. 0 \in N
    BY HeightAssumption
  <1>2. ASSUME NEW d \in Nat, d \in N PROVE d + 1 \in N
    <2> SUFFICES ASSUME NEW p \in Writable, Height[p] < d + 1 PROVE p \in S
      OBVIOUS
    <2>1. ASSUME NEW q \in MadeOf(p) PROVE q \in S
      <3>1. q \in Writable /\ Height[q] < Height[p] /\ Height[q] \in Nat /\ Height[p] \in Nat
        BY HeightAssumption
      <3>2. Height[q] < d
        BY <3>1
      <3> QED
        BY <1>2, <3>1, <3>2
    <2> QED
      BY <2>1
  <1>3. Nat \subseteq N
    BY <1>1, <1>2, SetInduction
  <1> SUFFICES ASSUME NEW p \in Writable PROVE p \in S
    OBVIOUS
  <1>4. Height[p] + 1 \in N /\ Height[p] < Height[p] + 1
    BY <1>3, HeightAssumption
  <1> QED
    BY <1>4

\* The calls for a container's last parts are a sequence.
LEMMA EndingIsSeq ==
  ASSUME NEW f, NEW inner, Len(Parts(f)) \in Nat,
         \A k \in 1..Len(Parts(f)) : IsSeq(inner[k].calls),
         NEW n \in Nat, n <= Len(Parts(f))
  PROVE  IsSeq(Ending(f, inner, n))
  <1> DEFINE m == Len(Parts(f))
             N == {i \in Nat : i <= m => IsSeq(Ending(f, inner, i))}
  <1>1. 0 \in N
    <2>1. \A e : IsSeq(<<e>>)
      BY SeqOne, ZenonT(60)
    <2>2. IsSeq(Ending(f, inner, 0))
      BY <2>1, EndingIs, ZenonT(60)
    <2> QED
      BY <2>2
  <1>2. ASSUME NEW i \in Nat, i \in N PROVE i + 1 \in N
    <2> SUFFICES ASSUME i + 1 <= m PROVE IsSeq(Ending(f, inner, i + 1))
      OBVIOUS
    <2>1. IsSeq(Ending(f, inner, i)) /\ m - i \in 1..m
      BY <1>2
    <2>2. IsSeq(inner[m - i].calls)
      BY <2>1
    <2> DEFINE name == IF Kind(f) = "list" THEN <<>> ELSE <<Call("FieldName", Parts(f)[m - i].label.part)>>
    <2>3. IsSeq(name)
      BY SeqEmpty, SeqOne
    <2>4. PartCalls(Parts(f), Kind(f), inner, m - i) = name \o inner[m - i].calls
      BY DEF PartCalls
    <2> DEFINE calls == inner[m - i].calls
    <2> HIDE DEF name, calls
    <2>5. IsSeq(name \o calls)
      BY <2>2, <2>3, SeqConcat DEF calls
    <2>7. IsSeq(PartCalls(Parts(f), Kind(f), inner, m - i))
      BY <2>4, <2>5 DEF calls
    <2>6. Ending(f, inner, i + 1) = PartCalls(Parts(f), Kind(f), inner, m - i) \o Ending(f, inner, i)
      BY EndingIs, ZenonT(60)
    <2> QED
      BY <2>1, <2>6, <2>7, SeqConcat
  <1>3. Nat \subseteq N
    BY <1>1, <1>2, SetInduction
  <1> QED
    BY <1>3

\* What a container's record, or a tagged union's, writes in it.
LEMMA InnerIs ==
  ASSUME NEW p \in Writable, NEW f, f = Frame(p[1], p[2]),
         Kind(f) \in Containers \cup {"tagged"}, Matched(f), NEW d
  PROVE  /\ Len(Parts(f)) \in Nat /\ DOMAIN Inner(d, f) = 1..Len(Parts(f))
         /\ IsSeq(Inner(d, f)) /\ Len(Inner(d, f)) = Len(Parts(f))
         /\ \A k \in 1..Len(Parts(f)) :
              /\ Inner(d, f)[k] = d[<<Parts(f)[k].of, Parts(f)[k].value>>]
              /\ <<Parts(f)[k].of, Parts(f)[k].value>> \in MadeOf(p)
         /\ Kind(f) = "tagged" => Len(Parts(f)) = 1 /\ Parts(f)[1] = VariantPart(f)
  <1> DEFINE m == Len(Parts(f))
             inner == Inner(d, f)
  <1>1. /\ IsSeq(Parts(f))
        /\ \A k \in 1..m : <<Parts(f)[k].of, Parts(f)[k].value>> \in MadeOf(p)
        /\ Kind(f) = "tagged" => m = 1 /\ Parts(f)[1] = VariantPart(f)
    BY PartsMade
  <1>2. m \in Nat /\ DOMAIN Parts(f) = 1..m
    BY <1>1, SeqFacts
  <1> HIDE DEF m
  <1>3. inner = [k \in 1..m |-> d[<<Parts(f)[k].of, Parts(f)[k].value>>]]
    BY <1>2 DEF Inner
  <1> HIDE DEF inner
  <1>4. /\ DOMAIN inner = 1..m /\ inner = [k \in 1..m |-> inner[k]]
        /\ \A k \in 1..m : inner[k] = d[<<Parts(f)[k].of, Parts(f)[k].value>>]
    BY <1>3
  <1>5. IsSeq(inner) /\ Len(inner) = m
    BY <1>2, <1>4, SeqMake
  <1> QED
    BY <1>1, <1>2, <1>4, <1>5 DEF m, inner

\* The calls of any value are a sequence, and there are some.
LEMMA CallsAreSeq ==
  \A p \in Writable : IsSeq(Document[p].calls) /\ Document[p].calls # <<>>
  <1> DEFINE S == {p \in Writable : IsSeq(Document[p].calls) /\ Document[p].calls # <<>>}
  <1>1. ASSUME NEW p \in Writable, MadeOf(p) \subseteq S
        PROVE  IsSeq(Document[p].calls) /\ Document[p].calls # <<>>
    <2> DEFINE f == Frame(p[1], p[2])
               inner == Inner(Document, f)
    <2>1. f.shape = p[1] /\ f.value = p[2] /\ Kind(f) = Shape[p[1]].kind
      BY WritableIs
    <2>2. Document[p] = Makes(Document, p)
      BY DocumentIs
    <2>3. \A q \in MadeOf(p) : IsSeq(Document[q].calls) /\ Document[q].calls # <<>>
      BY <1>1
    <2>4. \A e, s : IsSeq(s) => IsSeq(<<e>> \o s) /\ <<e>> \o s # <<>>
      BY SeqTail
    <2>5. ASSUME Kind(f) \in Containers \cup {"tagged"}, Matched(f)
          PROVE  /\ Len(Parts(f)) \in Nat
                 /\ Kind(f) = "tagged" => Len(Parts(f)) = 1
                 /\ \A k \in 1..Len(Parts(f)) : IsSeq(inner[k].calls) /\ inner[k].calls # <<>>
      <3>1. /\ Len(Parts(f)) \in Nat
            /\ Kind(f) = "tagged" => Len(Parts(f)) = 1
            /\ \A k \in 1..Len(Parts(f)) :
                 /\ inner[k] = Document[<<Parts(f)[k].of, Parts(f)[k].value>>]
                 /\ <<Parts(f)[k].of, Parts(f)[k].value>> \in MadeOf(p)
        BY <2>5, InnerIs
      <3> HIDE DEF inner, f
      <3> QED
        BY <2>3, <3>1
    <2>6. CASE Kind(f) = "tagged" /\ Matched(f)
      <3>1. Document[p] = Labelled(f, inner[1])
        BY <2>2, <2>6 DEF Makes, Containers
      <3>2. IsSeq(inner[1].calls) /\ inner[1].calls # <<>>
        <4> HIDE DEF inner, f
        <4>1. 1 \in 1..Len(Parts(f))
          BY <2>5, <2>6, SMTT(60)
        <4> QED
          BY <2>5, <2>6, <4>1
      <3> DEFINE rest == Tail(inner[1].calls)
                 a == Call("BeginObject", "")
                 b == Call("FieldName", TagOf(f))
                 c == Call("Text", Chosen(f))
      <3>3. IsSeq(rest)
        <4>1. PICK T : inner[1].calls \in Seq(T)
          BY <3>2 DEF IsSeq
        <4>2. Tail(inner[1].calls) \in Seq(T)
          BY <3>2, <4>1, HeadTailProperties
        <4> QED
          BY <4>2 DEF IsSeq
      <3>4. Document[p].calls = <<a, b, c>> \o rest
        <4> DEFINE d == inner[1]
        <4>1. Document[p] = LabelledOf(TagOf(f), Chosen(f), d)
          BY <3>1, DocumentsOf
        <4> HIDE DEF f, d
        <4>2. LabelledOf(TagOf(f), Chosen(f), d).calls =
                <<Call("BeginObject", ""), Call("FieldName", TagOf(f)), Call("Text", Chosen(f))>> \o Tail(d.calls)
          BY LabelledIs, ZenonT(60)
        <4> QED
          BY <4>1, <4>2, Zenon DEF d
      <3>5. IsSeq(<<a, b, c>>) /\ Len(<<a, b, c>>) = 3
        <4>1. <<a, b, c>> \in Seq({a, b, c}) /\ Len(<<a, b, c>>) = 3
          OBVIOUS
        <4> QED
          BY <4>1, ZenonT(60) DEF IsSeq
      <3> DEFINE three == <<a, b, c>>
                 all == three \o rest
      <3> HIDE DEF rest, three
      <3>6. IsSeq(all) /\ Len(all) = 3 + Len(rest) /\ Len(rest) \in Nat
        BY <3>3, <3>5, SeqConcat, SeqFacts, ZenonT(60) DEF three
      <3> HIDE DEF all
      <3>7. all # <<>>
        BY <3>6, SeqFacts
      <3> QED
        BY <3>4, <3>6, <3>7, ZenonT(60) DEF all, three
    <2>7. CASE Kind(f) \in Containers /\ Matched(f)
      <3>1. Document[p] = Assembled(f, inner)
        BY <2>2, <2>7 DEF Makes, Containers
      <3>2. IsSeq(Ending(f, inner, Len(Parts(f))))
        BY <2>5, <2>7, EndingIsSeq
      <3>3. \E e : Document[p].calls = <<e>> \o Ending(f, inner, Len(Parts(f)))
        <4> HIDE DEF f, inner
        <4>1. Document[p] = AssembledOf(Parts(f), Kind(f), inner)
          BY <3>1, DocumentsOf
        <4>2. Ending(f, inner, Len(Parts(f))) = EndingOf(Parts(f), Kind(f), inner, Len(Parts(f)))
          BY DocumentsOf
        <4> QED
          BY <4>1, <4>2, AssembledIs, Zenon
      <3> QED
        BY <2>4, <3>2, <3>3, ZenonT(60)
    <2>8. CASE Kind(f) = "nullable" /\ f.value # <<>>
      <3>1. <<Shape[f.shape].of, f.value[1]>> \in MadeOf(p)
        BY <2>1, <2>8 DEF MadeOf
      <3>2. Document[p] = Document[<<Shape[f.shape].of, f.value[1]>>]
        BY <2>2, <2>8 DEF Makes, Containers
      <3> QED
        BY <2>3, <3>1, <3>2
    <2>9. CASE Kind(f) \in {"refined", "suspend"}
      <3>1. <<Shape[f.shape].of, f.value>> \in MadeOf(p)
        BY <2>1, <2>9 DEF MadeOf
      <3>2. Document[p] = Document[<<Shape[f.shape].of, f.value>>]
        BY <2>2, <2>9 DEF Makes, Containers
      <3> QED
        BY <2>3, <3>1, <3>2
    <2>10. CASE /\ ~(Kind(f) \in Containers \cup {"tagged"} /\ Matched(f))
                /\ ~(Kind(f) = "nullable" /\ f.value # <<>>)
                /\ Kind(f) \notin {"refined", "suspend"}
      <3>1. Document[p] = Leaf(f)
        BY <2>2, <2>10 DEF Makes, Containers
      <3>2. \E c : Document[p].calls = <<c>>
        BY <3>1, LeafIs, ZenonT(60)
      <3>3. \A c : <<c>> # <<>> /\ IsSeq(<<c>>)
        BY SeqOne, ZenonT(60)
      <3> QED
        BY <3>2, <3>3
    <2> QED
      BY <2>6, <2>7, <2>8, <2>9, <2>10
  <1>2. Writable \subseteq S
    BY <1>1, HeightInduction
  <1> QED
    BY <1>2

----------------------------------------------------------------------------
(* What is still to be written. *)

\* What a sink has been told: its tokens, or what is built of its tree.
Told(sk) == IF sk.kind = "json" THEN sk.out ELSE sk.build

\* And once a value is written to it.
Adds(told, d) == IF input.kind = "json" THEN told \o Tokens(d.calls) ELSE Put(told, d.tree)

\* What a container's tree has for its part k, and lacks when the first j of its
\* parts are in it.
TreeOf(f, inner, k) ==
  IF Kind(f) = "list" THEN inner[k].tree ELSE Member(Parts(f)[k].label.part, inner[k].tree)

Lacks(f, inner, j) == [k \in 1..(Len(Parts(f)) - j) |-> TreeOf(f, inner, j + k)]

\* What the sink has been told once the rest of a container is written.
Ends(told, f, inner, j) ==
  IF input.kind = "json" THEN told \o Tokens(Ending(f, inner, Len(Parts(f)) - j))
  ELSE End(More(told, Lacks(f, inner, j)))

\* What a record has to write, with the tag if it is a tagged union's variant.
Due(fr, i) ==
  LET d == Document[<<fr[i].shape, fr[i].value>>]
  IN  IF i > 1 /\ Kind(fr[i - 1]) = "tagged" THEN Labelled(fr[i - 1], d) ELSE d

\* What the sink has been told when record i returns, if it had been told that
\* when the record above it did.
Finish(fr, i, told) ==
  IF ~fr[i].begun THEN Adds(told, Due(fr, i))
  ELSE IF Kind(fr[i]) = "tagged" THEN told
  ELSE Ends(told, fr[i], Inner(Document, fr[i]), fr[i].at)

\* What the sink has been told when the encode returns.
Final ==
  Adds(IF input.kind = "json" THEN <<>> ELSE NothingBuilt, Document[<<input.shape, input.value>>])

\* As record after record returns, from m down, the sink comes to that.
Reaches(fr, m, told) ==
  \E w : /\ w[m] = told /\ w[0] = Final
         /\ \A i \in 1..m : w[i - 1] = Finish(fr, i, w[i])

\* The inductive invariant.
WrittenInv == failure = <<>> => Reaches(frames, Len(frames), Told(sink))

\* From one record to the next.
LEMMA ReachesNext ==
  ASSUME NEW fr, NEW m \in Nat, m # 0, NEW told
  PROVE  Reaches(fr, m, told) <=> Reaches(fr, m - 1, Finish(fr, m, told))
  <1>1. ASSUME Reaches(fr, m, told) PROVE Reaches(fr, m - 1, Finish(fr, m, told))
    <2>1. PICK w : w[m] = told /\ w[0] = Final /\ \A i \in 1..m : w[i - 1] = Finish(fr, i, w[i])
      BY <1>1 DEF Reaches
    <2>2. m \in 1..m /\ \A i \in 1..(m - 1) : i \in 1..m
      OBVIOUS
    <2> QED
      BY <2>1, <2>2 DEF Reaches
  <1>2. ASSUME Reaches(fr, m - 1, Finish(fr, m, told)) PROVE Reaches(fr, m, told)
    <2>1. PICK w : /\ w[m - 1] = Finish(fr, m, told) /\ w[0] = Final
                   /\ \A i \in 1..(m - 1) : w[i - 1] = Finish(fr, i, w[i])
      BY <1>2 DEF Reaches
    <2> DEFINE v == [i \in 0..m |-> IF i = m THEN told ELSE w[i]]
    <2>2. v[m] = told /\ \A i \in 0..(m - 1) : v[i] = w[i]
      OBVIOUS
    <2> HIDE DEF v
    <2>3. v[0] = Final
      BY <2>1, <2>2
    <2>4. ASSUME NEW i \in 1..m PROVE v[i - 1] = Finish(fr, i, v[i])
      <3>1. i - 1 \in 0..(m - 1)
        OBVIOUS
      <3>2. CASE i = m
        BY <2>1, <2>2, <3>1, <3>2
      <3>3. CASE i # m
        <4>1. i \in 1..(m - 1) /\ i \in 0..(m - 1)
          BY <3>3
        <4> QED
          BY <2>1, <2>2, <3>1, <4>1
      <3> QED
        BY <3>2, <3>3
    <2> QED
      BY <2>2, <2>3, <2>4 DEF Reaches
  <1> QED
    BY <1>1, <1>2

\* The records that are the same come to the same.
LEMMA ReachesAlike ==
  ASSUME NEW fr, NEW gr, NEW m \in Nat, Alike(fr, gr, m), NEW told
  PROVE  /\ Reaches(fr, m, told) => Reaches(gr, m, told)
         /\ \A i \in 1..m : Finish(gr, i, told) = Finish(fr, i, told)
  <1>1. ASSUME NEW i \in 1..m, NEW t PROVE Finish(gr, i, t) = Finish(fr, i, t)
    <2>1. gr[i] = fr[i]
      BY DEF Alike
    <2>2. i > 1 => gr[i - 1] = fr[i - 1]
      BY DEF Alike
    <2>3. Due(gr, i) = Due(fr, i)
      BY <2>1, <2>2 DEF Due
    <2> QED
      BY <2>1, <2>3 DEF Finish
  <1>2. ASSUME Reaches(fr, m, told) PROVE Reaches(gr, m, told)
    <2>1. PICK w : w[m] = told /\ w[0] = Final /\ \A i \in 1..m : w[i - 1] = Finish(fr, i, w[i])
      BY <1>2 DEF Reaches
    <2> QED
      BY <1>1, <2>1 DEF Reaches
  <1> QED
    BY <1>1, <1>2

\* With no record left, it has come to that.
LEMMA ReachesEnd == \A fr, told : Reaches(fr, 0, told) <=> told = Final
  <1>1. ASSUME NEW fr, NEW told, told = Final PROVE Reaches(fr, 0, told)
    <2> DEFINE w == [i \in {0} |-> told]
    <2>1. w[0] = told
      OBVIOUS
    <2> HIDE DEF w
    <2>2. \A i \in 1..0 : w[i - 1] = Finish(fr, i, w[i])
      OBVIOUS
    <2> QED
      BY <1>1, <2>1, <2>2 DEF Reaches
  <1>2. ASSUME NEW fr, NEW told, Reaches(fr, 0, told) PROVE told = Final
    BY <1>2 DEF Reaches
  <1> QED
    BY <1>1, <1>2

\* The top record returns, having written what it had to.
LEMMA ReachesBelow ==
  ASSUME NEW fr, Stacked(fr), fr # <<>>, NEW t, Reaches(fr, Len(fr), t),
         NEW gr, gr = Front(fr), NEW u, Finish(fr, Len(fr), t) = u
  PROVE  Reaches(gr, Len(gr), u)
  <1> DEFINE n == Len(fr)
  <1>1. n \in Nat /\ n # 0 /\ n - 1 \in Nat /\ Len(gr) = n - 1 /\ Alike(fr, gr, n - 1)
    BY FrontStack
  <1>2. Reaches(fr, n - 1, u)
    BY <1>1, ReachesNext
  <1> QED
    BY <1>1, <1>2, ReachesAlike

\* Another record stands in its place, with as much to write.
LEMMA ReachesIn ==
  ASSUME NEW fr, IsSeq(fr), fr # <<>>, NEW t, Reaches(fr, Len(fr), t),
         NEW gr, NEW b, Retopped(fr, gr, b), NEW u, Finish(fr, Len(fr), t) = Finish(gr, Len(fr), u)
  PROVE  Reaches(gr, Len(gr), u)
  <1> DEFINE n == Len(fr)
  <1>1. n \in Nat /\ n # 0 /\ n - 1 \in Nat /\ Len(gr) = n /\ Alike(fr, gr, n - 1)
    BY SeqFacts DEF Retopped
  <1>2. Reaches(fr, n - 1, Finish(fr, n, t))
    BY <1>1, ReachesNext
  <1>3. Reaches(gr, n - 1, Finish(gr, n, u))
    BY <1>1, <1>2, ReachesAlike
  <1> QED
    BY <1>1, <1>3, ReachesNext

\* And one more, with part of it.
LEMMA ReachesOver ==
  ASSUME NEW fr, IsSeq(fr), fr # <<>>, NEW t, Reaches(fr, Len(fr), t),
         NEW gr, NEW b, NEW g, Pushed(fr, gr, b, g), NEW u,
         Finish(fr, Len(fr), t) = Finish(gr, Len(fr), Finish(gr, Len(fr) + 1, u))
  PROVE  Reaches(gr, Len(gr), u)
  <1> DEFINE n == Len(fr)
  <1>1. /\ n \in Nat /\ n # 0 /\ n - 1 \in Nat /\ Len(gr) = n + 1 /\ Alike(fr, gr, n - 1)
        /\ n + 1 \in Nat /\ n + 1 # 0 /\ (n + 1) - 1 = n
    BY SeqFacts DEF Pushed
  <1>2. Reaches(fr, n - 1, Finish(fr, n, t))
    BY <1>1, ReachesNext
  <1>3. Reaches(gr, n - 1, Finish(gr, n, Finish(gr, n + 1, u)))
    BY <1>1, <1>2, ReachesAlike
  <1>4. Reaches(gr, n, Finish(gr, n + 1, u))
    BY <1>1, <1>3, ReachesNext
  <1> QED
    BY <1>1, <1>4, ReachesNext

----------------------------------------------------------------------------
(* What a record has to write. *)

\* A record's document, by its schema.
LEMMA DocumentOf ==
  ASSUME NEW f, f.shape \in DOMAIN Shape, f.value \in Values[f.shape], ~Refuses(f)
  PROVE  LET d == Document[<<f.shape, f.value>>]
             inner == Inner(Document, f)
         IN  /\ Kind(f) = "nullable" /\ f.value # <<>> =>
                  d = Document[<<Shape[f.shape].of, f.value[1]>>]
             /\ Kind(f) \in {"refined", "suspend"} => d = Document[<<Shape[f.shape].of, f.value>>]
             /\ Kind(f) = "tagged" =>
                  d = Labelled(f, Document[<<VariantPart(f).of, VariantPart(f).value>>])
             /\ Kind(f) \in Containers => d = Assembled(f, inner)
             /\ Kind(f) \in Scalars \/ (Kind(f) = "nullable" /\ f.value = <<>>) => d = Leaf(f)
  <1> DEFINE p == <<f.shape, f.value>>
             g == Frame(p[1], p[2])
             inner == Inner(Document, f)
  <1>1. p \in Writable /\ p[1] = f.shape /\ p[2] = f.value
    BY ValueWritable
  <1>2. g.shape = f.shape /\ g.value = f.value
    BY DEF Frame
  <1>3. Document[p] = Makes(Document, p)
    BY <1>1, DocumentIs
  <1>4. Matched(f)
    BY DEF Matched, Refuses
  <1> DEFINE M(x) == CASE Kind(x) = "nullable" /\ x.value # <<>>  -> Document[<<Shape[x.shape].of, x.value[1]>>]
                      [] Kind(x) \in {"refined", "suspend"}      -> Document[<<Shape[x.shape].of, x.value>>]
                      [] Kind(x) = "tagged" /\ Matched(x)        -> Labelled(x, Inner(Document, x)[1])
                      [] Kind(x) \in Containers /\ Matched(x)    -> Assembled(x, Inner(Document, x))
                      [] OTHER                                   -> Leaf(x)
  <1>5. Makes(Document, p) = M(g)
    BY DEF Makes
  <1>6. /\ Kind(g) = Kind(f) /\ (Matched(g) <=> Matched(f))
        /\ Inner(Document, g) = inner /\ Leaf(g) = Leaf(f)
        /\ Assembled(g, inner) = Assembled(f, inner)
        /\ Labelled(g, inner[1]) = Labelled(f, inner[1])
        /\ Parts(g) = Parts(f)
    BY <1>2, DocumentsAlike
  <1>7. Kind(f) = "tagged" => inner[1] = Document[<<VariantPart(f).of, VariantPart(f).value>>]
    <2> SUFFICES ASSUME Kind(f) = "tagged"
                 PROVE  inner[1] = Document[<<VariantPart(f).of, VariantPart(f).value>>]
      OBVIOUS
    <2>1. Parts(f) = <<VariantPart(f)>>
      BY DEF Parts
    <2>2. Len(Parts(f)) = 1 /\ Parts(f)[1] = VariantPart(f) /\ DOMAIN Parts(f) = 1..1
      BY <2>1, SeqOne, SeqFacts
    <2> QED
      BY <2>2 DEF Inner
  <1> HIDE DEF p, g, inner
  <1>8. M(g) = Document[p]
    BY <1>3, <1>5
  <1>9. Kind(f) = "nullable" /\ f.value # <<>> => Document[p] = Document[<<Shape[f.shape].of, f.value[1]>>]
    BY <1>2, <1>6, <1>8 DEF Containers
  <1>10. Kind(f) \in {"refined", "suspend"} => Document[p] = Document[<<Shape[f.shape].of, f.value>>]
    BY <1>2, <1>6, <1>8 DEF Containers
  <1>11. Kind(f) = "tagged" => Document[p] = Labelled(f, inner[1])
    BY <1>4, <1>6, <1>8 DEF Containers
  <1>12. Kind(f) \in Containers => Document[p] = Assembled(f, inner)
    BY <1>4, <1>6, <1>8 DEF Containers
  <1>13. Kind(f) \in Scalars \/ (Kind(f) = "nullable" /\ f.value = <<>>) => Document[p] = Leaf(f)
    BY <1>2, <1>6, <1>8 DEF Containers, Scalars
  <1> QED
    BY <1>7, <1>9, <1>10, <1>11, <1>12, <1>13 DEF p, inner

\* What a container's record writes in it.
LEMMA InnerOf ==
  ASSUME NEW f, f.shape \in DOMAIN Shape, f.value \in Values[f.shape], ~Refuses(f),
         Kind(f) \in Containers
  PROVE  LET inner == Inner(Document, f)
         IN  /\ Len(Parts(f)) \in Nat /\ DOMAIN inner = 1..Len(Parts(f))
             /\ IsSeq(inner) /\ Len(inner) = Len(Parts(f))
             /\ \A k \in 1..Len(Parts(f)) :
                  /\ inner[k] = Document[<<Parts(f)[k].of, Parts(f)[k].value>>]
                  /\ IsSeq(inner[k].calls)
  <1> DEFINE p == <<f.shape, f.value>>
             g == Frame(p[1], p[2])
             inner == Inner(Document, f)
             m == Len(Parts(f))
  <1>1. p \in Writable /\ g.shape = f.shape /\ g.value = f.value
    BY ValueWritable DEF Frame
  <1>2. Matched(g) /\ Kind(g) \in Containers \cup {"tagged"} /\ Parts(g) = Parts(f)
        /\ Inner(Document, g) = inner
    <2>1. Matched(f)
      BY DEF Matched, Refuses
    <2> QED
      BY <1>1, <2>1, DocumentsAlike
  <1> HIDE DEF p, inner
  <1>3. /\ m \in Nat /\ DOMAIN inner = 1..m /\ IsSeq(inner) /\ Len(inner) = m
        /\ \A k \in 1..m : /\ inner[k] = Document[<<Parts(f)[k].of, Parts(f)[k].value>>]
                           /\ <<Parts(f)[k].of, Parts(f)[k].value>> \in MadeOf(p)
    BY <1>1, <1>2, InnerIs
  <1>4. \A q \in MadeOf(p) : IsSeq(Document[q].calls)
    BY <1>1, HeightAssumption, CallsAreSeq
  <1>5. \A k \in 1..m : IsSeq(inner[k].calls)
    BY <1>3, <1>4
  <1> HIDE DEF m
  <1> QED
    BY <1>3, <1>5 DEF inner, m

----------------------------------------------------------------------------
(* What a call adds to what the sink has been told. *)

\* A jsonSink that takes a call has its token.
LEMMA JsonTold ==
  ASSUME NEW s, IsSink(s), s.kind = "json", s.err = "none",
         NEW call, SinkCall(s, call).err = "none"
  PROVE  Told(SinkCall(s, call)) = Append(s.out, JsonToken(call)) /\ SinkCall(s, call).kind = "json"
  <1> DEFINE token == JsonToken(call)
  <1>1. IsJsonSink(s)
    BY Openings
  <1>2. PICK o, e : s = [kind |-> "json", out |-> o, open |-> e, err |-> "none"]
    BY <1>1 DEF IsJsonSink
  <1>3. SinkCall(s, call) = WriteToken(s, token)
    BY DEF SinkCall
  <1> HIDE DEF token
  <1>4. /\ [s EXCEPT !.err = "misplaced"].err = "misplaced"
        /\ [s EXCEPT !.err = "duplicate"].err = "duplicate"
    BY <1>2
  <1>5. \E after : WriteToken(s, token) = Written(s, token, after)
    BY <1>3, <1>4, ZenonT(60) DEF WriteToken, Written
  <1>6. \A after : Written(s, token, after).out = Append(s.out, token) /\ Written(s, token, after).kind = "json"
    BY <1>2 DEF Written
  <1> QED
    BY <1>3, <1>5, <1>6 DEF Told, token

\* A dynamicSink that does has built on.
LEMMA DynamicTold ==
  ASSUME NEW s, IsSink(s), s.kind = "dynamic", s.err = "none",
         NEW op, NEW v, SinkCall(s, Call(op, v)).err = "none"
  PROVE  LET t == SinkCall(s, Call(op, v))
         IN  /\ t.kind = "dynamic"
             /\ op = "BeginObject" => Told(t) = Begin(s.build, "Object")
             /\ op = "BeginList" => Told(t) = Begin(s.build, "List")
             /\ op = "FieldName" => Told(t) = Name(s.build, v)
             /\ op \in {"EndObject", "EndList"} => Told(t) = End(s.build)
             /\ op \in ScalarCalls \cup {"Null"} => Told(t) = Put(s.build, ScalarTree(Call(op, v)))
  <1> DEFINE call == Call(op, v)
             t == SinkCall(s, call)
  <1>1. IsDynamicSink(s)
    BY Openings
  <1>2. PICK b : s = [kind |-> "dynamic", build |-> b, err |-> "none"]
    BY <1>1 DEF IsDynamicSink
  <1>3. t = DynamicCall(s, call)
    BY DEF SinkCall
  <1>4. call.op = op /\ call.v = v
    BY DEF Call
  <1> HIDE DEF call
  <1> DEFINE after == CASE op = "BeginObject"           -> Begin(s.build, "Object")
                        [] op = "BeginList"             -> Begin(s.build, "List")
                        [] op = "FieldName"             -> Name(s.build, v)
                        [] op \in {"EndObject", "EndList"} -> End(s.build)
                        [] OTHER                        -> Put(s.build, ScalarTree(call))
  <1>5. t = [s EXCEPT !.err = "misplaced"] \/ t = [s EXCEPT !.build = after]
    BY <1>3, <1>4 DEF DynamicCall
  <1>6. [s EXCEPT !.err = "misplaced"].err = "misplaced"
    BY <1>2
  <1> HIDE DEF t, after
  <1>7. t = [s EXCEPT !.build = after]
    BY <1>5, <1>6 DEF t, call
  <1>8. t.kind = "dynamic" /\ t.build = after
    BY <1>2, <1>7
  <1>9. Told(t) = after
    BY <1>8 DEF Told
  <1>10. /\ op = "BeginObject" => after = Begin(s.build, "Object")
         /\ op = "BeginList" => after = Begin(s.build, "List")
         /\ op = "FieldName" => after = Name(s.build, v)
         /\ op \in {"EndObject", "EndList"} => after = End(s.build)
         /\ op \in ScalarCalls \cup {"Null"} => after = Put(s.build, ScalarTree(call))
    BY DEF after, ScalarCalls
  <1> QED
    BY <1>8, <1>9, <1>10 DEF t, call

----------------------------------------------------------------------------
(* What is written, and what that leaves. *)

\* The m - j trees that are lacking after the first j of m.
AreLacking(l, f, inner, m, j) ==
  /\ IsSeq(l) /\ Len(l) = m - j
  /\ \A k \in 1..(m - j) : l[k] = TreeOf(f, inner, j + k)

\* What a container lacks.
LEMMA LacksAre ==
  ASSUME NEW f, NEW inner, NEW m \in Nat, m = Len(Parts(f)), NEW j \in Nat, j <= m
  PROVE  AreLacking(Lacks(f, inner, j), f, inner, m, j)
  <1> DEFINE l == Lacks(f, inner, j)
             n == m - j
  <1>1. l = [k \in 1..n |-> TreeOf(f, inner, j + k)] /\ n \in Nat
    BY DEF Lacks
  <1> HIDE DEF l, n
  <1>2. DOMAIN l = 1..n /\ l = [k \in 1..n |-> l[k]] /\ \A k \in 1..n : l[k] = TreeOf(f, inner, j + k)
    BY <1>1
  <1>3. IsSeq(l) /\ Len(l) = n
    BY <1>1, <1>2, SeqMake
  <1> QED
    BY <1>2, <1>3 DEF AreLacking, l, n

\* It lacks the next part, and then the others, and in the end nothing.
LEMMA LacksNext ==
  ASSUME NEW f, NEW inner, NEW m \in Nat, m = Len(Parts(f))
  PROVE  /\ \A j \in Nat : j < m =>
              Lacks(f, inner, j) = <<TreeOf(f, inner, j + 1)>> \o Lacks(f, inner, j + 1)
         /\ Lacks(f, inner, m) = <<>>
  <1>0. \A j \in Nat : j <= m => AreLacking(Lacks(f, inner, j), f, inner, m, j)
    BY LacksAre
  <1>1. ASSUME NEW j \in Nat, j < m
        PROVE  Lacks(f, inner, j) = <<TreeOf(f, inner, j + 1)>> \o Lacks(f, inner, j + 1)
    <2>1. PICK i : i = j + 1
      OBVIOUS
    <2>2. j <= m /\ i <= m /\ i \in Nat /\ m - j \in Nat /\ m - i \in Nat
      BY <1>1, <2>1
    <2> DEFINE l == Lacks(f, inner, j)
               r == Lacks(f, inner, i)
               x == TreeOf(f, inner, i)
    <2>3. IsSeq(l) /\ Len(l) = m - j /\ \A k \in 1..(m - j) : l[k] = TreeOf(f, inner, j + k)
      BY <1>0, <2>2 DEF AreLacking
    <2>4. IsSeq(r) /\ Len(r) = m - i /\ \A k \in 1..(m - i) : r[k] = TreeOf(f, inner, i + k)
      BY <1>0, <2>2 DEF AreLacking
    <2> HIDE DEF l, r, x
    <2> DEFINE c == <<x>> \o r
    <2>5. IsSeq(<<x>>) /\ Len(<<x>>) = 1 /\ <<x>>[1] = x
      BY SeqOne
    <2>6. /\ IsSeq(c) /\ Len(c) = 1 + (m - i)
          /\ \A k \in 1..(1 + (m - i)) : c[k] = IF k <= 1 THEN <<x>>[k] ELSE r[k - 1]
      BY <2>4, <2>5, SeqConcat
    <2> HIDE DEF c
    <2>7. ASSUME NEW k \in 1..(m - j) PROVE l[k] = c[k]
      <3>1. CASE k = 1
        <4>1. j + k = i /\ 1 \in 1..(m - j) /\ 1 \in 1..(1 + (m - i))
          BY <2>1, <2>2, <3>1
        <4>2. l[1] = x
          BY <2>3, <3>1, <4>1 DEF x
        <4>3. c[1] = x
          BY <2>5, <2>6, <4>1
        <4> QED
          BY <3>1, <4>2, <4>3
      <3>2. CASE k # 1
        <4>1. /\ k - 1 \in 1..(m - i) /\ ~(k <= 1) /\ k \in 1..(1 + (m - i))
              /\ i + (k - 1) = j + k
          BY <2>1, <2>2, <3>2
        <4> QED
          BY <2>3, <2>4, <2>6, <4>1
      <3> QED
        BY <3>1, <3>2
    <2>8. Len(c) = m - j
      BY <2>1, <2>2, <2>6
    <2>9. l = c
      BY <2>3, <2>6, <2>7, <2>8, SeqSame
    <2> QED
      BY <2>1, <2>9 DEF l, r, x, c
  <1>2. Lacks(f, inner, m) = <<>>
    <2>1. IsSeq(Lacks(f, inner, m)) /\ Len(Lacks(f, inner, m)) = m - m
      BY <1>0 DEF AreLacking
    <2> QED
      BY <2>1, SeqFacts
  <1> QED
    BY <1>1, <1>2

\* A container's tree is of all it lacked.
LEMMA AssembledLacks ==
  ASSUME NEW f, NEW inner, DOMAIN inner = 1..Len(Parts(f)), Len(Parts(f)) \in Nat
  PROVE  Assembled(f, inner).tree = Closed(IF Kind(f) = "list" THEN "List" ELSE "Object", Lacks(f, inner, 0))
  <1> DEFINE m == Len(Parts(f))
  <1>1. Assembled(f, inner) = AssembledOf(Parts(f), Kind(f), inner)
    BY DocumentsOf
  <1>2. Assembled(f, inner).tree = TreeMade(Parts(f), Kind(f), inner)
    BY <1>1, AssembledIs, Zenon
  <1>3. Lacks(f, inner, 0) = [k \in 1..m |-> TreeOf(f, inner, k)]
    <2>1. m - 0 = m /\ \A k \in 1..m : 0 + k = k
      OBVIOUS
    <2> QED
      BY <2>1 DEF Lacks
  <1>4. CASE Kind(f) = "list"
    <2>1. Lacks(f, inner, 0) = [k \in DOMAIN inner |-> inner[k].tree]
      BY <1>3, <1>4 DEF TreeOf
    <2> QED
      BY <1>2, <1>4, <2>1 DEF Closed, TreeMade
  <1>5. CASE Kind(f) # "list"
    <2>1. Lacks(f, inner, 0) = [k \in DOMAIN inner |-> Member(Parts(f)[k].label.part, inner[k].tree)]
      BY <1>3, <1>5 DEF TreeOf
    <2> QED
      BY <1>2, <1>5, <2>1 DEF Closed, TreeMade
  <1> QED
    BY <1>4, <1>5

\* A container's calls, by those.
LEMMA ContainerCalls ==
  ASSUME NEW f, NEW inner, Len(Parts(f)) \in Nat
  PROVE  /\ Ending(f, inner, 0) = <<EndOf(Kind(f))>>
         /\ Assembled(f, inner).calls = <<BeginOf(Kind(f))>> \o Ending(f, inner, Len(Parts(f)))
  <1>1. Ending(f, inner, 0) = <<EndOf(Kind(f))>>
    BY EndingIs, ZenonT(60) DEF EndOf
  <1>2. Assembled(f, inner) = AssembledOf(Parts(f), Kind(f), inner)
    BY DocumentsOf
  <1>3. Ending(f, inner, Len(Parts(f))) = EndingOf(Parts(f), Kind(f), inner, Len(Parts(f)))
    BY DocumentsOf
  <1>4. Assembled(f, inner).calls = <<BeginOf(Kind(f))>> \o Ending(f, inner, Len(Parts(f)))
    BY <1>2, <1>3, AssembledIs, Zenon
  <1> QED
    BY <1>1, <1>4

\* A dynamicSink that begins and ends one, or names a member.
LEMMA ContainerBuilds ==
  ASSUME NEW s, IsSink(s), s.kind = "dynamic", s.err = "none"
  PROVE  /\ \A kind : SinkCall(s, BeginOf(kind)).err = "none" =>
              Told(SinkCall(s, BeginOf(kind))) = Begin(s.build, IF kind = "list" THEN "List" ELSE "Object")
         /\ \A kind : SinkCall(s, EndOf(kind)).err = "none" => Told(SinkCall(s, EndOf(kind))) = End(s.build)
         /\ \A name : SinkCall(s, NameOf(name)).err = "none" =>
              Told(SinkCall(s, NameOf(name))) = Name(s.build, name)
  <1>1. ASSUME NEW kind, SinkCall(s, BeginOf(kind)).err = "none"
        PROVE  Told(SinkCall(s, BeginOf(kind))) = Begin(s.build, IF kind = "list" THEN "List" ELSE "Object")
    BY <1>1, DynamicTold, ZenonT(60) DEF BeginOf
  <1>2. ASSUME NEW kind, SinkCall(s, EndOf(kind)).err = "none"
        PROVE  Told(SinkCall(s, EndOf(kind))) = End(s.build)
    BY <1>2, DynamicTold, ZenonT(60) DEF EndOf
  <1>3. ASSUME NEW name, SinkCall(s, NameOf(name)).err = "none"
        PROVE  Told(SinkCall(s, NameOf(name))) = Name(s.build, name)
    BY <1>3, DynamicTold DEF NameOf
  <1> QED
    BY <1>1, <1>2, <1>3

\* A sink that takes calls, of the encoding's kind.
Taking(sk) == IsSink(sk) /\ sk.kind = input.kind /\ sk.err = "none"

\* A record of a container that is under way.
IsContainer(f) ==
  /\ f.shape \in DOMAIN Shape /\ f.value \in Values[f.shape]
  /\ ~Refuses(f) /\ Kind(f) \in Containers

\* What a sink has been told is a sequence, or a tree under construction.
LEMMA ToldIs ==
  ASSUME NEW sk, Taking(sk)
  PROVE  /\ input.kind = "json" => Told(sk) = sk.out /\ IsSeq(Told(sk)) /\ IsJsonSink(sk)
         /\ input.kind # "json" => /\ input.kind = "dynamic" /\ Told(sk) = sk.build /\ IsBuild(Told(sk))
                                   /\ IsDynamicSink(sk)
  <1>1. IsJsonSink(sk) => sk.kind = "json" /\ IsSeq(sk.out)
    BY DEF IsJsonSink
  <1>2. IsDynamicSink(sk) => sk.kind = "dynamic" /\ IsBuild(sk.build)
    BY BuildTopped DEF IsDynamicSink
  <1> QED
    BY <1>1, <1>2 DEF Taking, IsSink, Told

\* A document of one call.
IsLeaf(d, op, v) == d.calls = <<Call(op, v)>> /\ d.tree = ScalarTree(Call(op, v))

\* A leaf's one call is its document.
LEMMA LeafAdds ==
  ASSUME NEW sk, Taking(sk), NEW op \in ScalarCalls \cup {"Null"}, NEW v,
         NEW t, t = SinkCall(sk, Call(op, v)), t.err = "none",
         NEW d, IsLeaf(d, op, v)
  PROVE  Adds(Told(sk), d) = Told(t)
  <1>1. CASE input.kind = "json"
    <2>1. Told(t) = Append(sk.out, JsonToken(Call(op, v)))
      BY <1>1, JsonTold DEF Taking
    <2>2. Append(sk.out, JsonToken(Call(op, v))) = sk.out \o Tokens(<<Call(op, v)>>)
      BY <1>1, ToldIs, SeqEmpty, TokensNext
    <2> QED
      BY <1>1, <2>1, <2>2, ToldIs DEF Adds, IsLeaf
  <1>2. CASE input.kind # "json"
    <2>1. Told(t) = Put(sk.build, ScalarTree(Call(op, v)))
      BY <1>2, ToldIs, DynamicTold DEF Taking
    <2> QED
      BY <1>2, <2>1, ToldIs DEF Adds, IsLeaf
  <1> QED
    BY <1>1, <1>2

\* A container's end is what is left of it when all its parts are written.
LEMMA EndAdds ==
  ASSUME NEW sk, Taking(sk), NEW f, IsContainer(f),
         NEW t, t = SinkCall(sk, EndOf(Kind(f))), t.err = "none",
         OpenIn(sk) # <<>>
  PROVE  Ends(Told(sk), f, Inner(Document, f), Len(Parts(f))) = Told(t)
  <1> DEFINE inner == Inner(Document, f)
             m == Len(Parts(f))
             e == EndOf(Kind(f))
  <1>1. m \in Nat
    BY InnerOf DEF IsContainer
  <1>2. Ending(f, inner, 0) = <<e>> /\ Lacks(f, inner, m) = <<>>
    BY <1>1, ContainerCalls, LacksNext
  <1>3. Ends(Told(sk), f, inner, m) =
          IF input.kind = "json" THEN Told(sk) \o Tokens(Ending(f, inner, m - m))
          ELSE End(More(Told(sk), Lacks(f, inner, m)))
    BY DEF Ends
  <1> HIDE DEF inner, m, e
  <1>4. m - m = 0
    BY <1>1
  <1>5. CASE input.kind = "json"
    <2>1. Told(t) = Append(sk.out, JsonToken(e))
      BY <1>5, JsonTold DEF Taking, e
    <2>2. Append(sk.out, JsonToken(e)) = sk.out \o Tokens(<<e>>)
      BY <1>5, ToldIs, SeqEmpty, TokensNext
    <2>3. Ending(f, inner, m - m) = <<e>>
      BY <1>2, <1>4
    <2> QED
      BY <1>3, <1>5, <2>1, <2>2, <2>3, ToldIs DEF inner, m
  <1>6. CASE input.kind # "json"
    <2>1. Told(t) = End(sk.build)
      BY <1>6, ToldIs, ContainerBuilds DEF Taking, e
    <2>2. PICK b, is, field, parts : IsBuild(b) /\ IsSeq(parts) /\ sk.build = Topped(b, is, field, parts)
      BY <1>6, ToldIs, BuildTopped DEF OpenIn, Taking
    <2> DEFINE l == Lacks(f, inner, m)
    <2>3. parts \o l = parts
      BY <1>2, <2>2, SeqNothing
    <2> HIDE DEF l
    <2>4. More(Topped(b, is, field, parts), l) = Topped(b, is, field, parts \o l)
      BY <2>2, Toppings
    <2>5. More(sk.build, l) = sk.build
      BY <2>2, <2>3, <2>4
    <2> QED
      BY <1>3, <1>6, <2>1, <2>5, ToldIs DEF inner, m, l
  <1> QED
    BY <1>5, <1>6

\* The rest of a container, in a tree.
LEMMA EndsTopped ==
  ASSUME NEW b, IsBuild(b), NEW is, NEW field, NEW parts, NEW f, NEW inner, NEW j,
         input.kind # "json"
  PROVE  Ends(Topped(b, is, field, parts), f, inner, j)
           = Put(b, Closed(is, parts \o Lacks(f, inner, j)))
  <1> DEFINE t == Topped(b, is, field, parts)
             l == Lacks(f, inner, j)
             u == Topped(b, is, field, parts \o l)
  <1>1. Ends(t, f, inner, j) = End(More(t, l))
    BY DEF Ends
  <1> HIDE DEF l
  <1>2. More(t, l) = u
    BY Toppings
  <1>3. End(u) = Put(b, Closed(is, parts \o l))
    BY Toppings
  <1> HIDE DEF t, u
  <1> QED
    BY <1>1, <1>2, <1>3 DEF t, l

\* A part is what is left of its container, less what is left after it.
LEMMA PartAdds ==
  ASSUME NEW sk, Taking(sk), NEW f, IsContainer(f), NEW j \in Nat, j < Len(Parts(f)),
         NEW i, i = j + 1,
         NEW t, IF Kind(f) = "list" THEN t = sk
                ELSE t = SinkCall(sk, NameOf(Parts(f)[i].label.part)) /\ t.err = "none",
         OpenIn(sk) # <<>>, Last(OpenIn(sk)).is = IF Kind(f) = "list" THEN "List" ELSE "Object",
         NEW inner, inner = Inner(Document, f)
  PROVE  Ends(Told(sk), f, inner, j) = Ends(Adds(Told(t), inner[i]), f, inner, i)
  <1> DEFINE m == Len(Parts(f))
             n == m - i
             d == inner[i]
             name == Parts(f)[i].label.part
  <1>1. /\ m \in Nat /\ \A k \in 1..m : IsSeq(inner[k].calls)
    BY InnerOf DEF IsContainer
  <1> HIDE DEF m
  <1>2. n \in Nat /\ n <= m /\ m - j = n + 1 /\ m - n = i /\ i \in 1..m /\ i \in Nat /\ j < m
    BY <1>1 DEF m
  <1> HIDE DEF n
  <1>3. IsSeq(d.calls)
    BY <1>1, <1>2
  <1>4. CASE input.kind = "json"
    <2> DEFINE rest == Ending(f, inner, n)
               out == sk.out
               calls == d.calls
    <2>1. IsSeq(rest)
      BY <1>1, <1>2, EndingIsSeq DEF m
    <2>2. Told(sk) = out /\ IsSeq(out)
      BY <1>4, ToldIs
    <2>3. Ends(Told(sk), f, inner, j) = out \o Tokens(PartCalls(Parts(f), Kind(f), inner, i) \o rest)
      <3>1. Ending(f, inner, n + 1) = PartCalls(Parts(f), Kind(f), inner, m - n) \o rest
        BY <1>1, <1>2, EndingIs, ZenonT(60) DEF m
      <3>2. Ending(f, inner, m - j) = PartCalls(Parts(f), Kind(f), inner, i) \o rest
        BY <1>2, <3>1
      <3>3. Ends(out, f, inner, j) = out \o Tokens(Ending(f, inner, m - j))
        BY <1>4, Zenon DEF Ends, m
      <3> QED
        BY <2>2, <3>2, <3>3
    <2>4. ASSUME NEW told PROVE Ends(Adds(told, d), f, inner, i) = (told \o Tokens(calls)) \o Tokens(rest)
      BY <1>4, Zenon DEF Ends, Adds, m, n
    <2> HIDE DEF rest, out, calls, d, name
    <2>5. IsSeq(calls)
      BY <1>3 DEF calls
    <2>6. CASE Kind(f) = "list"
      <3>1. PartCalls(Parts(f), Kind(f), inner, i) = calls
        BY <2>5, <2>6, SeqNothing DEF PartCalls, calls, d
      <3>2. (out \o Tokens(calls)) \o Tokens(rest) = out \o Tokens(calls \o rest)
        BY <2>1, <2>2, <2>5, TokensMore
      <3> QED
        BY <2>2, <2>3, <2>4, <2>6, <3>1, <3>2 DEF d
    <2>7. CASE Kind(f) # "list"
      <3> DEFINE e == NameOf(name)
      <3>1. PartCalls(Parts(f), Kind(f), inner, i) = <<e>> \o calls
        BY <2>7 DEF PartCalls, calls, d, NameOf, name
      <3>2. Told(t) = Append(out, JsonToken(e))
        BY <1>4, <2>7, JsonTold DEF Taking, name, out
      <3> HIDE DEF e
      <3>3. IsSeq(<<e>>) /\ IsSeq(calls \o rest)
        BY <2>1, <2>5, SeqOne, SeqConcat
      <3>4. (<<e>> \o calls) \o rest = <<e>> \o (calls \o rest)
        BY <2>1, <2>5, <3>3, SeqAssociates
      <3>5. Told(t) \o Tokens(calls \o rest) = out \o Tokens(<<e>> \o (calls \o rest))
        BY <2>2, <3>2, <3>3, TokensNext, SMTT(60)
      <3>6. IsSeq(Told(t))
        BY <2>2, <3>2, SeqAppend
      <3>7. (Told(t) \o Tokens(calls)) \o Tokens(rest) = Told(t) \o Tokens(calls \o rest)
        BY <2>1, <2>5, <3>6, TokensMore, SMTT(60)
      <3> QED
        BY <2>3, <2>4, <3>1, <3>4, <3>5, <3>7 DEF d
    <2> QED
      BY <2>6, <2>7
  <1>5. CASE input.kind # "json"
    <2> DEFINE is == IF Kind(f) = "list" THEN "List" ELSE "Object"
               x == TreeOf(f, inner, i)
               l == Lacks(f, inner, i)
    <2>1. PICK b, field, parts : IsBuild(b) /\ IsSeq(parts) /\ sk.build = Topped(b, is, field, parts)
      BY <1>5, ToldIs, BuildTopped DEF OpenIn, Taking
    <2>2. \E y : Told(t) = Topped(b, is, y, parts) /\ PartOf(is, y, d.tree) = x
      <3>1. CASE Kind(f) = "list"
        <4>1. Told(t) = Topped(b, is, field, parts)
          BY <1>5, <2>1, <3>1, ToldIs
        <4>2. PartOf(is, field, d.tree) = x
          BY <3>1 DEF PartOf, TreeOf
        <4> QED
          BY <4>1, <4>2
      <3>2. CASE Kind(f) # "list"
        <4>1. Told(t) = Name(sk.build, name)
          BY <1>5, <3>2, ToldIs, ContainerBuilds DEF Taking
        <4>2. PartOf(is, name, d.tree) = x
          BY <3>2 DEF PartOf, TreeOf
        <4> HIDE DEF name, is
        <4>3. Name(Topped(b, is, field, parts), name) = Topped(b, is, name, parts)
          BY <2>1, Toppings
        <4> QED
          BY <2>1, <4>1, <4>2, <4>3
      <3> QED
        BY <3>1, <3>2
    <2>3. PICK y : Told(t) = Topped(b, is, y, parts) /\ PartOf(is, y, d.tree) = x
      BY <2>2
    <2>4. Lacks(f, inner, j) = <<x>> \o l
      BY <1>1, <1>2, LacksNext DEF m
    <2>5. IsSeq(l)
      <3>1. i \in Nat /\ m \in Nat /\ i <= m
        BY <1>1, <1>2
      <3>2. AreLacking(l, f, inner, m, i)
        BY <3>1, LacksAre, Zenon DEF m
      <3> QED
        BY <3>2 DEF AreLacking
    <2>6. Ends(Topped(b, is, field, parts), f, inner, j) = Put(b, Closed(is, parts \o Lacks(f, inner, j)))
      BY <1>5, <2>1, EndsTopped
    <2> HIDE DEF is, x, d
    <2>7. Put(Topped(b, is, y, parts), d.tree) = Topped(b, is, y, Append(parts, PartOf(is, y, d.tree)))
      BY <2>1, Toppings
    <2>8. Adds(Told(t), d) = Topped(b, is, y, Append(parts, x))
      BY <1>5, <2>3, <2>7 DEF Adds
    <2>9. Ends(Topped(b, is, y, Append(parts, x)), f, inner, i) = Put(b, Closed(is, Append(parts, x) \o l))
      BY <1>5, <2>1, EndsTopped
    <2> HIDE DEF l
    <2>10. Append(parts, x) \o l = parts \o (<<x>> \o l)
      <3>1. Append(parts, x) = parts \o <<x>> /\ IsSeq(<<x>>)
        BY <2>1, SeqAppends, SeqOne
      <3>2. (parts \o <<x>>) \o l = parts \o (<<x>> \o l)
        BY <2>1, <2>5, <3>1, SeqAssociates
      <3> QED
        BY <3>1, <3>2
    <2>11. Told(sk) = Topped(b, is, field, parts)
      BY <1>5, <2>1, ToldIs
    <2> QED
      BY <2>4, <2>6, <2>8, <2>9, <2>10, <2>11 DEF d
  <1> QED
    BY <1>4, <1>5

\* A container's beginning leaves all of it to write.
LEMMA BeginAdds ==
  ASSUME NEW sk, Taking(sk), NEW f, IsContainer(f),
         NEW t, t = SinkCall(sk, BeginOf(Kind(f))), t.err = "none",
         NEW inner, inner = Inner(Document, f)
  PROVE  Adds(Told(sk), Assembled(f, inner)) = Ends(Told(t), f, inner, 0)
  <1> DEFINE m == Len(Parts(f))
             d == Assembled(f, inner)
             begin == BeginOf(Kind(f))
  <1>1. m \in Nat /\ DOMAIN inner = 1..m /\ \A k \in 1..m : IsSeq(inner[k].calls)
    BY InnerOf DEF IsContainer
  <1>2. m - 0 = m
    BY <1>1
  <1>3. CASE input.kind = "json"
    <2> DEFINE rest == Ending(f, inner, m)
    <2>1. IsSeq(rest)
      BY <1>1, EndingIsSeq
    <2>2. d.calls = Cons(begin, rest)
      BY <1>1, ContainerCalls DEF Cons
    <2>3. Told(t) = Append(sk.out, JsonToken(begin))
      BY <1>3, JsonTold DEF Taking
    <2>4. Ends(Told(t), f, inner, 0) = Told(t) \o Tokens(rest)
      BY <1>2, <1>3, Zenon DEF Ends
    <2>5. Adds(Told(sk), d) = Told(sk) \o Tokens(d.calls)
      BY <1>3, Zenon DEF Adds
    <2> HIDE DEF rest, begin, d
    <2>6. IsSeq(sk.out) /\ Told(sk) = sk.out
      BY <1>3, ToldIs
    <2>7. Append(sk.out, JsonToken(begin)) \o Tokens(rest) = sk.out \o Tokens(Cons(begin, rest))
      BY <2>1, <2>6, ConsIs
    <2> QED
      BY <2>2, <2>3, <2>4, <2>5, <2>6, <2>7 DEF d
  <1>4. CASE input.kind # "json"
    <2> DEFINE is == IF Kind(f) = "list" THEN "List" ELSE "Object"
               l == Lacks(f, inner, 0)
    <2>1. Told(t) = Begin(sk.build, is)
      BY <1>4, ToldIs, ContainerBuilds DEF Taking
    <2>2. d.tree = Closed(is, l)
      BY <1>1, AssembledLacks
    <2>3. Adds(Told(sk), d) = Put(Told(sk), d.tree)
      BY <1>4, Zenon DEF Adds
    <2>4. IsSeq(l)
      <3>1. 0 \in Nat /\ m \in Nat /\ 0 <= m
        BY <1>1
      <3>2. AreLacking(l, f, inner, m, 0)
        BY <3>1, LacksAre, Zenon
      <3> QED
        BY <3>2 DEF AreLacking
    <2> HIDE DEF l, is, d
    <2>5. IsBuild(sk.build) /\ Told(sk) = sk.build
      BY <1>4, ToldIs
    <2>6. PICK none, unnamed : /\ none = <<>> /\ Begin(sk.build, is) = Topped(sk.build, is, unnamed, none)
      BY <2>5, BeginTopped, ZenonT(60)
    <2>7. none \o l = l
      BY <2>4, <2>6, SeqNothing
    <2>8. Ends(Topped(sk.build, is, unnamed, none), f, inner, 0) = Put(sk.build, Closed(is, none \o l))
      BY <1>4, <2>5, EndsTopped DEF l
    <2> QED
      BY <2>1, <2>2, <2>3, <2>5, <2>6, <2>7, <2>8 DEF d
  <1> QED
    BY <1>3, <1>4

\* And so does a variant's, with its tag.
LEMMA TagAdds ==
  ASSUME NEW sk, Taking(sk), NEW f, IsContainer(f), Kind(f) # "list",
         NEW a, a = SinkCall(sk, BeginOf(Kind(f))), Taking(a),
         NEW tag, NEW c, c = SinkCall(a, NameOf(tag)), Taking(c),
         NEW name, NEW t, t = SinkCall(c, Call("Text", name)), t.err = "none",
         NEW inner, inner = Inner(Document, f)
  PROVE  Adds(Told(sk), LabelledOf(tag, name, Assembled(f, inner))) = Ends(Told(t), f, inner, 0)
  <1> DEFINE m == Len(Parts(f))
             v == Assembled(f, inner)
             d == LabelledOf(tag, name, v)
             begin == BeginOf(Kind(f))
             text == Call("Text", name)
  <1>1. m \in Nat /\ DOMAIN inner = 1..m /\ \A k \in 1..m : IsSeq(inner[k].calls)
    BY InnerOf DEF IsContainer
  <1>2. m - 0 = m
    BY <1>1
  <1>3. a.err = "none" /\ c.err = "none"
    BY DEF Taking
  <1>4. CASE input.kind = "json"
    <2> DEFINE rest == Ending(f, inner, m)
               named == NameOf(tag)
    <2>1. IsSeq(rest)
      BY <1>1, EndingIsSeq
    <2>2. v.calls = Cons(begin, rest)
      BY <1>1, ContainerCalls DEF Cons
    <2>3. d.calls = <<begin, named, text>> \o Tail(v.calls)
      BY ZenonT(60) DEF LabelledOf, BeginOf, NameOf
    <2>4. /\ Told(a) = Append(sk.out, JsonToken(begin))
          /\ Told(c) = Append(a.out, JsonToken(named))
          /\ Told(t) = Append(c.out, JsonToken(text))
      BY <1>3, <1>4, JsonTold DEF Taking
    <2>5. Ends(Told(t), f, inner, 0) = Told(t) \o Tokens(rest)
      BY <1>2, <1>4, Zenon DEF Ends
    <2>6. Adds(Told(sk), d) = Told(sk) \o Tokens(d.calls)
      BY <1>4, Zenon DEF Adds
    <2> HIDE DEF rest, begin, d, v, named, text
    <2>7. /\ IsSeq(sk.out) /\ Told(sk) = sk.out
          /\ IsSeq(a.out) /\ Told(a) = a.out
          /\ IsSeq(c.out) /\ Told(c) = c.out
      BY <1>4, ToldIs
    <2>8. Tail(v.calls) = rest
      BY <2>1, <2>2, ConsIs
    <2> DEFINE last == Cons(text, rest)
               more == Cons(named, last)
    <2>9. IsSeq(last) /\ Append(c.out, JsonToken(text)) \o Tokens(rest) = c.out \o Tokens(last)
      BY <2>1, <2>7, ConsIs
    <2> HIDE DEF last
    <2>10. IsSeq(more) /\ Append(a.out, JsonToken(named)) \o Tokens(last) = a.out \o Tokens(more)
      BY <2>7, <2>9, ConsIs
    <2> HIDE DEF more
    <2>11. Append(sk.out, JsonToken(begin)) \o Tokens(more) = sk.out \o Tokens(Cons(begin, more))
      BY <2>7, <2>10, ConsIs
    <2>12. <<begin, named, text>> \o rest = Cons(begin, more)
      BY <2>1, ConsThree DEF more, last
    <2>13. Told(t) \o Tokens(rest) = sk.out \o Tokens(Cons(begin, more))
      BY <2>4, <2>7, <2>9, <2>10, <2>11
    <2> QED
      BY <2>3, <2>5, <2>6, <2>7, <2>8, <2>12, <2>13 DEF d, v
  <1>5. CASE input.kind # "json"
    <2> DEFINE l == Lacks(f, inner, 0)
               x == Text(name)
               first == Member(tag, x)
    <2>1. Told(a) = Begin(sk.build, "Object") /\ Told(c) = Name(a.build, tag)
      BY <1>3, <1>5, ToldIs, ContainerBuilds DEF Taking
    <2>2. Told(t) = Put(c.build, x)
      <3>1. ScalarTree(Call("Text", name)) = x
        BY DEF ScalarTree, Call
      <3>2. IsSink(c) /\ c.kind = "dynamic" /\ c.err = "none" /\ SinkCall(c, Call("Text", name)).err = "none"
        BY <1>5, ToldIs DEF Taking
      <3>3. "Text" \in ScalarCalls \cup {"Null"}
        BY DEF ScalarCalls
      <3>4. Told(t) = Put(c.build, ScalarTree(Call("Text", name)))
        BY <3>2, <3>3, DynamicTold
      <3> QED
        BY <3>1, <3>4
    <2>3. d.tree = Object(<<first>> \o v.tree.members)
      <3> HIDE DEF v
      <3> QED
        BY DEF LabelledOf
    <2>4. v.tree = Closed("Object", l)
      BY <1>1, AssembledLacks
    <2>5. Adds(Told(sk), d) = Put(Told(sk), d.tree)
      BY <1>5, Zenon DEF Adds
    <2>6. IsSeq(l)
      <3>1. 0 \in Nat /\ m \in Nat /\ 0 <= m
        BY <1>1
      <3>2. AreLacking(l, f, inner, m, 0)
        BY <3>1, LacksAre, Zenon
      <3> QED
        BY <3>2 DEF AreLacking
    <2>7. PartOf("Object", tag, x) = first
      BY DEF PartOf
    <2> HIDE DEF l, x, first, d, v
    <2>8. v.tree.members = l
      BY <2>4 DEF Closed, Object
    <2>9. /\ IsBuild(sk.build) /\ Told(sk) = sk.build
          /\ Told(a) = a.build /\ Told(c) = c.build
      BY <1>5, ToldIs
    <2>10. PICK none, unnamed : none = <<>> /\ Begin(sk.build, "Object") = Topped(sk.build, "Object", unnamed, none)
      BY <2>9, BeginTopped, ZenonT(60)
    <2>11. Name(Topped(sk.build, "Object", unnamed, none), tag) = Topped(sk.build, "Object", tag, none)
      BY <2>9, Toppings
    <2>12. Put(Topped(sk.build, "Object", tag, none), x)
             = Topped(sk.build, "Object", tag, Append(none, first))
      BY <2>7, <2>9, Toppings
    <2>13. Append(none, first) = <<first>>
      BY <2>10
    <2>14. Told(t) = Topped(sk.build, "Object", tag, <<first>>)
      BY <2>1, <2>2, <2>9, <2>10, <2>11, <2>12, <2>13
    <2>15. Ends(Topped(sk.build, "Object", tag, <<first>>), f, inner, 0)
             = Put(sk.build, Closed("Object", <<first>> \o l))
      BY <1>5, <2>9, EndsTopped DEF l
    <2>16. Closed("Object", <<first>> \o l) = Object(<<first>> \o l)
      BY DEF Closed
    <2> QED
      BY <2>3, <2>5, <2>8, <2>9, <2>14, <2>15, <2>16 DEF d, v
  <1> QED
    BY <1>4, <1>5

----------------------------------------------------------------------------
(* What every step leaves to be written. *)

\* The sink while the encode goes on.
LEMMA TopTaking ==
  ASSUME IInv, Running
  PROVE  Taking(sink)
  BY TopRuns DEF Goes, Taking

\* A call that fails leaves a failure.
LEMMA FailsNot == Fail => failure' # <<>>
  BY SeqOne, SeqEmpty DEF Fail

\* Over a tagged union stands an object or a refinement of one: of anything else
\* a record writes the document alone.
LEMMA DueAlone ==
  ASSUME IInv, Running, Kind(Top) \notin {"object", "refined"}
  PROVE  Due(frames, Len(frames)) = Document[<<Top.shape, Top.value>>]
  <1> DEFINE n == Len(frames)
  <1>1. Top = frames[n] /\ n \in Nat /\ n # 0 /\ Variants(frames)
    BY TopRuns DEF Goes
  <1>2. ASSUME n > 1, Kind(frames[n - 1]) = "tagged" PROVE FALSE
    <2>1. n - 1 \in 1..(n - 1) /\ (n - 1) + 1 = n
      BY <1>1, <1>2
    <2>2. IsVariant(frames[n].shape, Shape[frames[n - 1].shape].tag)
      BY <1>1, <1>2, <2>1 DEF Variants
    <2> QED
      BY <1>1, <2>2 DEF IsVariant, IsObject, Kind
  <1> QED
    BY <1>1, <1>2 DEF Due

\* What is left of a container is that of its schema and value.
LEMMA EndsAlike ==
  ASSUME NEW f, NEW g, g.shape = f.shape, g.value = f.value, NEW told, NEW inner, NEW j
  PROVE  Ends(told, g, inner, j) = Ends(told, f, inner, j) /\ Inner(Document, g) = Inner(Document, f)
  <1>1. /\ Parts(g) = Parts(f) /\ Kind(g) = Kind(f) /\ Inner(Document, g) = Inner(Document, f)
        /\ \A n : Ending(g, inner, n) = Ending(f, inner, n)
    BY DocumentsAlike
  <1>2. \A k : TreeOf(g, inner, k) = TreeOf(f, inner, k)
    BY <1>1 DEF TreeOf
  <1>3. Lacks(g, inner, j) = Lacks(f, inner, j)
    BY <1>1, <1>2 DEF Lacks
  <1> QED
    BY <1>1, <1>3, Zenon DEF Ends

\* A leaf's call.
LEMMA LeafWrites ==
  ASSUME IInv, Running, ~Top.begun, Kind(Top) \notin {"object", "refined"},
         NEW op \in ScalarCalls \cup {"Null"}, NEW v, Emit(op, v, Return), failure' = <<>>,
         NEW d, d = Document[<<Top.shape, Top.value>>],
         IsLeaf(d, op, v),
         Reaches(frames, Len(frames), Told(sink))
  PROVE  Reaches(frames', Len(frames'), Told(sink'))
  <1>1. sink' = SinkCall(sink, Call(op, v)) /\ IF sink'.err = "none" THEN Return ELSE Fail
    BY DEF Emit, After
  <1>2. sink'.err = "none" /\ Return
    BY <1>1, FailsNot
  <1>3. frames' = Front(frames)
    BY <1>2 DEF Return
  <1>4. Adds(Told(sink), d) = Told(sink')
    <2>1. Taking(sink)
      BY TopTaking
    <2>2. PICK t : t = sink'
      OBVIOUS
    <2>3. t = SinkCall(sink, Call(op, v)) /\ t.err = "none"
      BY <1>1, <1>2, <2>2
    <2>4. Adds(Told(sink), d) = Told(t)
      BY <2>1, <2>3, LeafAdds
    <2> QED
      BY <2>2, <2>4
  <1>5. Finish(frames, Len(frames), Told(sink)) = Told(sink')
    <2>1. Top = frames[Len(frames)] /\ Due(frames, Len(frames)) = d
      BY TopRuns, DueAlone
    <2>2. Finish(frames, Len(frames), Told(sink)) = Adds(Told(sink), d)
      BY <2>1 DEF Finish
    <2> QED
      BY <1>4, <2>2
  <1> QED
    BY <1>3, <1>5, TopRuns, ReachesBelow

\* A scalar, a transform's or a constant's included.
LEMMA WriteScalarWrites ==
  ASSUME IInv, WriteScalar, failure' = <<>>, Reaches(frames, Len(frames), Told(sink))
  PROVE  Reaches(frames', Len(frames'), Told(sink'))
  <1>1. /\ Running /\ Kind(Top) \in Scalars /\ ~Refuses(Top)
        /\ Emit(ScalarOp[Kind(Top)], Top.value, Return)
    BY DEF WriteScalar
  <1>2. ~Top.begun
    BY <1>1, TopRuns DEF Scalars, Containers
  <1>3. /\ ScalarOp[Kind(Top)] \in ScalarCalls \cup {"Null"}
        /\ Kind(Top) \notin {"object", "refined", "nullable"}
    BY <1>1 DEF Scalars, ScalarOp, ScalarCalls
  <1>4. Document[<<Top.shape, Top.value>>] = Leaf(Top)
    BY <1>1, TopRuns, DocumentOf
  <1>5. IsLeaf(Leaf(Top), ScalarOp[Kind(Top)], Top.value)
    BY <1>3, LeafIs, ZenonT(60) DEF IsLeaf
  <1> QED
    BY <1>1, <1>2, <1>3, <1>4, <1>5, LeafWrites

\* An optional without a value.
LEMMA WriteNilWrites ==
  ASSUME IInv, WriteNil, failure' = <<>>, Reaches(frames, Len(frames), Told(sink))
  PROVE  Reaches(frames', Len(frames'), Told(sink'))
  <1>1. PICK v : v = ""
    BY ZenonT(60)
  <1>2. Running /\ Kind(Top) = "nullable" /\ Top.value = <<>> /\ Emit("Null", v, Return)
    BY <1>1, ZenonT(60) DEF WriteNil
  <1>3. ~Top.begun /\ ~Refuses(Top)
    BY <1>2, TopRuns DEF Containers, Refuses
  <1>4. Document[<<Top.shape, Top.value>>] = Leaf(Top)
    BY <1>2, <1>3, TopRuns, DocumentOf
  <1>5. IsLeaf(Leaf(Top), "Null", v)
    BY <1>1, <1>2, LeafIs, ZenonT(60) DEF IsLeaf
  <1> QED
    BY <1>2, <1>3, <1>4, <1>5, LeafWrites

\* A wrapper has its inner schema's to write.
LEMMA EnterInnerWrites ==
  ASSUME IInv, EnterInner, Reaches(frames, Len(frames), Told(sink))
  PROVE  Reaches(frames', Len(frames'), Told(sink'))
  <1> DEFINE n == Len(frames)
             s == Shape[Top.shape].of
             v == IF Kind(Top) = "nullable" THEN Top.value[1] ELSE Top.value
             g == Frame(s, v)
  <1>1. /\ Running /\ Kind(Top) \in Wrappers /\ ~Refuses(Top)
        /\ Kind(Top) = "nullable" => Top.value # <<>>
        /\ frames' = [frames EXCEPT ![Len(frames)] = g] /\ sink' = sink
    BY DEF EnterInner, Become
  <1>2. ~g.begun /\ g.shape = s /\ g.value = v
    BY DEF Frame
  <1>3. Document[<<Top.shape, Top.value>>] = Document[<<s, v>>]
    BY <1>1, TopRuns, DocumentOf DEF Wrappers
  <1> HIDE DEF g, s, v
  <1>4. Retopped(frames, frames', g)
    BY <1>1, TopRuns, Retops
  <1>5. ~Top.begun /\ Top = frames[n] /\ n \in Nat /\ n # 0
    BY <1>1, TopRuns DEF Wrappers, Containers
  <1> DEFINE gr == frames'
  <1>6. gr[n] = g /\ (n > 1 => gr[n - 1] = frames[n - 1])
    <2>1. n > 1 => n - 1 \in 1..(n - 1)
      BY <1>5
    <2> QED
      BY <1>4, <2>1 DEF Retopped, Alike
  <1> HIDE DEF gr
  <1>7. Due(gr, n) = Due(frames, n)
    BY <1>2, <1>3, <1>5, <1>6 DEF Due
  <1>8. Finish(frames, n, Told(sink)) = Finish(gr, n, Told(sink))
    BY <1>2, <1>5, <1>6, <1>7 DEF Finish
  <1> QED
    BY <1>1, <1>4, <1>8, TopRuns, ReachesIn DEF gr

\* A tagged union has its variant's, tagged.
LEMMA EnterVariantWrites ==
  ASSUME IInv, EnterVariant, Reaches(frames, Len(frames), Told(sink))
  PROVE  Reaches(frames', Len(frames'), Told(sink'))
  <1> DEFINE n == Len(frames)
             b == [Top EXCEPT !.begun = TRUE, !.at = 1]
             part == VariantPart(Top)
             g == Frame(part.of, part.value)
             hr == [frames EXCEPT ![n] = b]
  <1>1. /\ Running /\ Kind(Top) = "tagged" /\ ~Top.begun /\ ~Refuses(Top) /\ sink' = sink
    BY DEF EnterVariant
  <1>2. Top = frames[n] /\ n \in DOMAIN frames /\ n \in Nat /\ n # 0
    BY <1>1, TopRuns, SeqFacts
  <1>3. frames' = Append(hr, g)
    <2>1. hr = [frames EXCEPT ![n].begun = TRUE, ![n].at = 1]
      BY <1>2
    <2> QED
      BY <2>1 DEF EnterVariant
  <1>4. IsFrame(b) /\ b.shape = Top.shape /\ b.value = Top.value /\ b.begun
    BY <1>1, TopRuns, FrameTagged, ZenonT(60)
  <1>5. ~g.begun /\ g.shape = part.of /\ g.value = part.value
    BY DEF Frame
  <1>6. Document[<<Top.shape, Top.value>>] = Labelled(Top, Document[<<part.of, part.value>>])
    BY <1>1, TopRuns, DocumentOf
  <1> HIDE DEF b, g, part, hr
  <1>7. Retopped(frames, hr, b)
    BY <1>1, TopRuns, Retops DEF hr
  <1> DEFINE gr == frames'
  <1>8. Pushed(frames, gr, b, g)
    BY <1>1, <1>3, <1>7, TopRuns, Pushes
  <1> HIDE DEF gr
  <1>9. /\ gr[n] = b /\ gr[n + 1] = g /\ Kind(b) = "tagged"
        /\ n + 1 > 1 /\ (n + 1) - 1 = n
    BY <1>1, <1>2, <1>4, <1>8, PartsAlike DEF Pushed
  <1>10. Due(gr, n + 1) = Labelled(b, Document[<<part.of, part.value>>])
    BY <1>5, <1>9 DEF Due
  <1>11. Labelled(b, Document[<<part.of, part.value>>]) = Document[<<Top.shape, Top.value>>]
    BY <1>4, <1>6, DocumentsAlike
  <1>12. Due(frames, n) = Document[<<Top.shape, Top.value>>]
    BY <1>1, DueAlone
  <1>13. Finish(frames, n, Told(sink)) = Adds(Told(sink), Due(frames, n))
    BY <1>1, <1>2 DEF Finish
  <1>14. Finish(gr, n + 1, Told(sink)) = Adds(Told(sink), Due(gr, n + 1))
    BY <1>5, <1>9 DEF Finish
  <1>15. \A told : Finish(gr, n, told) = told
    BY <1>4, <1>9 DEF Finish
  <1>16. Finish(frames, n, Told(sink)) = Finish(gr, n, Finish(gr, n + 1, Told(sink)))
    BY <1>10, <1>11, <1>12, <1>13, <1>14, <1>15
  <1> QED
    BY <1>1, <1>8, <1>16, TopRuns, ReachesOver DEF gr

\* And nothing after it.
LEMMA LeaveVariantWrites ==
  ASSUME IInv, LeaveVariant, Reaches(frames, Len(frames), Told(sink))
  PROVE  Reaches(frames', Len(frames'), Told(sink'))
  <1>1. Running /\ Kind(Top) = "tagged" /\ Top.begun /\ frames' = Front(frames) /\ sink' = sink
    BY DEF LeaveVariant, Return
  <1>2. Finish(frames, Len(frames), Told(sink)) = Told(sink')
    BY <1>1, TopRuns DEF Finish
  <1> QED
    BY <1>1, <1>2, TopRuns, ReachesBelow

\* A sink that takes a name goes on taking calls.
LEMMA NamedTakes ==
  ASSUME NEW s, Taking(s), AtName(s), NEW v, SinkCall(s, NameOf(v)).err = "none"
  PROVE  Taking(SinkCall(s, NameOf(v)))
  <1> DEFINE t == SinkCall(s, NameOf(v))
  <1>1. IsSink(s) /\ s.err = "none" /\ s.kind = input.kind
    BY DEF Taking
  <1>2. Named(s, t, v) \/ (s.kind = "json" /\ t = [s EXCEPT !.err = "duplicate"])
    BY <1>1, NameCall DEF NameOf
  <1>3. ASSUME s.kind = "json", t = [s EXCEPT !.err = "duplicate"] PROVE FALSE
    <2>1. IsJsonSink(s)
      BY <1>1, <1>3, Openings
    <2>2. s = [kind |-> "json", out |-> s.out, open |-> s.open, err |-> s.err]
      BY <2>1 DEF IsJsonSink
    <2> HIDE DEF t
    <2>3. t.err = "duplicate"
      BY <1>3, <2>2
    <2> QED
      BY <2>3 DEF t
  <1> HIDE DEF t
  <1> QED
    BY <1>1, <1>2, <1>3 DEF Named, Taking, t

\* The same container, begun.
LEMMA BegunWrites ==
  ASSUME IInv, Running, Kind(Top) \in Containers, ~Top.begun, ~Refuses(Top),
         frames' = [frames EXCEPT ![Len(frames)].begun = TRUE],
         NEW u, Adds(Told(sink), Due(frames, Len(frames))) = Ends(u, Top, Inner(Document, Top), 0),
         Reaches(frames, Len(frames), Told(sink))
  PROVE  Reaches(frames', Len(frames'), u)
  <1> DEFINE n == Len(frames)
             b == [Top EXCEPT !.begun = TRUE]
             gr == [frames EXCEPT ![n] = b]
  <1>1. Top = frames[n] /\ n \in Nat /\ n # 0 /\ IsSeq(frames) /\ n \in DOMAIN frames
    BY TopRuns, SeqFacts
  <1>2. frames' = gr
    BY <1>1
  <1>3. b.shape = Top.shape /\ b.value = Top.value /\ b.begun /\ b.at = 0
    BY TopRuns, FrameBegins
  <1> HIDE DEF b, gr
  <1>4. Retopped(frames, gr, b)
    BY TopRuns, Retops DEF gr
  <1>5. gr[n] = b /\ Kind(b) # "tagged"
    BY <1>3, <1>4, PartsAlike DEF Retopped, Containers
  <1>6. Finish(gr, n, u) = Ends(u, b, Inner(Document, b), 0)
    BY <1>3, <1>5 DEF Finish
  <1>7. Ends(u, b, Inner(Document, b), 0) = Ends(u, Top, Inner(Document, Top), 0)
    BY <1>3, EndsAlike
  <1>8. Finish(frames, n, Told(sink)) = Adds(Told(sink), Due(frames, n))
    BY <1>1 DEF Finish
  <1> QED
    BY <1>2, <1>4, <1>6, <1>7, <1>8, TopRuns, ReachesIn, ZenonT(60)

\* The call that begins it is followed by its tag's, if the record below is a
\* tagged union's, and by no other union's: the other tagSinks are deeper.
LEMMA BeginContainerWrites ==
  ASSUME IInv, BeginContainer, failure' = <<>>, Reaches(frames, Len(frames), Told(sink))
  PROVE  Reaches(frames', Len(frames'), Told(sink'))
  <1> DEFINE n == Len(frames)
             m == Len(tags)
             inner == Inner(Document, Top)
             begin == BeginOf(Kind(Top))
             a == SinkCall(sink, begin)
             begun == frames' = [frames EXCEPT ![Len(frames)].begun = TRUE]
  <1>1. /\ Running /\ Kind(Top) \in Containers /\ ~Top.begun /\ ~Refuses(Top)
        /\ IF Kind(Top) = "list" THEN sink' = a ELSE sink' = Tagged(a)
        /\ IF sink'.err = "none" THEN begun ELSE Fail
    BY ZenonT(60) DEF BeginContainer, Emit, After, BeginOf
  <1>2. sink'.err = "none" /\ begun
    BY <1>1, FailsNot
  <1>3. /\ Goes(frames, tags, sink) /\ frames # <<>> /\ Top = frames[n] /\ n \in Nat /\ n # 0
        /\ Taking(sink) /\ Ready(sink)
    BY <1>1, TopRuns, TopTaking, ReadyToWrite
  <1>4. IsContainer(Top)
    BY <1>1, TopRuns DEF IsContainer
  <1>5. Document[<<Top.shape, Top.value>>] = Assembled(Top, inner)
    BY <1>1, TopRuns, DocumentOf
  <1> HIDE DEF begun, inner
  <1>6. ASSUME sink' = a, Due(frames, n) = Assembled(Top, inner)
        PROVE  Adds(Told(sink), Due(frames, n)) = Ends(Told(sink'), Top, inner, 0)
    <2>1. a.err = "none"
      BY <1>2, <1>6
    <2>2. Adds(Told(sink), Assembled(Top, inner)) = Ends(Told(a), Top, inner, 0)
      BY <1>3, <1>4, <2>1, BeginAdds DEF inner
    <2> HIDE DEF a
    <2> QED
      BY <1>6, <2>2
  <1>7. Adds(Told(sink), Due(frames, n)) = Ends(Told(sink'), Top, inner, 0)
    <2>1. CASE Kind(Top) = "list"
      <3>1. Due(frames, n) = Assembled(Top, inner)
        BY <1>1, <1>5, <2>1, DueAlone
      <3> QED
        BY <1>1, <1>6, <2>1, <3>1
    <2>2. CASE Kind(Top) # "list"
      <3>1. sink' = Tagged(a)
        BY <1>1, <2>2
      <3>2. Begun(sink, a, "Object")
        <4>1. "Object" \in Both
          BY DEF Both
        <4>2. begin = Call("BeginObject", "")
          BY <2>2 DEF BeginOf
        <4> QED
          BY <1>3, <4>1, <4>2, BeginCall, ZenonT(60) DEF Taking
      <3>3. Taking(a)
        BY <1>3, <3>2 DEF Begun, Taking
      <3>4. AtName(a)
        <4>1. /\ IsSink(a) /\ OpenIn(a)[Len(OpenIn(a))].is = "Object"
              /\ Holds(a, Len(OpenIn(a)), <<>>, FALSE) /\ Len(OpenIn(a)) = Len(OpenIn(sink)) + 1
          BY <3>2 DEF Begun
        <4>2. Len(OpenIn(sink)) \in Nat
          BY <1>3, Openings DEF Taking
        <4> HIDE DEF a
        <4>3. OpenIn(a) # <<>>
          BY <4>1, <4>2, SeqEmpty
        <4>4. Last(OpenIn(a)).is = "Object"
          BY <4>1 DEF Last
        <4> QED
          BY <4>1, <4>3, <4>4, InnermostObject
      <3>5. /\ IsSeq(tags) /\ m \in Nat
            /\ \A j \in 1..(m - 1) : tags[j].depth # 0
            /\ IF n > 1 /\ Kind(frames[n - 1]) = "tagged"
               THEN /\ m # 0 /\ tags[m].depth = 0 /\ TagAt(frames, n) = <<tags[m].name>>
                    /\ tags[m].value = Chosen(frames[n - 1])
               ELSE ~(m # 0 /\ tags[m].depth = 0) /\ TagAt(frames, n) = <<>>
        BY <1>1, <1>3, LayersAt
      <3> HIDE DEF a
      <3>6. Tagged(a) = IF m # 0 /\ tags[m].depth = 0
                        THEN SinkTag(a, tags[m].name, tags[m].value) ELSE a
        BY <3>5, TaggedOnce
      <3>7. CASE n > 1 /\ Kind(frames[n - 1]) = "tagged"
        <4> DEFINE over == frames[n - 1]
                   tag == TagOf(over)
                   name == Chosen(over)
                   c == SinkCall(a, NameOf(tag))
                   t == SinkCall(c, Call("Text", name))
        <4>1. Due(frames, n) = Labelled(over, Assembled(Top, inner))
          BY <1>3, <1>5, <3>7 DEF Due
        <4>2. Labelled(over, Assembled(Top, inner)) = LabelledOf(tag, name, Assembled(Top, inner))
          BY DocumentsOf
        <4>3. tags[m].name = tag /\ tags[m].value = name
          <5>1. <<tags[m].name>> = <<tag>>
            BY <3>5, <3>7 DEF TagAt, TagOf
          <5>2. tags[m].name = tag
            BY <5>1, SeqOne
          <5> QED
            BY <3>5, <3>7, <5>2
        <4>4. sink' = t
          BY <3>1, <3>5, <3>6, <3>7, <4>3 DEF SinkTag, NameOf
        <4> HIDE DEF over, tag, name
        <4>5. c.err = "none"
          <5> HIDE DEF c
          <5> QED
            BY <1>2, <4>4 DEF SinkCall
        <4>6. Taking(c)
          BY <3>3, <3>4, <4>5, NamedTakes
        <4>7. t.err = "none"
          BY <1>2, <4>4
        <4> HIDE DEF c, t
        <4>8. Adds(Told(sink), LabelledOf(tag, name, Assembled(Top, inner))) = Ends(Told(t), Top, inner, 0)
          BY <1>3, <1>4, <2>2, <3>3, <4>6, <4>7, TagAdds DEF a, c, t, inner
        <4> QED
          BY <4>1, <4>2, <4>4, <4>8
      <3>8. CASE ~(n > 1 /\ Kind(frames[n - 1]) = "tagged")
        <4>1. Due(frames, n) = Assembled(Top, inner)
          BY <1>3, <1>5, <3>8 DEF Due
        <4>2. sink' = a
          BY <3>1, <3>5, <3>6, <3>8
        <4> QED
          BY <1>6, <4>1, <4>2 DEF a
      <3> QED
        BY <3>7, <3>8
    <2> QED
      BY <2>1, <2>2
  <1> QED
    BY <1>1, <1>2, <1>7, BegunWrites DEF begun, inner

\* A container has one part less to write, and the part.
LEMMA WritePartWrites ==
  ASSUME IInv, WritePart, failure' = <<>>, Reaches(frames, Len(frames), Told(sink))
  PROVE  Reaches(frames', Len(frames'), Told(sink'))
  <1> DEFINE n == Len(frames)
             j == Top.at
             f == Top
             b == [Top EXCEPT !.at = @ + 1]
             part == Parts(Top)[Top.at + 1]
             g == Frame(part.of, part.value)
             hr == [frames EXCEPT ![n] = b]
             inner == Inner(Document, Top)
             t == sink'
  <1>1. /\ Running /\ Kind(Top) \in Containers /\ Top.begun /\ Top.at < Len(Parts(Top))
        /\ IF Kind(Top) = "list" THEN Enter(part) /\ sink' = sink
           ELSE /\ sink' = SinkCall(sink, NameOf(part.label.part))
                /\ IF sink'.err = "none" THEN Enter(part) ELSE Fail
    BY DEF WritePart, Emit, After, NameOf
  <1>2. Enter(part) /\ IF Kind(Top) = "list" THEN t = sink
                       ELSE t = SinkCall(sink, NameOf(part.label.part)) /\ t.err = "none"
    BY <1>1, FailsNot
  <1>3. /\ Goes(frames, tags, sink) /\ frames # <<>> /\ Top = frames[n] /\ n \in Nat /\ n # 0
        /\ IsSeq(frames) /\ n \in DOMAIN frames /\ Taking(sink) /\ n \in OpenIx(frames) /\ IsFrame(Top)
    BY <1>1, TopRuns, TopTaking, SeqFacts
  <1>4. IsContainer(Top) /\ j \in Nat
    BY <1>1, <1>3, TopRuns, FrameFacts DEF IsContainer
  <1>5. b.shape = Top.shape /\ b.value = Top.value /\ b.begun /\ b.at = Top.at + 1
    BY <1>1, <1>3, FrameWrites
  <1>6. ~g.begun /\ g.shape = part.of /\ g.value = part.value
    BY DEF Frame
  <1>7. frames' = Append(hr, g)
    <2>1. hr = [frames EXCEPT ![n].at = @ + 1]
      BY <1>3
    <2> QED
      BY <1>2, <2>1 DEF Enter
  <1>8. PICK i : i = j + 1
    OBVIOUS
  <1>9. part = Parts(Top)[i] /\ b.at = i
    BY <1>5, <1>8
  <1> HIDE DEF b, g, hr, inner, part, t
  <1>10. Retopped(frames, hr, b)
    BY <1>3, Retops DEF hr
  <1> DEFINE gr == frames'
  <1>11. Pushed(frames, gr, b, g)
    BY <1>3, <1>7, <1>10, Pushes
  <1> HIDE DEF gr
  <1>12. /\ gr[n] = b /\ gr[n + 1] = g /\ Kind(b) # "tagged" /\ Kind(Top) # "tagged"
         /\ (n + 1) - 1 = n
    BY <1>1, <1>3, <1>5, <1>11, PartsAlike DEF Pushed, Containers
  <1>13. OpenIn(sink) # <<>> /\ Last(OpenIn(sink)).is = IF Kind(Top) = "list" THEN "List" ELSE "Object"
    BY <1>3, TopOpen
  <1>14. inner[i] = Document[<<part.of, part.value>>]
    <2>1. /\ Len(Parts(Top)) \in Nat
          /\ \A k \in 1..Len(Parts(Top)) : inner[k] = Document[<<Parts(Top)[k].of, Parts(Top)[k].value>>]
      BY <1>4, InnerOf DEF IsContainer, inner
    <2>2. i \in 1..Len(Parts(Top))
      BY <1>1, <1>4, <1>8, <2>1
    <2> QED
      BY <1>9, <2>1, <2>2
  <1>15. Ends(Told(sink), Top, inner, j) = Ends(Adds(Told(t), inner[i]), Top, inner, i)
    <2>1. IF Kind(f) = "list" THEN t = sink
          ELSE t = SinkCall(sink, NameOf(Parts(f)[i].label.part)) /\ t.err = "none"
      BY <1>2, <1>9
    <2>2. Taking(sink) /\ IsContainer(f) /\ j \in Nat /\ j < Len(Parts(f))
      BY <1>1, <1>3, <1>4
    <2>3. OpenIn(sink) # <<>> /\ Last(OpenIn(sink)).is = IF Kind(f) = "list" THEN "List" ELSE "Object"
      BY <1>13
    <2>4. inner = Inner(Document, f)
      BY DEF inner
    <2> HIDE DEF f, j
    <2>5. Ends(Told(sink), f, inner, j) = Ends(Adds(Told(t), inner[i]), f, inner, i)
      BY <1>8, <2>1, <2>2, <2>3, <2>4, PartAdds
    <2> QED
      BY <2>5 DEF f, j
  <1>16. Finish(frames, n, Told(sink)) = Ends(Told(sink), Top, inner, j)
    BY <1>1, <1>3, <1>12 DEF Finish, inner
  <1>17. Due(gr, n + 1) = inner[i]
    BY <1>6, <1>12, <1>14 DEF Due
  <1>18. Finish(gr, n + 1, Told(t)) = Adds(Told(t), inner[i])
    BY <1>6, <1>12, <1>17 DEF Finish
  <1>19. \A told : Finish(gr, n, told) = Ends(told, Top, inner, i)
    <2> TAKE told
    <2>1. Finish(gr, n, told) = Ends(told, b, Inner(Document, b), i)
      BY <1>5, <1>9, <1>12 DEF Finish
    <2>2. Inner(Document, b) = inner
      BY <1>5, EndsAlike DEF inner
    <2>3. Ends(told, b, inner, i) = Ends(told, Top, inner, i)
      BY <1>5, EndsAlike
    <2> QED
      BY <2>1, <2>2, <2>3
  <1>20. Finish(frames, n, Told(sink)) = Finish(gr, n, Finish(gr, n + 1, Told(t)))
    BY <1>15, <1>16, <1>18, <1>19
  <1> QED
    BY <1>3, <1>11, <1>20, ReachesOver DEF gr, t

\* A container without parts left ends.
LEMMA EndContainerWrites ==
  ASSUME IInv, EndContainer, failure' = <<>>, Reaches(frames, Len(frames), Told(sink))
  PROVE  Reaches(frames', Len(frames'), Told(sink'))
  <1> DEFINE n == Len(frames)
             inner == Inner(Document, Top)
  <1>1. /\ Running /\ Kind(Top) \in Containers /\ Top.begun /\ Top.at = Len(Parts(Top))
        /\ sink' = SinkCall(sink, EndOf(Kind(Top)))
        /\ IF sink'.err = "none" THEN Return ELSE Fail
    BY ZenonT(60) DEF EndContainer, Emit, After, EndOf
  <1>2. sink'.err = "none" /\ frames' = Front(frames)
    BY <1>1, FailsNot DEF Return
  <1>3. /\ Goes(frames, tags, sink) /\ frames # <<>> /\ Top = frames[n] /\ Stacked(frames)
        /\ Taking(sink) /\ n \in OpenIx(frames) /\ IsFrame(Top)
    BY <1>1, TopRuns, TopTaking
  <1>4. IsContainer(Top) /\ Kind(Top) # "tagged"
    BY <1>1, <1>3, TopRuns, FrameFacts DEF IsContainer, Containers
  <1>5. OpenIn(sink) # <<>>
    BY <1>3, TopOpen
  <1>6. Ends(Told(sink), Top, inner, Len(Parts(Top))) = Told(sink')
    BY <1>1, <1>2, <1>3, <1>4, <1>5, EndAdds
  <1> HIDE DEF inner
  <1>7. Finish(frames, n, Told(sink)) = Ends(Told(sink), Top, inner, Top.at)
    BY <1>1, <1>3, <1>4 DEF Finish, inner
  <1>8. Finish(frames, n, Told(sink)) = Told(sink')
    BY <1>1, <1>6, <1>7
  <1> QED
    BY <1>2, <1>3, <1>8, ReachesBelow

\* What is left to be written is the same as long as it is the same encoding.
LEMMA SameWriting ==
  ASSUME input' = input
  PROVE  \A fr, m, told : Reaches(fr, m, told)' <=> Reaches(fr, m, told)
  <1>1. \A f : Parts(f)' = Parts(f)
    BY PartsStay
  <1>2. Document' = Document
    BY DocumentStays
  <1>3. \A told, d : Adds(told, d)' = Adds(told, d)
    BY DEF Adds
  <1>4. \A f, d : Labelled(f, d)' = Labelled(f, d)
    BY DEF Labelled, VariantPart
  <1>5. \A fr, i : Due(fr, i)' = Due(fr, i)
    <2> TAKE fr, i
    <2>1. PICK d : d = Document
      OBVIOUS
    <2>2. Document' = d
      BY <1>2, <2>1
    <2> QED
      BY <1>4, <2>1, <2>2 DEF Due
  <1>6. \A f : Inner(Document, f)' = Inner(Document, f)
    <2> TAKE f
    <2>1. PICK d, parts : d = Document /\ parts = Parts(f)
      OBVIOUS
    <2>2. Document' = d /\ Parts(f)' = parts
      BY <1>1, <1>2, <2>1
    <2> QED
      BY <2>1, <2>2 DEF Inner
  <1>7. \A f, inner, n : Ending(f, inner, n)' = Ending(f, inner, n)
    <2> TAKE f, inner, n
    <2>1. Ending(f, inner, n)' = EndingOf(Parts(f)', Kind(f), inner, n)
      BY DEF Ending, EndingOf, Endings, Kind
    <2> QED
      BY <1>1, <2>1, DocumentsOf
  <1>8. \A told, f, inner, j : Ends(told, f, inner, j)' = Ends(told, f, inner, j)
    <2> TAKE told, f, inner, j
    <2>1. PICK parts : parts = Parts(f)
      OBVIOUS
    <2>2. Parts(f)' = parts
      BY <1>1, <2>1
    <2>3. Lacks(f, inner, j)' = Lacks(f, inner, j)
      BY <2>1, <2>2 DEF Lacks, TreeOf
    <2>4. \A n : Ending(f, inner, n)' = Ending(f, inner, n)
      BY <1>7
    <2> QED
      BY <2>1, <2>2, <2>3, <2>4 DEF Ends
  <1>9. \A fr, i, told : Finish(fr, i, told)' = Finish(fr, i, told)
    <2> TAKE fr, i, told
    <2>1. Adds(told, Due(fr, i))' = Adds(told, Due(fr, i))
      BY <1>3, <1>5
    <2>2. Ends(told, fr[i], Inner(Document, fr[i]), fr[i].at)' = Ends(told, fr[i], Inner(Document, fr[i]), fr[i].at)
      BY <1>6, <1>8
    <2> QED
      BY <2>1, <2>2 DEF Finish
  <1>10. Final' = Final
    BY <1>2, <1>3 DEF Final
  <1> QED
    BY <1>9, <1>10 DEF Reaches

\* After a step that fails there is nothing to be written.
LEMMA WrittenFails ==
  ASSUME failure' # <<>>
  PROVE  WrittenInv'
  BY DEF WrittenInv

\* After one that goes on, what is left is judged as before it.
LEMMA WrittenNext ==
  ASSUME input' = input, Reaches(frames', Len(frames'), Told(sink'))
  PROVE  WrittenInv'
  <1>1. Reaches(frames, Len(frames), Told(sink))'
    <2>1. PICK fr, m, told : fr = frames' /\ m = Len(frames') /\ told = Told(sink')
      OBVIOUS
    <2>2. Told(sink)' = told
      BY <2>1 DEF Told
    <2>3. Reaches(fr, m, told)
      BY <2>1
    <2>4. Reaches(fr, m, told)'
      BY <2>3, SameWriting
    <2> QED
      BY <2>1, <2>2, <2>4
  <1> QED
    BY <1>1 DEF WrittenInv

\* An encode about to begin has its value to write.
LEMMA WrittenFirst ==
  ASSUME Init
  PROVE  WrittenInv
  <1> DEFINE f == Frame(input.shape, input.value)
  <1>1. frames = <<f>>
    BY DEF Init
  <1>2. ~f.begun /\ f.shape = input.shape /\ f.value = input.value
    BY DEF Frame
  <1>3. Told(sink) = IF input.kind = "json" THEN <<>> ELSE NothingBuilt
    BY DEF Init, Told, JsonSink, DynamicSink
  <1> HIDE DEF f
  <1>4. Len(frames) = 1 /\ frames[1] = f
    BY <1>1, SeqOne
  <1>5. Due(frames, 1) = Document[<<input.shape, input.value>>]
    BY <1>2, <1>4 DEF Due
  <1>6. Finish(frames, 1, Told(sink)) = Adds(Told(sink), Document[<<input.shape, input.value>>])
    BY <1>2, <1>4, <1>5 DEF Finish
  <1>7. Finish(frames, 1, Told(sink)) = Final
    BY <1>3, <1>6 DEF Final
  <1>8. Reaches(frames, 0, Finish(frames, 1, Told(sink)))
    BY <1>7, ReachesEnd
  <1>9. Reaches(frames, 1, Told(sink))
    <2>1. 1 \in Nat /\ 1 # 0 /\ 1 - 1 = 0
      OBVIOUS
    <2> QED
      BY <1>8, <2>1, ReachesNext
  <1> QED
    BY <1>4, <1>9 DEF WrittenInv

\* Every step preserves it.
LEMMA WrittenSteps ==
  ASSUME IInv, WrittenInv, [Next]_vars
  PROVE  WrittenInv'
  <1>1. CASE failure' # <<>>
    BY <1>1, WrittenFails
  <1>2. CASE failure' = <<>>
    <2>1. CASE UNCHANGED vars
      <3>1. input' = input /\ frames' = frames /\ sink' = sink /\ failure' = failure
        BY <2>1 DEF vars
      <3>2. Reaches(frames', Len(frames'), Told(sink'))
        BY <1>2, <3>1 DEF WrittenInv
      <3> QED
        BY <3>1, <3>2, WrittenNext
    <2>2. CASE Refuse \/ WriterFails \/ TagFails
      BY <1>2, <2>2, FailsNot DEF Refuse, WriterFails, TagFails
    <2>3. CASE Unwind
      <3>1. Len(failure') = 1
        BY <2>3, SeqOne DEF Unwind
      <3> QED
        BY <1>2, <3>1, SeqEmpty
    <2>4. CASE WriteScalar \/ WriteNil \/ EnterInner \/ EnterVariant \/ LeaveVariant
               \/ BeginContainer \/ WritePart \/ EndContainer
      <3>1. Running /\ input' = input
        BY <2>4, ZenonT(60) DEF WriteScalar, WriteNil, EnterInner, EnterVariant, LeaveVariant, BeginContainer,
                    WritePart, EndContainer
      <3>2. Reaches(frames, Len(frames), Told(sink))
        BY <3>1 DEF Running, WrittenInv
      <3>3. Reaches(frames', Len(frames'), Told(sink'))
        BY <1>2, <2>4, <3>2, WriteScalarWrites, WriteNilWrites, EnterInnerWrites, EnterVariantWrites,
           LeaveVariantWrites, BeginContainerWrites, WritePartWrites, EndContainerWrites
      <3> QED
        BY <3>1, <3>3, WrittenNext
    <2>5. CASE Finished
      BY <2>1, <2>5 DEF Finished
    <2> QED
      BY <2>1, <2>2, <2>3, <2>4, <2>5 DEF Next, Step
  <1> QED
    BY <1>1, <1>2

\* Of the invariant: at the end of an encode that did not fail, the document
\* is one whole value, and the one that was given.
LEMMA WholeHolds ==
  ASSUME IInv, WrittenInv
  PROVE  WholeDocument
  <1> DEFINE d == Document[<<input.shape, input.value>>]
  <1> SUFFICES ASSUME frames = <<>>, failure = <<>>
               PROVE  IF sink.kind = "json"
                      THEN /\ sink.open = <<>> /\ HasValue(sink.out) /\ ValueLength(sink.out) = Len(sink.out)
                           /\ sink.out = [k \in DOMAIN d.calls |-> JsonToken(d.calls[k])]
                      ELSE sink.build.stack = <<>> /\ sink.build.root = <<d.tree>>
    BY DEF WholeDocument
  <1>1. IsSink(sink) /\ sink.kind = input.kind /\ DocFits(frames, sink) /\ RootFits(frames, sink)
    BY DEF IInv, Goes
  <1>2. OpenIn(sink) = <<>>
    <2>1. Len(OpenIn(sink)) = 0
      BY <1>1, SeqEmpty, UpToNone DEF DocFits
    <2> QED
      BY <1>1, <2>1, Openings
  <1>3. Rooted(sink)
    BY <1>1, <1>2 DEF RootFits
  <1>4. Told(sink) = Adds(IF input.kind = "json" THEN <<>> ELSE NothingBuilt, d)
    <2>1. Reaches(frames, 0, Told(sink))
      BY SeqEmpty DEF WrittenInv
    <2> QED
      BY <2>1, ReachesEnd DEF Final
  <1>5. IsSeq(d.calls)
    <2>1. input.shape \in DOMAIN Shape /\ input.value \in Values[input.shape]
      BY InputAssumption DEF IInv
    <2> QED
      BY <2>1, ValueWritable, CallsAreSeq
  <1> HIDE DEF d
  <1>6. CASE sink.kind = "json"
    <2>1. /\ sink.open = <<>> /\ sink.out # <<>> /\ IsSeq(sink.out)
          /\ FirstValue(sink.out) = [n |-> Len(sink.out), open |-> Len(sink.open)]
      BY <1>1, <1>2, <1>3, <1>6, Openings DEF OpenIn, Rooted, IsJsonSink
    <2>2. Len(sink.out) \in Nat /\ Len(sink.out) > 0 /\ Len(sink.open) = 0
      BY <2>1, SeqFacts, SeqEmpty
    <2>3. sink.out = Tokens(d.calls)
      <3> DEFINE t == Tokens(d.calls)
      <3>1. IsSeq(t)
        BY <1>5, TokensIs
      <3>2. sink.out = <<>> \o t
        BY <1>1, <1>4, <1>6 DEF Told, Adds
      <3> HIDE DEF t
      <3> QED
        BY <3>1, <3>2, SeqNothing DEF t
    <2>4. HasValue(sink.out) /\ ValueLength(sink.out) = Len(sink.out)
      BY <2>1, <2>2 DEF HasValue, ValueLength
    <2> QED
      BY <1>6, <2>1, <2>3, <2>4 DEF Tokens
  <1>7. CASE sink.kind # "json"
    <2>1. sink.build = Put(NothingBuilt, d.tree)
      BY <1>1, <1>4, <1>7 DEF Told, Adds
    <2>2. Put(NothingBuilt, d.tree).root = <<d.tree>>
      BY DEF Put, NothingBuilt
    <2> QED
      BY <1>2, <1>7, <2>1, <2>2 DEF OpenIn
  <1> QED
    BY <1>6, <1>7

\* An encode that returns without an error has written its value, whole and once:
\* what its sink was told, JSON tokens or the calls that build a tree, is what the
\* value is made of in its schema's order, with each tag in its own variant's object.
THEOREM WholeDocumentAlways == Spec => []WholeDocument
  <1>1. Init => WrittenInv
    BY WrittenFirst
  <1>2. IInv /\ WrittenInv /\ [Next]_vars => WrittenInv'
    BY WrittenSteps
  <1>3. IInv /\ WrittenInv => WholeDocument
    BY WholeHolds
  <1> QED
    BY <1>1, <1>2, <1>3, Inductive, PTL DEF Spec

----------------------------------------------------------------------------
(* Where a failure says it was. *)

\* f is Places' reading of a path of n labels, from the last to the first.
Backwards(path, n, f) ==
  f = [i \in 0..n |-> IF i = 0 THEN <<>> ELSE Under(path[n - i + 1], f[i - 1])]

\* Places' reading of any path is a function that exists.
LEMMA BackwardsExist ==
  ASSUME NEW path, NEW n \in Nat
  PROVE  \E f : Backwards(path, n, f)
  <1> DEFINE N == {m \in Nat : \E f : f = [i \in 0..m |-> IF i = 0 THEN <<>>
                                             ELSE Under(path[n - i + 1], f[i - 1])]}
  <1>1. 0 \in N
    <2> DEFINE r == [i \in 0..0 |-> <<>>]
    <2>1. r = [i \in 0..0 |-> IF i = 0 THEN <<>> ELSE Under(path[n - i + 1], r[i - 1])]
      OBVIOUS
    <2> QED
      BY <2>1
  <1>2. ASSUME NEW m \in Nat, m \in N PROVE m + 1 \in N
    <2>1. PICK r : r = [i \in 0..m |-> IF i = 0 THEN <<>> ELSE Under(path[n - i + 1], r[i - 1])]
      BY <1>2
    <2> DEFINE more == Under(path[n - (m + 1) + 1], r[m])
               q == [i \in 0..(m + 1) |-> IF i = m + 1 THEN more ELSE r[i]]
    <2>2. \A i \in 0..(m + 1) : q[i] = IF i = 0 THEN <<>> ELSE Under(path[n - i + 1], q[i - 1])
      <3> TAKE i \in 0..(m + 1)
      <3>1. CASE i = m + 1
        <4>1. i # 0 /\ i - 1 = m /\ m \in 0..(m + 1) /\ m # m + 1
          BY <3>1
        <4>2. q[i] = more /\ q[i - 1] = r[m]
          BY <3>1, <4>1
        <4> HIDE DEF q
        <4> QED
          BY <3>1, <4>1, <4>2
      <3>2. CASE i \in 0..m /\ i # 0
        <4>1. i - 1 \in 0..(m + 1) /\ i - 1 # m + 1 /\ i # m + 1
          BY <3>2
        <4> HIDE DEF more
        <4> QED
          BY <2>1, <3>2, <4>1
      <3>3. CASE i = 0
        BY <2>1, <3>3
      <3> QED
        BY <3>1, <3>2, <3>3
    <2>3. q = [i \in 0..(m + 1) |-> q[i]]
      OBVIOUS
    <2> HIDE DEF q
    <2>4. q = [i \in 0..(m + 1) |-> IF i = 0 THEN <<>> ELSE Under(path[n - i + 1], q[i - 1])]
      BY <2>2, <2>3
    <2> QED
      BY <2>4
  <1>3. Nat \subseteq N
    BY <1>1, <1>2, SetInduction
  <1> QED
    BY <1>3 DEF Backwards

\* Places is what such a reading ends with.
LEMMA PlacesReads ==
  ASSUME NEW path, IsSeq(path)
  PROVE  \E f : Backwards(path, Len(path), f) /\ Places(path) = f[Len(path)]
  <1>1. \E f : Backwards(path, Len(path), f)
    BY SeqFacts, BackwardsExist
  <1> QED
    BY <1>1 DEF Places, Backwards

\* A path of no labels leads nowhere.
LEMMA PlacesNone == Places(<<>>) = <<>>
  <1>1. PICK f : Backwards(<<>>, 0, f) /\ Places(<<>>) = f[0]
    BY SeqEmpty, PlacesReads
  <1> QED
    BY <1>1 DEF Backwards

\* A label more in front is one place more in front, or none.
LEMMA PlacesUnder ==
  ASSUME NEW path, IsSeq(path), NEW label
  PROVE  /\ IsSeq(<<label>> \o path)
         /\ Places(<<label>> \o path) = Under(label, Places(path))
  <1> DEFINE n == Len(path)
             more == <<label>> \o path
  <1>1. IsSeq(<<label>>) /\ Len(<<label>>) = 1 /\ <<label>>[1] = label /\ n \in Nat
    BY SeqOne, SeqFacts
  <1>2. /\ IsSeq(more) /\ Len(more) = 1 + n
        /\ \A i \in 1..(1 + n) : more[i] = IF i <= 1 THEN <<label>>[i] ELSE path[i - 1]
    BY <1>1, SeqConcat
  <1>3. more[1] = label /\ \A i \in 2..(1 + n) : more[i] = path[i - 1]
    BY <1>1, <1>2
  <1> HIDE DEF more
  <1>4. PICK f : Backwards(path, n, f) /\ Places(path) = f[n]
    BY PlacesReads
  <1>5. PICK g : Backwards(more, n + 1, g) /\ Places(more) = g[n + 1]
    <2>1. Len(more) = n + 1
      BY <1>1, <1>2
    <2> QED
      BY <1>2, <2>1, PlacesReads
  <1> DEFINE N == {i \in Nat : i <= n => g[i] = f[i]}
  <1>6. 0 \in N
    BY <1>1, <1>4, <1>5 DEF Backwards
  <1>7. ASSUME NEW i \in Nat, i \in N PROVE i + 1 \in N
    <2> SUFFICES ASSUME i + 1 <= n PROVE g[i + 1] = f[i + 1]
      OBVIOUS
    <2>1. /\ i + 1 \in 0..n /\ i + 1 \in 0..(n + 1) /\ i + 1 # 0 /\ (i + 1) - 1 = i
          /\ (n + 1) - (i + 1) + 1 \in 2..(1 + n)
          /\ (n + 1) - (i + 1) + 1 - 1 = n - (i + 1) + 1
      BY <1>1
    <2>2. g[i] = f[i]
      BY <1>1, <1>7
    <2>3. more[(n + 1) - (i + 1) + 1] = path[n - (i + 1) + 1]
      BY <1>3, <2>1
    <2>4. f[i + 1] = Under(path[n - (i + 1) + 1], f[i])
      BY <1>4, <2>1 DEF Backwards
    <2>5. g[i + 1] = Under(more[(n + 1) - (i + 1) + 1], g[i])
      BY <1>5, <2>1 DEF Backwards
    <2> QED
      BY <2>2, <2>3, <2>4, <2>5
  <1>8. Nat \subseteq N
    BY <1>6, <1>7, SetInduction
  <1>9. g[n] = f[n]
    BY <1>1, <1>8
  <1>10. g[n + 1] = Under(more[1], g[n])
    <2>1. n + 1 \in 0..(n + 1) /\ n + 1 # 0 /\ (n + 1) - (n + 1) + 1 = 1 /\ (n + 1) - 1 = n
      BY <1>1
    <2> QED
      BY <1>5, <2>1 DEF Backwards
  <1> QED
    BY <1>2, <1>3, <1>4, <1>5, <1>9, <1>10 DEF more

\* What a record labels its parts: by its kind, and a list's by their positions.
LEMMA PartLabels ==
  ASSUME NEW f, f.shape \in DOMAIN Shape, f.value \in Values[f.shape],
         Kind(f) \in Containers \cup {"tagged"}, ~Refuses(f), NEW k \in 1..Len(Parts(f))
  PROVE  /\ Parts(f)[k].label.in = Kind(f)
         /\ Kind(f) = "list" => Parts(f)[k].label.part = ToString(k - 1)
  <1>1. IsSeq(Parts(f)) /\ k \in DOMAIN Parts(f) /\ (Kind(f) = "tagged" => Len(Parts(f)) = 1)
    BY PartsSound, SeqFacts
  <1>2. CASE Kind(f) = "object"
    <2> DEFINE fields == Shape[f.shape].fields
               written == InOrder({i \in DOMAIN fields : ~(fields[i].optional /\ f.value[i] = <<>>)},
                                  Len(fields))
               P(j) == Part("object", SpelledName(fields, input.strategy, written[j]),
                            fields[written[j]].of, f.value[written[j]][1])
    <2>1. Parts(f) = [j \in DOMAIN written |-> P(j)]
      BY <1>2, Zenon DEF Parts, FieldParts
    <2>2. P(k).label.in = "object"
      BY DEF Part
    <2> HIDE DEF P, written
    <2>3. Parts(f)[k] = P(k)
      BY <1>1, <2>1
    <2> QED
      BY <1>2, <2>2, <2>3
  <1>3. CASE Kind(f) \in {"union", "tagged"}
    <2>1. Parts(f) = <<VariantPart(f)>>
      BY <1>3 DEF Parts
    <2>2. Len(Parts(f)) = 1 /\ Parts(f)[1] = VariantPart(f)
      BY <2>1, SeqOne
    <2>3. k = 1
      BY <2>2
    <2> QED
      BY <1>3, <2>2, <2>3 DEF VariantPart, Part
  <1>4. CASE Kind(f) = "list"
    <2>1. Parts(f) = ElementParts(f)
      BY <1>4 DEF Parts
    <2> QED
      BY <1>1, <1>4, <2>1 DEF ElementParts, Part
  <1>5. CASE Kind(f) = "map"
    <2> DEFINE held == InOrder({i \in DOMAIN Keys : Keys[i] \in DOMAIN f.value}, Len(Keys))
               P(j) == Part("map", Keys[held[j]], Shape[f.shape].of, f.value[Keys[held[j]]])
    <2>1. Parts(f) = [j \in DOMAIN held |-> P(j)]
      BY <1>5 DEF Parts, EntryParts
    <2>2. P(k).label.in = "map"
      BY DEF Part
    <2> HIDE DEF P, held
    <2>3. Parts(f)[k] = P(k)
      BY <1>1, <2>1
    <2> QED
      BY <1>5, <2>2, <2>3
  <1> QED
    BY <1>2, <1>3, <1>4, <1>5 DEF Containers

\* The last name a record has given is its part's under way.
LEMMA GivenLast ==
  ASSUME NEW fr, NEW i, fr[i].at \in Nat, fr[i].at # 0
  PROVE  Last(Given(fr, i)) = Parts(fr[i])[fr[i].at].label.part
  <1> DEFINE n == fr[i].at
             s == TagAt(fr, i)
             t == Labels(fr[i], n)
  <1>1. IsSeq(s) /\ IsSeq(t) /\ Len(t) = n /\ Len(s) \in Nat
    BY GivenIsSeq, SeqFacts
  <1>2. t[n] = Parts(fr[i])[n].label.part
    BY DEF Labels
  <1> HIDE DEF s, t
  <1>3. Len(s \o t) = Len(s) + n /\ Len(s) + n \in 1..(Len(s) + n) /\ ~(Len(s) + n <= Len(s))
    BY <1>1, SeqConcat
  <1>4. (s \o t)[Len(s) + n] = t[n]
    <2>1. (Len(s) + n) - Len(s) = n
      BY <1>1
    <2> QED
      BY <1>1, <1>3, <2>1, SeqConcat
  <1> QED
    BY <1>2, <1>3, <1>4 DEF Given, Last, s, t

----------------------------------------------------------------------------
\* A document that stops at places, or at the list they end in.
StopsAt(open, places) ==
  \/ places = Cursor(open)
  \/ /\ input.fails /\ Cursor(open) # <<>> /\ Last(open).is = "List"
     /\ places = Front(Cursor(open))

\* Where the first m containers stop.
Stops(open, m) ==
  [k \in 1..m |-> IF open[k].is = "List" THEN ToString(open[k].count) ELSE Last(open[k].names)]

\* Through the records still to return, and then along path, one gets to places.
Leads(fr, path, places) ==
  LET m == UpTo(Len(fr), OpenIx(fr))
      rest == Places(path)
  IN  /\ IsSeq(path) /\ IsSeq(rest) /\ IsSeq(places) /\ Len(places) = m + Len(rest)
      /\ \A i \in OpenIx(fr) : places[UpTo(i, OpenIx(fr))] = Parts(fr[i])[fr[i].at].label.part
      /\ \A j \in 1..Len(rest) : places[m + j] = rest[j]

\* The part record i is writing is the place where its container stops.
LEMMA PlaceOf ==
  ASSUME NEW fr, NEW tg, NEW sk, Goes(fr, tg, sk), NEW i \in OpenIx(fr), i < Len(fr), Awaits(fr, i),
         sk.kind = "json", NEW k, k = UpTo(i, OpenIx(fr))
  PROVE  LET c == sk.open[k]
             part == Parts(fr[i])[fr[i].at].label.part
         IN  IF c.is = "List" THEN part = ToString(c.count)
             ELSE c.is = "Object" /\ c.pending /\ part = Last(c.names)
  <1> DEFINE f == fr[i]
  <1>1. Stacked(fr) /\ Active(fr, Len(fr) - 1) /\ RecordFits(fr, sk, i) /\ OpenIn(sk) = sk.open
    BY DEF Goes, DocFits, OpenIn
  <1>2. i \in 1..Len(fr) /\ i \in 1..(Len(fr) - 1)
    <2>1. i \in 1..Len(fr) /\ Len(fr) \in Nat
      BY <1>1, SeqFacts DEF OpenIx, Stacked
    <2> QED
      BY <2>1
  <1>3. IsFrame(f) /\ f.begun /\ f.at > 0 /\ Kind(f) \in Containers
    BY <1>1, <1>2, BegunIs DEF Active, OpenIx
  <1>4. /\ f.shape \in DOMAIN Shape /\ f.value \in Values[f.shape] /\ ~Refuses(f)
        /\ f.at \in Nat /\ f.at # 0 /\ f.at \in 1..Len(Parts(f))
    <2>1. /\ f.shape \in DOMAIN Shape /\ f.value \in Values[f.shape] /\ ~Refuses(f)
          /\ f.at \in Nat /\ f.at <= Len(Parts(f))
      BY <1>3, FrameFacts
    <2>2. Len(Parts(f)) \in Nat
      BY <1>3, <2>1, PartsSound
    <2> QED
      BY <1>3, <2>1, <2>2
  <1>5. CASE Kind(f) = "list"
    <2>1. sk.open[k].is = "List" /\ sk.open[k].count = f.at - 1
      BY <1>1, <1>5 DEF RecordFits, Counts, PartsDone
    <2> QED
      BY <1>3, <1>4, <1>5, <2>1, PartLabels
  <1>6. CASE Kind(f) # "list"
    <2>1. sk.open[k].is = "Object" /\ sk.open[k].pending = TRUE /\ sk.open[k].names = Given(fr, i)
      BY <1>1, <1>6 DEF RecordFits, Holds
    <2> QED
      BY <1>4, <2>1, GivenLast
  <1> QED
    BY <1>5, <1>6

\* Below the top record, every container stops at the part its record is writing.
LEMMA StopsBelow ==
  ASSUME NEW fr, NEW tg, NEW sk, Goes(fr, tg, sk), fr # <<>>, NEW n, n = Len(fr), n \notin TaggedIx(fr),
         sk.kind = "json", NEW m, m = UpTo(n - 1, OpenIx(fr))
  PROVE  /\ m \in Nat /\ Len(sk.open) = UpTo(n, OpenIx(fr)) /\ OpenIn(sk) = sk.open /\ IsSeq(sk.open)
         /\ IsSeq(Stops(sk.open, m)) /\ Len(Stops(sk.open, m)) = m
         /\ Leads(Front(fr), <<>>, Stops(sk.open, m))
         /\ \A k \in 1..m : sk.open[k].is = "Object" => sk.open[k].pending
  <1> DEFINE gr == Front(fr)
             open == sk.open
             At(k) == IF open[k].is = "List" THEN ToString(open[k].count) ELSE Last(open[k].names)
             places == Stops(open, m)
  <1>1. /\ Stacked(fr) /\ Active(fr, n - 1) /\ IsSeq(fr) /\ n \in Nat /\ n # 0 /\ n \in 1..n
        /\ n - 1 \in Nat /\ n - 1 <= n /\ DocFits(fr, sk)
    BY TopFacts DEF Goes
  <1>2. /\ IsSeq(gr) /\ Len(gr) = n - 1 /\ Stacked(gr) /\ Alike(fr, gr, n - 1)
    BY <1>1, FrontStack
  <1> HIDE DEF gr
  <1>3. /\ \A i \in 1..(n - 1) : /\ i \in OpenIx(gr) <=> i \in OpenIx(fr)
                                 /\ UpTo(i, OpenIx(gr)) = UpTo(i, OpenIx(fr))
                                 /\ gr[i] = fr[i]
        /\ UpTo(n - 1, OpenIx(gr)) = m /\ m \in Nat
    <2>1. n - 1 <= Len(gr) /\ n - 1 <= Len(fr) /\ n - 1 \in 0..(n - 1)
      BY <1>1, <1>2
    <2>2. \A i \in 1..(n - 1) : i \in 0..(n - 1)
      OBVIOUS
    <2>3. \A i \in 1..(n - 1) : gr[i] = fr[i]
      BY <1>2 DEF Alike
    <2>4. m \in Nat
      BY <1>1, UpToNat
    <2> QED
      BY <1>1, <1>2, <2>1, <2>2, <2>3, <2>4, IxAlike
  <1>4. ASSUME NEW i \in OpenIx(fr), i \in 1..(n - 1)
        PROVE  LET k == UpTo(i, OpenIx(fr))
                   part == Parts(fr[i])[fr[i].at].label.part
               IN  /\ k \in 1..m
                   /\ IF open[k].is = "List" THEN part = ToString(open[k].count)
                      ELSE open[k].is = "Object" /\ open[k].pending /\ part = Last(open[k].names)
    <2>1. i < Len(fr) /\ n \in (i + 1)..n
      BY <1>1, <1>4
    <2>2. Awaits(fr, i)
      BY <2>1 DEF Awaits
    <2>3. UpTo(i, OpenIx(gr)) \in 1..UpTo(n - 1, OpenIx(gr))
      <3>1. i \in OpenIx(gr)
        BY <1>3, <1>4
      <3> QED
        BY <1>2, <3>1, Positions
    <2> QED
      BY <1>3, <1>4, <2>1, <2>2, <2>3, PlaceOf
  <1>5. IsSeq(places) /\ Len(places) = m /\ DOMAIN places = 1..m /\ \A k \in 1..m : places[k] = At(k)
    <2>1. DOMAIN places = 1..m /\ places = [k \in 1..m |-> places[k]] /\ \A k \in 1..m : places[k] = At(k)
      BY DEF Stops
    <2> HIDE DEF places
    <2> QED
      BY <1>3, <2>1, SeqMake
  <1>6. Leads(gr, <<>>, places)
    <2>1. ASSUME NEW i \in OpenIx(gr)
          PROVE  places[UpTo(i, OpenIx(gr))] = Parts(gr[i])[gr[i].at].label.part
      <3>1. i \in 1..(n - 1)
        BY <1>2 DEF OpenIx
      <3> HIDE DEF places
      <3> QED
        BY <1>3, <1>4, <1>5, <3>1
    <2> HIDE DEF places
    <2>2. Places(<<>>) = <<>> /\ IsSeq(<<>>) /\ Len(<<>>) = 0 /\ m + 0 = m
      BY <1>3, PlacesNone, SeqEmpty
    <2> QED
      BY <1>2, <1>3, <1>5, <2>1, <2>2 DEF Leads
  <1> HIDE DEF places
  <1>7. Len(open) = UpTo(n, OpenIx(fr)) /\ OpenIn(sk) = open /\ IsSeq(open)
    <2>1. IsSeq(OpenIn(sk))
      BY Openings DEF Goes
    <2> QED
      BY <1>1, <2>1 DEF DocFits, OpenIn
  <1>8. ASSUME NEW k \in 1..m PROVE open[k].is = "Object" => open[k].pending
    <2>1. PICK i \in 1..(n - 1) : i \in OpenIx(fr) /\ UpTo(i, OpenIx(fr)) = k
      BY <1>1, UpToOnto
    <2> QED
      BY <1>4, <2>1
  <1> QED
    BY <1>3, <1>5, <1>6, <1>7, <1>8 DEF gr, places

\* Where a document with n containers open stops, when the innermost is at a part.
LEMMA CursorIs ==
  ASSUME NEW open, NEW n \in Nat, Len(open) = n
  PROVE  /\ ~(n > 0 /\ open[n].is = "Object" /\ ~open[n].pending) => Cursor(open) = Stops(open, n)
         /\ n > 0 /\ open[n].is = "Object" /\ ~open[n].pending => Cursor(open) = Stops(open, n - 1)
  BY DEF Cursor, Stops

\* One place less.
LEMMA StopsFront ==
  ASSUME NEW open, NEW m \in Nat
  PROVE  /\ IsSeq(Stops(open, m)) /\ Len(Stops(open, m)) = m
         /\ Stops(open, m + 1) # <<>> /\ Front(Stops(open, m + 1)) = Stops(open, m)
  <1> DEFINE At(k) == IF open[k].is = "List" THEN ToString(open[k].count) ELSE Last(open[k].names)
             places == Stops(open, m)
             c == Stops(open, m + 1)
  <1>1. /\ DOMAIN places = 1..m /\ places = [k \in 1..m |-> places[k]] /\ \A k \in 1..m : places[k] = At(k)
        /\ DOMAIN c = 1..(m + 1) /\ c = [k \in 1..(m + 1) |-> c[k]] /\ \A k \in 1..(m + 1) : c[k] = At(k)
    BY DEF Stops
  <1> HIDE DEF places, c, At
  <1>2. m + 1 \in Nat /\ m + 1 # 0 /\ (m + 1) - 1 = m /\ \A k \in 1..m : k \in 1..(m + 1)
    OBVIOUS
  <1>3. IsSeq(places) /\ Len(places) = m /\ \A k \in 1..m : places[k] = At(k)
    BY <1>1, SeqMake
  <1>4. IsSeq(c) /\ Len(c) = m + 1 /\ \A k \in 1..(m + 1) : c[k] = At(k)
    BY <1>1, <1>2, SeqMake
  <1>5. c # <<>>
    BY <1>2, <1>4, SeqFacts
  <1>6. IsSeq(Front(c)) /\ Len(Front(c)) = m /\ \A k \in 1..m : Front(c)[k] = c[k]
    BY <1>2, <1>4, <1>5, SeqFront DEF Front
  <1>7. places = Front(c)
    BY <1>2, <1>3, <1>4, <1>6, SeqSame
  <1> QED
    BY <1>3, <1>5, <1>7 DEF places, c

\* The top record fails where the document stops.
LEMMA FailsThere ==
  ASSUME NEW fr, NEW tg, NEW sk, Goes(fr, tg, sk), fr # <<>>, NEW n, n = Len(fr), n \notin TaggedIx(fr),
         sk.kind = "json", n \in OpenIx(fr) /\ Kind(fr[n]) = "list" => input.fails
  PROVE  \E places : StopsAt(sk.open, places) /\ Leads(Front(fr), <<>>, places)
  <1> DEFINE open == sk.open
             m == UpTo(n - 1, OpenIx(fr))
             places == Stops(open, m)
  <1>1. Stacked(fr) /\ IsSeq(fr) /\ n \in Nat /\ n # 0 /\ n \in 1..n
    BY TopFacts DEF Goes
  <1> HIDE DEF m
  <1>2. /\ m \in Nat /\ Len(open) = UpTo(n, OpenIx(fr)) /\ OpenIn(sk) = open
        /\ Leads(Front(fr), <<>>, places)
        /\ \A k \in 1..m : open[k].is = "Object" => open[k].pending
    BY StopsBelow DEF m
  <1>3. CASE n \notin OpenIx(fr)
    <2>1. Len(open) = m
      BY <1>1, <1>2, <1>3, TopFacts DEF m
    <2>2. ~(m > 0 /\ open[m].is = "Object" /\ ~open[m].pending)
      BY <1>2
    <2> HIDE DEF open
    <2>3. Cursor(open) = places
      BY <1>2, <2>1, <2>2, CursorIs
    <2> QED
      BY <1>2, <2>3 DEF StopsAt, open
  <1>4. CASE n \in OpenIx(fr) /\ Kind(fr[n]) # "list"
    <2>1. Len(open) = m + 1
      BY <1>1, <1>2, <1>4, TopFacts DEF m
    <2>2. open[m + 1].is = "Object" /\ ~open[m + 1].pending
      <3>1. Last(open).is = "Object" /\ AtName(sk)
        BY <1>2, <1>4, TopOpen
      <3> QED
        BY <1>2, <2>1, <3>1 DEF AtName, Last
    <2>3. m + 1 \in Nat /\ m + 1 > 0 /\ (m + 1) - 1 = m
      BY <1>2
    <2> HIDE DEF open
    <2>4. Cursor(open) = places
      BY <2>1, <2>2, <2>3, CursorIs
    <2> QED
      BY <1>2, <2>4 DEF StopsAt, open
  <1>5. CASE n \in OpenIx(fr) /\ Kind(fr[n]) = "list"
    <2>1. Len(open) = m + 1
      BY <1>1, <1>2, <1>5, TopFacts DEF m
    <2>2. Last(open).is = "List" /\ open[m + 1].is = "List" /\ "List" # "Object"
      <3>1. Last(open).is = "List"
        BY <1>2, <1>5, TopOpen
      <3> QED
        BY <2>1, <3>1 DEF Last
    <2>3. m + 1 \in Nat
      BY <1>2
    <2> HIDE DEF open
    <2>4. Cursor(open) = Stops(open, m + 1)
      BY <2>1, <2>2, <2>3, CursorIs
    <2>5. Cursor(open) # <<>> /\ places = Front(Cursor(open))
      BY <1>2, <2>4, StopsFront
    <2> QED
      BY <1>2, <1>5, <2>2, <2>5 DEF StopsAt, open
  <1> QED
    BY <1>3, <1>4, <1>5

\* What stands at places, or would if the tag of the variant the path starts from
\* had been written.
Located(open, fr, path, places) ==
  /\ Leads(fr, path, places)
  /\ \/ StopsAt(open, places)
     \/ /\ input.fails /\ Cursor(open) # <<>> /\ AtTag(open) /\ places = Front(Cursor(open))
        /\ IF path = <<>> THEN fr # <<>> /\ Kind(Last(fr)) = "tagged"
           ELSE Last(path).in = "tagged"

\* A tag is refused at the variant's own record.
LEMMA TagLocated ==
  ASSUME NEW fr, NEW tg, NEW sk, Goes(fr, tg, sk), fr # <<>>, NEW n, n = Len(fr), n > 1,
         n \notin TaggedIx(fr), n \notin OpenIx(fr), Kind(fr[n - 1]) = "tagged",
         sk.kind = "json", input.fails, NEW t, TagRefused(fr, sk, t)
  PROVE  \E places : Located(t.open, Front(fr), <<>>, places)
  <1> DEFINE open == t.open
             m == UpTo(n - 1, OpenIx(fr))
             places == Stops(open, m)
             tag == Spell[input.strategy][Shape[fr[n - 1].shape].tag]
  <1>1. Stacked(fr) /\ IsSeq(fr) /\ n \in Nat /\ n # 0 /\ n \in 1..n
    BY TopFacts DEF Goes
  <1> HIDE DEF m
  <1>2. /\ m \in Nat /\ Len(sk.open) = m /\ OpenIn(sk) = sk.open
        /\ Leads(Front(fr), <<>>, Stops(sk.open, m))
    <2>1. UpTo(n, OpenIx(fr)) = m
      BY <1>1, TopFacts DEF m
    <2> QED
      BY <2>1, StopsBelow DEF m
  <1>3. t.kind = "json" /\ OpenIn(t) = open
    BY DEF TagRefused, OpenIn
  <1>4. /\ Len(open) = m + 1 /\ \A k \in 1..m : open[k] = sk.open[k]
        /\ open[m + 1].is = "Object"
    BY <1>2, <1>3 DEF TagRefused
  <1>5. /\ TagAt(fr, n) = <<tag>>
        /\ \/ open[m + 1].pending = FALSE
           \/ open[m + 1].pending = TRUE /\ open[m + 1].names = <<tag>>
    <2>1. TagAt(fr, n) = <<tag>>
      BY <1>1 DEF TagAt
    <2> QED
      BY <1>2, <1>3, <2>1 DEF TagRefused, Holds
  <1>6. Leads(Front(fr), <<>>, places)
    <2>1. places = Stops(sk.open, m)
      BY <1>4 DEF Stops
    <2> QED
      BY <1>2, <2>1
  <1>7. /\ IsSeq(Front(fr)) /\ Len(Front(fr)) = n - 1 /\ Front(fr)[n - 1] = fr[n - 1]
        /\ fr[n - 1].shape \in DOMAIN Shape
    <2>1. IsSeq(Front(fr)) /\ Len(Front(fr)) = n - 1 /\ Alike(fr, Front(fr), n - 1)
      BY <1>1, FrontStack
    <2>2. n - 1 \in 1..(n - 1) /\ n - 1 \in 1..n
      BY <1>1
    <2>3. IsFrame(fr[n - 1])
      BY <1>1, <2>2 DEF Stacked
    <2> QED
      BY <2>1, <2>2, <2>3, FrameFacts DEF Alike
  <1> HIDE DEF places
  <1>8. CASE open[m + 1].pending = FALSE
    <2>1. m + 1 \in Nat /\ m + 1 > 0 /\ (m + 1) - 1 = m
      BY <1>2
    <2> HIDE DEF open
    <2>2. Cursor(open) = places
      BY <1>4, <1>8, <2>1, CursorIs DEF places
    <2> QED
      BY <1>6, <2>2 DEF Located, StopsAt, open
  <1>9. CASE open[m + 1].pending = TRUE /\ open[m + 1].names = <<tag>>
    <2>1. m + 1 \in Nat
      BY <1>2
    <2> HIDE DEF open
    <2>2. Cursor(open) = Stops(open, m + 1)
      BY <1>4, <1>9, <2>1, CursorIs
    <2>3. Cursor(open) # <<>> /\ places = Front(Cursor(open))
      BY <1>2, <2>2, StopsFront DEF places
    <2>4. AtTag(open)
      <3>1. Last(open) = open[m + 1]
        BY <1>4 DEF Last
      <3>2. Shape[fr[n - 1].shape].kind = "tagged"
        BY DEF Kind
      <3> QED
        BY <1>4, <1>7, <1>9, <3>1, <3>2 DEF AtTag
    <2>5. Front(fr) # <<>> /\ Kind(Last(Front(fr))) = "tagged"
      <3>1. n - 1 # 0
        BY <1>1
      <3>2. Last(Front(fr)) = fr[n - 1]
        BY <1>7 DEF Last
      <3> QED
        BY <1>7, <3>1, <3>2, SeqFacts
    <2> QED
      BY <1>6, <2>3, <2>4, <2>5 DEF Located, open
  <1> QED
    BY <1>5, <1>8, <1>9

\* A failure returns through the top record, which adds the part it was writing.
LEMMA UnwindsThere ==
  ASSUME NEW fr, NEW tg, NEW sk, Failed(fr, tg, sk), fr # <<>>, NEW path, NEW places,
         Leads(fr, path, places), NEW label, label = Parts(Last(fr))[Last(fr).at].label
  PROVE  Leads(Front(fr), <<label>> \o path, places) /\ label.in = Kind(Last(fr))
  <1> DEFINE n == Len(fr)
             f == fr[n]
             gr == Front(fr)
             m == UpTo(n - 1, OpenIx(fr))
             rest == Places(path)
  <1>1. /\ Stacked(fr) /\ Active(fr, n) /\ IsSeq(fr) /\ n \in Nat /\ n # 0 /\ n \in 1..n
        /\ n - 1 \in Nat /\ n - 1 <= n /\ Last(fr) = f /\ IsFrame(f)
    BY TopFacts DEF Failed
  <1>2. /\ IsSeq(gr) /\ Len(gr) = n - 1 /\ Stacked(gr) /\ Alike(fr, gr, n - 1)
    BY <1>1, FrontStack
  <1>3. /\ \A i \in 1..(n - 1) : /\ i \in OpenIx(gr) <=> i \in OpenIx(fr)
                                 /\ UpTo(i, OpenIx(gr)) = UpTo(i, OpenIx(fr))
                                 /\ gr[i] = fr[i]
        /\ UpTo(n - 1, OpenIx(gr)) = m /\ m \in Nat
    <2>1. n - 1 <= Len(gr) /\ n - 1 <= Len(fr) /\ n - 1 \in 0..(n - 1)
      BY <1>1, <1>2
    <2>2. \A i \in 1..(n - 1) : i \in 0..(n - 1)
      OBVIOUS
    <2>3. \A i \in 1..(n - 1) : gr[i] = fr[i]
      BY <1>2 DEF Alike
    <2>4. m \in Nat
      BY <1>1, UpToNat
    <2> HIDE DEF gr
    <2> QED
      BY <1>1, <1>2, <2>1, <2>2, <2>3, <2>4, IxAlike
  <1> HIDE DEF gr
  <1>4. f.begun /\ f.at > 0 /\ label = Parts(f)[f.at].label
    BY <1>1 DEF Active
  <1>5. label.in = Kind(f) /\ Kind(f) \in Containers \cup {"tagged"}
    <2>1. /\ f.shape \in DOMAIN Shape /\ f.value \in Values[f.shape] /\ ~Refuses(f)
          /\ Kind(f) \in Containers \cup {"tagged"} /\ f.at \in Nat /\ f.at <= Len(Parts(f))
      BY <1>1, <1>4, FrameFacts
    <2>2. Len(Parts(f)) \in Nat
      BY <2>1, PartsSound
    <2>3. f.at \in 1..Len(Parts(f))
      BY <1>4, <2>1, <2>2
    <2> QED
      BY <1>4, <2>1, <2>3, PartLabels
  <1>6. /\ IsSeq(path) /\ IsSeq(rest) /\ IsSeq(places) /\ Len(places) = UpTo(n, OpenIx(fr)) + Len(rest)
        /\ \A i \in OpenIx(fr) : places[UpTo(i, OpenIx(fr))] = Parts(fr[i])[fr[i].at].label.part
        /\ \A j \in 1..Len(rest) : places[UpTo(n, OpenIx(fr)) + j] = rest[j]
    BY DEF Leads
  <1>7. IsSeq(<<label>> \o path) /\ Places(<<label>> \o path) = Under(label, rest)
    BY <1>6, PlacesUnder
  <1>8. ASSUME NEW i \in OpenIx(gr)
        PROVE  places[UpTo(i, OpenIx(gr))] = Parts(gr[i])[gr[i].at].label.part
    <2>1. i \in 1..(n - 1)
      BY <1>2 DEF OpenIx
    <2> QED
      BY <1>3, <1>6, <2>1
  <1>9. label.in = Kind(Last(fr))
    BY <1>1, <1>5
  <1> HIDE DEF rest
  <1>10. CASE Kind(f) = "tagged"
    <2>1. UpTo(n, OpenIx(fr)) = m
      <3>1. n \notin OpenIx(fr)
        BY <1>10 DEF OpenIx, Containers
      <3> QED
        BY <1>1, <3>1, TopFacts
    <2>2. Places(<<label>> \o path) = rest
      BY <1>5, <1>7, <1>10 DEF Under
    <2> HIDE DEF m
    <2> QED
      BY <1>2, <1>3, <1>6, <1>7, <1>8, <2>1, <2>2, <1>9, ZenonT(30) DEF Leads, gr
  <1>11. CASE Kind(f) # "tagged"
    <2>1. n \in OpenIx(fr) /\ UpTo(n, OpenIx(fr)) = m + 1
      <3>1. n \in OpenIx(fr)
        BY <1>1, <1>4, <1>5, <1>11 DEF OpenIx
      <3> QED
        BY <1>1, <3>1, TopFacts
    <2> DEFINE new == <<label.part>> \o rest
    <2>2. Places(<<label>> \o path) = new
      BY <1>5, <1>7, <1>11 DEF Under
    <2>3. IsSeq(<<label.part>>) /\ Len(<<label.part>>) = 1 /\ <<label.part>>[1] = label.part
      BY SeqOne
    <2>4. Len(rest) \in Nat
      BY <1>6, SeqFacts
    <2>5. /\ IsSeq(new) /\ Len(new) = 1 + Len(rest)
          /\ \A j \in 1..(1 + Len(rest)) : new[j] = IF j <= 1 THEN <<label.part>>[j] ELSE rest[j - 1]
      BY <1>6, <2>3, SeqConcat
    <2> HIDE DEF m, new
    <2>6. Len(places) = m + Len(new)
      BY <1>3, <1>6, <2>1, <2>4, <2>5
    <2>7. places[m + 1] = label.part
      BY <1>4, <1>6, <2>1
    <2>8. ASSUME NEW j \in 1..Len(new) PROVE places[m + j] = new[j]
      <3>1. CASE j = 1
        <4>1. new[1] = label.part
          BY <2>3, <2>4, <2>5
        <4> QED
          BY <2>7, <3>1, <4>1
      <3>2. CASE j # 1
        <4>1. j - 1 \in 1..Len(rest) /\ j \in 1..(1 + Len(rest)) /\ ~(j <= 1) /\ (m + 1) + (j - 1) = m + j
          BY <1>3, <2>4, <2>5, <3>2
        <4>2. new[j] = rest[j - 1]
          BY <2>5, <4>1
        <4>3. places[(m + 1) + (j - 1)] = rest[j - 1]
          BY <1>6, <2>1, <4>1
        <4> QED
          BY <4>1, <4>2, <4>3
      <3> QED
        BY <3>1, <3>2
    <2> QED
      BY <1>2, <1>3, <1>6, <1>7, <1>8, <1>9, <2>2, <2>5, <2>6, <2>8 DEF Leads, gr
  <1> QED
    BY <1>10, <1>11

\* So it is still located.
LEMMA UnwindsLocated ==
  ASSUME NEW fr, NEW tg, NEW sk, Failed(fr, tg, sk), fr # <<>>, NEW path, NEW open, NEW places,
         Located(open, fr, path, places), NEW label, label = Parts(Last(fr))[Last(fr).at].label
  PROVE  Located(open, Front(fr), <<label>> \o path, places)
  <1> DEFINE more == <<label>> \o path
  <1>1. Leads(fr, path, places)
    BY DEF Located
  <1>2. Leads(Front(fr), more, places) /\ label.in = Kind(Last(fr))
    BY <1>1, UnwindsThere
  <1>3. /\ IsSeq(path) /\ IsSeq(<<label>>) /\ Len(<<label>>) = 1 /\ <<label>>[1] = label
        /\ Len(path) \in Nat
    BY <1>1, SeqOne, SeqFacts DEF Leads
  <1>4. /\ IsSeq(more) /\ Len(more) = 1 + Len(path)
        /\ \A i \in 1..(1 + Len(path)) : more[i] = IF i <= 1 THEN <<label>>[i] ELSE path[i - 1]
    BY <1>3, SeqConcat
  <1> HIDE DEF more
  <1>5. more # <<>>
    BY <1>3, <1>4, SeqFacts
  <1>6. Last(more) = IF path = <<>> THEN label ELSE Last(path)
    <2>1. 1 + Len(path) \in 1..(1 + Len(path)) /\ (1 + Len(path)) - 1 = Len(path)
      BY <1>3
    <2>2. CASE path = <<>>
      <3>1. Len(path) = 0
        BY <2>2, SeqEmpty
      <3> QED
        BY <1>3, <1>4, <2>1, <2>2, <3>1 DEF Last
    <2>3. CASE path # <<>>
      <3>1. Len(path) # 0
        BY <1>3, <2>3, SeqFacts
      <3>2. ~(1 + Len(path) <= 1)
        BY <1>3, <3>1
      <3>3. more[1 + Len(path)] = path[Len(path)]
        BY <1>4, <2>1, <3>2
      <3> QED
        BY <1>4, <2>3, <3>3 DEF Last
    <2> QED
      BY <2>2, <2>3
  <1>7. CASE StopsAt(open, places)
    BY <1>2, <1>7 DEF Located, more
  <1>8. CASE ~StopsAt(open, places)
    <2>1. /\ input.fails /\ Cursor(open) # <<>> /\ AtTag(open) /\ places = Front(Cursor(open))
          /\ IF path = <<>> THEN fr # <<>> /\ Kind(Last(fr)) = "tagged" ELSE Last(path).in = "tagged"
      BY <1>8 DEF Located
    <2>2. Last(more).in = "tagged"
      BY <1>2, <1>6, <2>1
    <2> QED
      BY <1>2, <1>5, <2>1, <2>2 DEF Located, more
  <1> QED
    BY <1>7, <1>8

\* Once a JSON document has failed: the path so far leads to where it stops.
LocatedInv ==
  failure # <<>> /\ sink.kind = "json" =>
    \E places : Located(sink.open, frames, failure[1], places)

\* A call a sink refuses leaves its containers as they were.
LEMMA RefusedCall ==
  ASSUME NEW s, s.err = "none", s.kind = "json", NEW call, SinkCall(s, call).err # "none",
         NEW o, NEW e, s = [kind |-> "json", out |-> o, open |-> e, err |-> "none"]
  PROVE  SinkCall(s, call).open = s.open
  <1>1. SinkCall(s, call) = WriteToken(s, JsonToken(call))
    BY DEF SinkCall
  <1> QED
    BY <1>1 DEF WriteToken

\* What fits an encoding fits it as long as it is the same encoding.
LEMMA SamePlaces ==
  ASSUME input' = input
  PROVE  \A open, fr, path, places :
           Located(open, fr, path, places)' <=> Located(open, fr, path, places)
  <1>1. \A f : Parts(f)' = Parts(f)
    BY PartsStay
  <1>2. \A open, places : StopsAt(open, places)' <=> StopsAt(open, places)
    BY DEF StopsAt
  <1>3. \A fr, path, places : Leads(fr, path, places)' <=> Leads(fr, path, places)
    BY <1>1 DEF Leads
  <1>4. \A open : AtTag(open)' <=> AtTag(open)
    BY DEF AtTag
  <1> QED
    BY <1>2, <1>3, <1>4 DEF Located

\* After a step that goes on there is nothing to locate.
LEMMA LocatedGoes ==
  ASSUME failure' = <<>>
  PROVE  LocatedInv'
  BY DEF LocatedInv

\* After one that fails, the places it leads to are judged as before it.
LEMMA LocatedNext ==
  ASSUME input' = input, sink'.kind = sink.kind,
         sink.kind = "json" =>
           \E places : Located(sink'.open, frames', failure'[1], places)
  PROVE  LocatedInv'
  <1>1. ASSUME sink'.kind = "json"
        PROVE  (\E places : Located(sink.open, frames, failure[1], places))'
    <2>1. PICK places : Located(sink'.open, frames', failure'[1], places)
      BY <1>1
    <2>2. Located(sink.open, frames, failure[1], places)'
      BY <2>1, SamePlaces
    <2> QED
      BY <2>2
  <1> QED
    BY <1>1 DEF LocatedInv

\* A step that fails without writing.
LEMMA FailLocated ==
  ASSUME IInv, Running, Len(frames) \notin TaggedIx(frames), Fail, input' = input,
         sink'.kind = sink.kind, sink.kind = "json" => sink'.open = sink.open,
         Len(frames) \in OpenIx(frames) /\ Kind(Top) = "list" => input.fails
  PROVE  LocatedInv'
  <1>1. /\ Goes(frames, tags, sink) /\ frames # <<>> /\ Top = frames[Len(frames)]
        /\ frames' = Front(frames) /\ failure' = <<<<>>>> /\ failure'[1] = <<>>
    BY TopRuns, SeqOne DEF Fail
  <1>2. ASSUME sink.kind = "json"
        PROVE  \E places : Located(sink.open, Front(frames), <<>>, places)
    BY <1>1, <1>2, FailsThere DEF Located
  <1>3. ASSUME sink.kind = "json"
        PROVE  \E places : Located(sink'.open, frames', failure'[1], places)
    BY <1>1, <1>2, <1>3
  <1> QED
    BY <1>3, LocatedNext

\* The failure returns through one record.
LEMMA UnwindLocated ==
  ASSUME IInv, LocatedInv, Unwind
  PROVE  LocatedInv'
  <1> DEFINE label == Parts(Top)[Top.at].label
  <1>1. /\ frames # <<>> /\ failure # <<>> /\ failure' = <<<<label>> \o failure[1]>>
        /\ frames' = Front(frames) /\ input' = input /\ sink' = sink /\ Top = Last(frames)
    BY DEF Unwind, Top
  <1>2. failure'[1] = <<label>> \o failure[1]
    BY <1>1, SeqOne
  <1>3. Failed(frames, tags, sink)
    BY <1>1 DEF IInv
  <1>4. label = Parts(Last(frames))[Last(frames).at].label
    BY <1>1
  <1> HIDE DEF label
  <1>5. ASSUME sink.kind = "json"
        PROVE  \E places : Located(sink'.open, frames', failure'[1], places)
    <2>1. PICK places : Located(sink.open, frames, failure[1], places)
      BY <1>1, <1>5 DEF LocatedInv
    <2>2. Located(sink.open, Front(frames), <<label>> \o failure[1], places)
      BY <1>1, <1>3, <1>4, <2>1, UnwindsLocated
    <2> QED
      BY <1>1, <1>2, <2>1, <2>2
  <1>6. sink'.kind = sink.kind
    BY <1>1
  <1> QED
    BY <1>1, <1>5, <1>6, LocatedNext

\* Every step keeps the failure's path on the way to where the document stops.
LEMMA LocatedSteps ==
  ASSUME IInv, LocatedInv, [Next]_vars
  PROVE  LocatedInv'
  <1>1. CASE UNCHANGED vars
    <2>1. input' = input /\ frames' = frames /\ sink' = sink /\ failure' = failure
      BY <1>1 DEF vars
    <2>2. CASE failure = <<>>
      BY <2>1, <2>2, LocatedGoes
    <2>3. CASE failure # <<>>
      <3>1. ASSUME sink.kind = "json"
            PROVE  \E places : Located(sink'.open, frames', failure'[1], places)
        BY <2>1, <2>3, <3>1 DEF LocatedInv
      <3>2. sink'.kind = sink.kind
        BY <2>1
      <3> QED
        BY <2>1, <3>1, <3>2, LocatedNext
    <2> QED
      BY <2>2, <2>3
  <1>2. CASE Refuse
    <2>1. Running /\ ~Top.begun /\ Fail /\ input' = input /\ sink' = sink
      BY <1>2 DEF Refuse
    <2>2. Len(frames) \notin TaggedIx(frames) /\ Len(frames) \notin OpenIx(frames)
      BY <2>1, TopRuns DEF OpenIx
    <2> QED
      BY <2>1, <2>2, FailLocated
  <1>3. CASE WriterFails
    <2>1. Running /\ Writing(Top) /\ Fail /\ input' = input /\ sink' = sink /\ input.fails
      BY <1>3 DEF WriterFails
    <2>2. Len(frames) \notin TaggedIx(frames)
      <3>1. Kind(Top) # "tagged"
        BY <2>1 DEF Writing, Scalars, Containers
      <3> QED
        BY <2>1, <3>1, TopRuns
    <2> QED
      BY <2>1, <2>2, FailLocated
  <1>4. CASE TagFails
    <2>1. /\ Running /\ Fail /\ input' = input /\ input.fails /\ Len(frames) > 1
          /\ Kind(frames[Len(frames) - 1]) = "tagged" /\ Len(frames) \notin TaggedIx(frames)
          /\ Len(frames) \notin OpenIx(frames) /\ TagRefused(frames, sink, sink')
      BY <1>4, TagFailsThere
    <2>2. /\ Goes(frames, tags, sink) /\ frames # <<>>
          /\ frames' = Front(frames) /\ failure' = <<<<>>>> /\ failure'[1] = <<>>
      BY <2>1, TopRuns, SeqOne DEF Fail
    <2>3. ASSUME sink.kind = "json"
          PROVE  \E places : Located(sink'.open, Front(frames), <<>>, places)
      BY <2>1, <2>2, <2>3, TagLocated
    <2>4. ASSUME sink.kind = "json"
          PROVE  \E places : Located(sink'.open, frames', failure'[1], places)
      BY <2>2, <2>3, <2>4
    <2>5. sink'.kind = sink.kind
      BY <2>1 DEF TagRefused
    <2> QED
      BY <2>1, <2>4, <2>5, LocatedNext
  <1>5. CASE WritePart
    <2>1. Running /\ Kind(Top) \in Containers /\ input' = input
      BY <1>5 DEF WritePart
    <2>2. CASE failure' = <<>>
      BY <2>2, LocatedGoes
    <2>3. CASE /\ Fail /\ Kind(Top) # "list" /\ sink'.kind = sink.kind
               /\ sink.kind = "json" => sink'.open = sink.open
      <3>1. Kind(Top) # "tagged"
        BY <2>1 DEF Containers
      <3>2. Len(frames) \notin TaggedIx(frames)
        BY <2>1, <3>1, TopRuns
      <3> QED
        BY <2>1, <2>3, <3>2, FailLocated
    <2> QED
      BY <1>5, <2>2, <2>3, WritePartStep
  <1>6. CASE Unwind
    BY <1>6, UnwindLocated
  <1>7. CASE WriteScalar \/ WriteNil \/ EnterInner \/ EnterVariant \/ LeaveVariant
             \/ BeginContainer \/ EndContainer
    <2>1. failure' = <<>>
      BY <1>7, WriteScalarStep, WriteNilStep, EnterInnerStep, EnterVariantStep, LeaveVariantStep,
         BeginContainerStep, EndContainerStep
    <2> QED
      BY <2>1, LocatedGoes
  <1>8. CASE Finished
    BY <1>1, <1>8 DEF Finished
  <1> QED
    BY <1>1, <1>2, <1>3, <1>4, <1>5, <1>6, <1>7, <1>8 DEF Next, Step

\* Once all records have returned, the path alone leads there.
LEMMA LocatedHolds ==
  ASSUME IInv, LocatedInv
  PROVE  FailureLocated
  <1> SUFFICES ASSUME frames = <<>>, failure # <<>>, sink.kind = "json"
               PROVE  LET path == Places(failure[1])
                          cursor == Cursor(sink.open)
                      IN  \/ path = cursor
                          \/ /\ input.fails /\ cursor # <<>> /\ path = Front(cursor)
                             /\ \/ Last(sink.open).is = "List"
                                \/ /\ AtTag(sink.open) /\ failure[1] # <<>>
                                   /\ Last(failure[1]).in = "tagged"
    BY DEF FailureLocated
  <1>1. PICK places : Located(sink.open, frames, failure[1], places)
    BY DEF LocatedInv
  <1> DEFINE path == Places(failure[1])
  <1>2. Len(frames) = 0
    BY SeqEmpty
  <1>3. OpenIx(frames) = {}
    BY <1>2 DEF OpenIx
  <1>4. UpTo(Len(frames), OpenIx(frames)) = 0
    BY <1>2, <1>3, UpToNone
  <1>5. /\ IsSeq(path) /\ IsSeq(places) /\ Len(places) = 0 + Len(path)
        /\ \A j \in 1..Len(path) : places[0 + j] = path[j]
    BY <1>1, <1>4 DEF Located, Leads
  <1> HIDE DEF path
  <1>6. path = places
    <2>1. Len(path) \in Nat
      BY <1>5, SeqFacts
    <2>2. Len(places) = Len(path) /\ \A j \in 1..Len(path) : places[j] = path[j]
      <3>1. \A j \in 1..Len(path) : 0 + j = j
        BY <2>1
      <3> QED
        BY <1>5, <2>1, <3>1
    <2> QED
      BY <1>5, <2>2, SeqSame
  <1> QED
    BY <1>1, <1>6 DEF Located, StopsAt, path

\* The path of a failed JSON encode is where the document it left stops: every
\* encode function adds its own part, once, as the error returns through it
\* (error.go), however unions, tagged unions, lists and maps are nested.
THEOREM FailureLocatedAlways == Spec => []FailureLocated
  <1>1. Init => LocatedInv
    BY DEF Init, LocatedInv
  <1>2. IInv /\ LocatedInv /\ [Next]_vars => LocatedInv'
    BY LocatedSteps
  <1>3. IInv /\ LocatedInv => FailureLocated
    BY LocatedHolds
  <1> QED
    BY <1>1, <1>2, <1>3, Inductive, PTL DEF Spec
=============================================================================
