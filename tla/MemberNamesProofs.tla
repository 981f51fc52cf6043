------------------------- MODULE MemberNamesProofs --------------------------
(***************************************************************************)
(* MemberNames for any number of goroutines, strategies, fields and        *)
(* allocations: the cache's invariants and its implementation of           *)
(* SpellOnce.                                                              *)
(***************************************************************************)
EXTENDS MemberNames, TLAPS

\* A missing spelling is told from every spelling by its strategy, which is
\* none (the nil that sync.Map's Load reports as not found).
LEMMA NoSpellingIsNone == NoSpelling \notin Spelling /\ LiteralSpelling \in Spelling
  BY StrategyAssumption, BoundAssumption DEF NoSpelling, Spelling, LiteralSpelling

\* The cache's inductive invariant holds of the schema as it is made.
LEMMA CacheInit == Init => CacheInv
  <1> SUFFICES ASSUME Init PROVE CacheInv
    OBVIOUS
  <1>1. TypeOK
    BY BoundAssumption DEF Init, TypeOK, Steps
  <1>2. CallsConsistent
    BY DEF Init, CallsConsistent
  <1>3. FiledUnderItsName /\ LiteralNeverFiled /\ GivenIsFiled
    BY DEF Init, FiledUnderItsName, LiteralNeverFiled, GivenIsFiled
  <1> QED
    BY <1>1, <1>2, <1>3 DEF CacheInv

\* Every step of memberNames.under keeps the inductive invariant.
LEMMA CacheStep == CacheInv /\ [Next]_vars => CacheInv'
  <1> SUFFICES ASSUME CacheInv, [Next]_vars PROVE CacheInv'
    OBVIOUS
  <1> USE NoSpellingIsNone, StrategyAssumption, BoundAssumption DEF CacheInv, TypeOK, Steps
  <1>1. ASSUME NEW g \in Goroutines, Under(g) PROVE CacheInv'
    <2>1. TypeOK' /\ CallsConsistent'
      BY <1>1 DEF Under, CallsConsistent
    <2>2. (FiledUnderItsName /\ LiteralNeverFiled /\ GivenIsFiled)'
      BY <1>1 DEF Under, FiledUnderItsName, LiteralNeverFiled, GivenIsFiled
    <2> QED
      BY <2>1, <2>2
  <1>2. ASSUME NEW g \in Goroutines, ReturnLiteral(g) PROVE CacheInv'
    <2>1. TypeOK' /\ CallsConsistent'
      BY <1>2 DEF ReturnLiteral, Return, CallsConsistent
    <2>2. (FiledUnderItsName /\ LiteralNeverFiled /\ GivenIsFiled)'
      BY <1>2 DEF ReturnLiteral, Return, FiledUnderItsName, LiteralNeverFiled, GivenIsFiled
    <2> QED
      BY <2>1, <2>2
  <1>3. ASSUME NEW g \in Goroutines, LoadHit(g) PROVE CacheInv'
    <2>1. TypeOK' /\ CallsConsistent'
      BY <1>3 DEF LoadHit, Return, CallsConsistent
    <2>2. (FiledUnderItsName /\ LiteralNeverFiled)'
      BY <1>3 DEF LoadHit, FiledUnderItsName, LiteralNeverFiled
    <2>3. GivenIsFiled'
      <3> DEFINE found == byStrategy[NameOf[strategy[g]]]
      <3>1. NameOf[strategy[g]] \in Names
        BY <1>3 DEF LoadHit, CallsConsistent
      <3>2. found \in Spelling /\ NameOf[found.of] = NameOf[strategy[g]]
        BY <1>3, <3>1 DEF LoadHit, FiledUnderItsName
      <3>3. got' = [got EXCEPT ![g] = found] /\ byStrategy' = byStrategy
        BY <1>3 DEF LoadHit, Return
      <3> QED
        BY <3>2, <3>3 DEF GivenIsFiled
    <2> QED
      BY <2>1, <2>2, <2>3
  <1>4. ASSUME NEW g \in Goroutines, LoadMiss(g) PROVE CacheInv'
    <2>1. TypeOK' /\ CallsConsistent'
      BY <1>4 DEF LoadMiss, CallsConsistent
    <2>2. (FiledUnderItsName /\ LiteralNeverFiled /\ GivenIsFiled)'
      BY <1>4 DEF LoadMiss, FiledUnderItsName, LiteralNeverFiled, GivenIsFiled
    <2> QED
      BY <2>1, <2>2
  <1>5. ASSUME NEW g \in Goroutines, SpellFields(g) PROVE CacheInv'
    <2>1. strategy[g] \in Strategies /\ strategy[g] # Literal
      BY <1>5 DEF SpellFields, CallsConsistent
    <2>2. [of |-> strategy[g], serial |-> made + 1] \in Spelling
      BY <1>5, <2>1 DEF SpellFields, Spelling
    <2>3. TypeOK' /\ CallsConsistent'
      BY <1>5, <2>1, <2>2 DEF SpellFields, CallsConsistent
    <2>4. (FiledUnderItsName /\ LiteralNeverFiled /\ GivenIsFiled)'
      BY <1>5 DEF SpellFields, FiledUnderItsName, LiteralNeverFiled, GivenIsFiled
    <2> QED
      BY <2>3, <2>4
  <1>6. ASSUME NEW g \in Goroutines, LoadOrStoreLoads(g) PROVE CacheInv'
    <2>1. TypeOK' /\ CallsConsistent'
      BY <1>6 DEF LoadOrStoreLoads, Return, CallsConsistent
    <2>2. (FiledUnderItsName /\ LiteralNeverFiled)'
      BY <1>6 DEF LoadOrStoreLoads, FiledUnderItsName, LiteralNeverFiled
    <2>3. GivenIsFiled'
      <3> DEFINE found == byStrategy[NameOf[strategy[g]]]
      <3>1. NameOf[strategy[g]] \in Names
        BY <1>6 DEF LoadOrStoreLoads, CallsConsistent
      <3>2. found \in Spelling /\ NameOf[found.of] = NameOf[strategy[g]]
        BY <1>6, <3>1 DEF LoadOrStoreLoads, FiledUnderItsName
      <3>3. got' = [got EXCEPT ![g] = found] /\ byStrategy' = byStrategy
        BY <1>6 DEF LoadOrStoreLoads, Return
      <3> QED
        BY <3>2, <3>3 DEF GivenIsFiled
    <2> QED
      BY <2>1, <2>2, <2>3
  <1>7. ASSUME NEW g \in Goroutines, LoadOrStoreStores(g) PROVE CacheInv'
    <2>1. /\ own[g] \in Spelling
          /\ own[g].of = strategy[g]
          /\ strategy[g] \in Strategies \ {Literal}
          /\ NameOf[strategy[g]] \in Names
      BY <1>7 DEF LoadOrStoreStores, CallsConsistent, Spelling
    <2>2. TypeOK' /\ CallsConsistent'
      BY <1>7, <2>1 DEF LoadOrStoreStores, Return, CallsConsistent
    <2>3. (FiledUnderItsName /\ LiteralNeverFiled)'
      BY <1>7, <2>1 DEF LoadOrStoreStores, FiledUnderItsName, LiteralNeverFiled
    <2>4. GivenIsFiled'
      BY <1>7, <2>1 DEF LoadOrStoreStores, Return, GivenIsFiled
    <2> QED
      BY <2>2, <2>3, <2>4
  <1>8. CASE UNCHANGED vars
    BY <1>8 DEF vars, CallsConsistent, FiledUnderItsName, LiteralNeverFiled, GivenIsFiled
  <1> QED
    BY <1>1, <1>2, <1>3, <1>4, <1>5, <1>6, <1>7, <1>8 DEF Next, Step

\* The inductive invariant, and the type invariant in it, hold throughout.
THEOREM CacheInvariant == Spec => []CacheInv
  BY CacheInit, CacheStep, PTL DEF Spec

\* The cache's variables keep their types (memberNames, fieldSpelling).
THEOREM TypeCorrect == Spec => []TypeOK
  BY CacheInvariant, PTL DEF CacheInv

\* Two goroutines that ask for one strategy are given one spelling, however
\* their calls of memberNames.under interleave.
THEOREM OneSpelling == Spec => []OneSpellingPerStrategy
  <1>1. CacheInv => OneSpellingPerStrategy
    <2> SUFFICES ASSUME CacheInv,
                        NEW g \in Goroutines, NEW h \in Goroutines,
                        got[g] # NoSpelling, got[g].of = got[h].of
                 PROVE  got[g] = got[h]
      BY DEF OneSpellingPerStrategy
    <2> USE NoSpellingIsNone, StrategyAssumption
    <2>1. got[g] \in Spelling /\ got[h] \in Spelling
      BY DEF CacheInv, TypeOK, NoSpelling, Spelling
    <2>2. CASE got[g] = LiteralSpelling
      BY <2>1, <2>2 DEF CacheInv, TypeOK, GivenIsFiled, LiteralNeverFiled, LiteralSpelling, Spelling
    <2>3. CASE got[h] = LiteralSpelling
      BY <2>1, <2>3 DEF CacheInv, TypeOK, GivenIsFiled, LiteralNeverFiled, LiteralSpelling, Spelling
    <2>4. CASE got[g] # LiteralSpelling /\ got[h] # LiteralSpelling
      BY <2>1, <2>4 DEF CacheInv, GivenIsFiled
    <2> QED
      BY <2>2, <2>3, <2>4
  <1> QED
    BY <1>1, CacheInvariant, PTL

\* A stored spelling is of the strategy it is filed under (LoadOrStore's key
\* and value are of the same call).
THEOREM Filed == Spec => []FiledUnderItsName
  BY CacheInvariant, PTL DEF CacheInv

\* LoadOrStore never replaces a spelling that is in the map.
THEOREM StoredOnce == Spec => NeverRespelled
  <1>1. CacheInv /\ [Next]_vars =>
          [\A n \in Names : byStrategy[n] # NoSpelling => byStrategy'[n] = byStrategy[n]]_vars
    <2> SUFFICES ASSUME CacheInv, Next, NEW n \in Names, byStrategy[n] # NoSpelling
                 PROVE  byStrategy'[n] = byStrategy[n]
      OBVIOUS
    <2>1. PICK g \in Goroutines : Under(g) \/ Step(g)
      BY DEF Next
    <2>2. CASE LoadOrStoreStores(g)
      BY <2>2 DEF LoadOrStoreStores, CacheInv, TypeOK
    <2>3. CASE UNCHANGED byStrategy
      BY <2>3
    <2> QED
      BY <2>1, <2>2, <2>3 DEF Step, Under, ReturnLiteral, LoadHit, LoadMiss, SpellFields, LoadOrStoreLoads
  <1> QED
    BY <1>1, CacheInvariant, PTL DEF Spec, NeverRespelled

\* spellFields: where a strategy spells no two fields alike, the decoder's
\* index finds each spelled name to be the field it was spelled for.
LEMMA ByNameInverts ==
  ASSUME NEW fields, DOMAIN fields \subseteq Nat,
         NEW s, ~SpellingFault(fields, s), NEW i \in DOMAIN fields
  PROVE  ByName(fields, s, SpelledName(fields, s, i)) = i
  <1>1. \A j \in DOMAIN fields : SpelledName(fields, s, j) = SpelledName(fields, s, i) => j = i
    BY DEF SpellingFault
  <1> QED
    BY <1>1 DEF ByName

\* spellFields: and it requires exactly the names of the required fields.
LEMMA RequiredIsExact ==
  ASSUME NEW fields, DOMAIN fields \subseteq Nat,
         NEW s, ~SpellingFault(fields, s), NEW i \in DOMAIN fields
  PROVE  SpelledName(fields, s, i) \in Required(fields, s) <=> ~fields[i].optional
  <1>1. \A j \in DOMAIN fields : SpelledName(fields, s, j) = SpelledName(fields, s, i) => j = i
    BY DEF SpellingFault
  <1> QED
    BY <1>1 DEF Required

\* A decoder finds what an encoder wrote under the same strategy, whichever
\* goroutine spelled it (encodeFields, decodeFields).
THEOREM WriterReader == Spec => []WriterAndReaderAgree
  <1>1. WriterAndReaderAgree
    <2>1. DOMAIN Fields \subseteq Nat
      BY FieldAssumption
    <2> QED
      BY <2>1, ByNameInverts, RequiredIsExact DEF WriterAndReaderAgree, Index
  <1> QED
    BY <1>1, PTL

\* The lock-free cache implements the specification that spells a strategy
\* in one step, the first time it is asked for.
THEOREM Implements == Spec => ImplementsSpellOnce
  <1> USE NoSpellingIsNone, StrategyAssumption
      DEF NoSpelling, LiteralSpelling, Spelling, Once!NoSpelling, Once!LiteralSpelling, Once!Spelling
  <1>1. Init => Once!Init
    BY DEF Init, Once!Init
  <1>2. CacheInv /\ [Next]_vars => [Once!Next]_Once!vars
    <2> SUFFICES ASSUME CacheInv, NEW g \in Goroutines, Under(g) \/ Step(g)
                 PROVE  Once!Next \/ UNCHANGED Once!vars
      BY DEF Next, vars, Once!vars
    <2> USE DEF CacheInv, TypeOK, CallsConsistent
    <2>1. CASE Under(g)
      BY <2>1 DEF Under, Once!Next, Once!Ask
    <2>2. CASE ReturnLiteral(g)
      BY <2>2 DEF ReturnLiteral, Return, Once!Next, Once!ReplyLiteral
    <2>3. CASE LoadHit(g)
      BY <2>3 DEF LoadHit, Return, Once!Next, Once!ReplyKnown
    <2>4. CASE LoadMiss(g) \/ SpellFields(g)
      BY <2>4 DEF LoadMiss, SpellFields, Once!vars
    <2>5. CASE LoadOrStoreLoads(g)
      BY <2>5 DEF LoadOrStoreLoads, Return, Once!Next, Once!ReplyKnown
    <2>6. CASE LoadOrStoreStores(g)
      BY <2>6 DEF LoadOrStoreStores, Return, Once!Next, Once!ReplyFirst
    <2> QED
      BY <2>1, <2>2, <2>3, <2>4, <2>5, <2>6 DEF Step
  <1> QED
    BY <1>1, <1>2, CacheInvariant, PTL DEF Spec, ImplementsSpellOnce, Once!Spec
=============================================================================
