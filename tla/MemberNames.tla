----------------------------- MODULE MemberNames -----------------------------
(***************************************************************************)
(* An object schema's member names as each format spells them              *)
(* (schema/object_naming.go).  One memberNames is shared by every          *)
(* goroutine that encodes or decodes with the schema.  It is a sync.Map    *)
(* from strategy name to spelling, filled without a lock: a goroutine      *)
(* that misses spells the fields itself and offers the result, and the     *)
(* first offer wins.  nameSpelling, a tagged union's tag, is filled by     *)
(* the same steps.                                                         *)
(***************************************************************************)
EXTENDS FieldSpelling

CONSTANTS
  Goroutines, Strategies, Literal, Names, NameOf, None,  \* as in SpellOnce
  Fields,     \* the object's fields, in order: [name, exact, optional] each
  MemberName, \* every member name, declared or spelled
  MaxSpellings \* bound on the allocations of a spelling

Spelling == [of : Strategies, serial : 0..MaxSpellings]
NoSpelling == [of |-> None, serial |-> 0]
LiteralSpelling == [of |-> Literal, serial |-> 0]

\* A strategy's name is how two uses of it are known to be the same one: that
\* is the contract of naming.Custom, and the map is keyed by it.
ASSUME StrategyAssumption ==
  /\ Literal \in Strategies
  /\ None \notin Strategies
  /\ NameOf \in [Strategies -> Names]
  /\ \A s, t \in Strategies : NameOf[s] = NameOf[t] => s = t

\* A schema whose declared names are not distinct is refused when it is
\* declared (firstFieldFault), so it never has a memberNames.
ASSUME FieldAssumption ==
  /\ Fields \in Seq([name : MemberName, exact : BOOLEAN, optional : BOOLEAN])
  /\ \A i, j \in DOMAIN Fields : Fields[i].name = Fields[j].name => i = j
  /\ Spell \in [Strategies -> [MemberName -> MemberName]]
  /\ \A n \in MemberName : Spell[Literal][n] = n

ASSUME BoundAssumption == MaxSpellings \in Nat

Index == DOMAIN Fields

----------------------------------------------------------------------------
VARIABLES
  byStrategy, \* the sync.Map: strategy name -> spelling, or NoSpelling
  pc,         \* where each goroutine is in memberNames.under
  strategy,   \* the strategy its sink or source states
  own,        \* the spelling it made after a miss
  got,        \* the spelling under() last returned to it
  made        \* how many spellings have been allocated

vars == <<byStrategy, pc, strategy, own, got, made>>

Init ==
  /\ byStrategy = [n \in Names |-> NoSpelling]
  /\ pc = [g \in Goroutines |-> "idle"]
  /\ strategy = [g \in Goroutines |-> None]
  /\ own = [g \in Goroutines |-> NoSpelling]
  /\ got = [g \in Goroutines |-> NoSpelling]
  /\ made = 0

\* An encoder or decoder calls names.under(strategy of its sink or source).
Under(g) ==
  /\ pc[g] = "idle"
  /\ \E s \in Strategies : strategy' = [strategy EXCEPT ![g] = s]
  /\ pc' = [pc EXCEPT ![g] = "called"]
  /\ UNCHANGED <<byStrategy, own, got, made>>

Return(g, spelling) ==
  /\ got' = [got EXCEPT ![g] = spelling]
  /\ strategy' = [strategy EXCEPT ![g] = None]
  /\ own' = [own EXCEPT ![g] = NoSpelling]
  /\ pc' = [pc EXCEPT ![g] = "idle"]

ReturnLiteral(g) ==
  /\ pc[g] = "called"
  /\ strategy[g] = Literal
  /\ Return(g, LiteralSpelling)
  /\ UNCHANGED <<byStrategy, made>>

LoadHit(g) ==
  /\ pc[g] = "called"
  /\ strategy[g] # Literal
  /\ byStrategy[NameOf[strategy[g]]] # NoSpelling
  /\ Return(g, byStrategy[NameOf[strategy[g]]])
  /\ UNCHANGED <<byStrategy, made>>

LoadMiss(g) ==
  /\ pc[g] = "called"
  /\ strategy[g] # Literal
  /\ byStrategy[NameOf[strategy[g]]] = NoSpelling
  /\ pc' = [pc EXCEPT ![g] = "missed"]
  /\ UNCHANGED <<byStrategy, strategy, own, got, made>>

\* Slip: a miss spells the fields as they were declared.
SpellFieldsLiterally(g) ==
  /\ pc[g] = "missed"
  /\ made < MaxSpellings
  /\ own' = [own EXCEPT ![g] = [of |-> Literal, serial |-> made + 1]]
  /\ made' = made + 1
  /\ pc' = [pc EXCEPT ![g] = "spelled"]
  /\ UNCHANGED <<byStrategy, strategy, got>>

\* The argument of LoadOrStore is evaluated before the call: a new allocation.
SpellFields(g) ==
  /\ pc[g] = "missed"
  /\ made < MaxSpellings
  /\ own' = [own EXCEPT ![g] = [of |-> strategy[g], serial |-> made + 1]]
  /\ made' = made + 1
  /\ pc' = [pc EXCEPT ![g] = "spelled"]
  /\ UNCHANGED <<byStrategy, strategy, got>>

\* Slip: a goroutine whose offer was not taken offers it again.
CompareAndSwapAgain(g) ==
  /\ pc[g] = "spelled"
  /\ byStrategy[NameOf[strategy[g]]] # NoSpelling
  /\ UNCHANGED vars

\* Another goroutine stored first: its spelling is loaded and g's is dropped.
LoadOrStoreLoads(g) ==
  /\ pc[g] = "spelled"
  /\ byStrategy[NameOf[strategy[g]]] # NoSpelling
  /\ Return(g, byStrategy[NameOf[strategy[g]]])
  /\ UNCHANGED <<byStrategy, made>>

\* Slip: the first spelling is returned and never stored.
ReturnUnstored(g) ==
  /\ pc[g] = "spelled"
  /\ byStrategy[NameOf[strategy[g]]] = NoSpelling
  /\ Return(g, own[g])
  /\ UNCHANGED <<byStrategy, made>>

LoadOrStoreStores(g) ==
  /\ pc[g] = "spelled"
  /\ byStrategy[NameOf[strategy[g]]] = NoSpelling
  /\ byStrategy' = [byStrategy EXCEPT ![NameOf[strategy[g]]] = own[g]]
  /\ Return(g, own[g])
  /\ UNCHANGED made

\* A goroutine's own steps inside one call.
Step(g) ==
  \/ ReturnLiteral(g)
  \/ LoadHit(g)
  \/ LoadMiss(g)
  \/ SpellFields(g)
  \/ LoadOrStoreLoads(g)
  \/ LoadOrStoreStores(g)

Next == \E g \in Goroutines : Under(g) \/ Step(g)

Spec == Init /\ [][Next]_vars

\* A goroutine that is inside a call keeps running; nothing makes it call.
FairSpec == Spec /\ \A g \in Goroutines : WF_vars(Step(g))

----------------------------------------------------------------------------
(***************************************************************************)
(* The cache implements SpellOnce: what a goroutine waits for is the       *)
(* strategy it asked for, and the sync.Map is the memo.                    *)
(***************************************************************************)
Once == INSTANCE SpellOnce WITH
  memo <- byStrategy, want <- strategy, answer <- got, Serials <- 0..MaxSpellings

\* Every step of the lock-free cache is a step of SpellOnce or changes
\* nothing it can see (memberNames.under, nameSpelling.under).
ImplementsSpellOnce == Once!Spec

----------------------------------------------------------------------------
Steps == {"idle", "called", "missed", "spelled"}

TypeOK ==
  /\ byStrategy \in [Names -> Spelling \cup {NoSpelling}]
  /\ pc \in [Goroutines -> Steps]
  /\ strategy \in [Goroutines -> Strategies \cup {None}]
  /\ own \in [Goroutines -> Spelling \cup {NoSpelling}]
  /\ got \in [Goroutines -> Spelling \cup {NoSpelling}]
  /\ made \in 0..MaxSpellings

\* Whatever goroutines spelled the fields at the same time, all those given a
\* spelling of one strategy were given the same one: the pointer that stays in
\* the map, so an encoder and a decoder never work from two indexes.
OneSpellingPerStrategy ==
  \A g, h \in Goroutines :
    (got[g] # NoSpelling /\ got[g].of = got[h].of) => got[g] = got[h]

\* A spelling in the map is of the strategy it is filed under.  A goroutine
\* that lost the race is handed another's allocation, and this is what makes
\* that harmless.
FiledUnderItsName ==
  \A n \in Names : byStrategy[n] # NoSpelling => NameOf[byStrategy[n].of] = n

\* Once a goroutine has been given a spelling, the map never gives another for
\* that strategy: what was written under it stays readable under it.
NeverRespelled ==
  [][\A n \in Names : byStrategy[n] # NoSpelling => byStrategy'[n] = byStrategy[n]]_vars

\* An encoder and a decoder that were given spellings of one strategy agree:
\* where the spelling is not refused, the decoder finds each written name to
\* be the field that wrote it, and requires only names the encoder writes.
WriterAndReaderAgree ==
  \A g, h \in Goroutines :
    (/\ got[g] # NoSpelling
     /\ got[h].of = got[g].of
     /\ ~SpellingFault(Fields, got[g].of)) =>
       \A i \in Index :
         LET written == SpelledName(Fields, got[g].of, i)
         IN  /\ ByName(Fields, got[h].of, written) = i
             /\ written \in Required(Fields, got[h].of) <=> ~Fields[i].optional

\* What makes OneSpellingPerStrategy inductive.  A goroutine past the literal
\* shortcut holds a strategy to be looked up, and what it made is of that
\* strategy; what it was given is nothing, the literal spelling, or what the
\* map holds for that strategy now.
CallsConsistent ==
  \A g \in Goroutines :
    /\ pc[g] = "idle" <=> strategy[g] = None
    /\ pc[g] \in {"missed", "spelled"} => strategy[g] # Literal
    /\ pc[g] = "spelled" => own[g] \in Spelling /\ own[g].of = strategy[g]

LiteralNeverFiled ==
  \A n \in Names : byStrategy[n] # NoSpelling => byStrategy[n].of # Literal

GivenIsFiled ==
  \A g \in Goroutines :
    \/ got[g] \in {NoSpelling, LiteralSpelling}
    \/ /\ got[g] \in Spelling
       /\ byStrategy[NameOf[got[g].of]] = got[g]

CacheInv ==
  /\ TypeOK
  /\ CallsConsistent
  /\ FiledUnderItsName
  /\ LiteralNeverFiled
  /\ GivenIsFiled

\* No goroutine waits for another: a call that has begun returns, even when
\* the goroutines it races with keep storing (memberNames.under).
EveryCallReturns ==
  \A g \in Goroutines : pc[g] # "idle" ~> pc[g] = "idle"
=============================================================================
