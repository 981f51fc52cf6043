------------------------------ MODULE Decoding ------------------------------
(***************************************************************************)
(* One decode, of whatever it is given: a document some other program      *)
(* wrote, the beginning of one, or a stream that goes on after it.  A JSON *)
(* document is the tokens jsontext.Decoder reads before the end or before  *)
(* what is not JSON, which the sources report alike.                       *)
(***************************************************************************)
EXTENDS Decoder

CONSTANT
  Requests    \* what may be decoded: [shape, kind, strategy, document]

ASSUME RequestAssumption ==
  \A r \in Requests :
    /\ r.shape \in DOMAIN Shape
    /\ r.kind \in {"json", "dynamic"}
    /\ r.kind = "json" => r.document \in Seq(Range(r.document))

Init ==
  /\ request \in Requests
  /\ frames = <<Frame(request.shape)>>
  /\ sources = <<SourceFor(request)>>
  /\ returned = <<>> /\ failure = <<>>

\* The program has its value or its error.
Finished == frames = <<>> /\ UNCHANGED vars

\* A step changes something: a state where none could is a deadlock.
Moves == Step /\ vars' # vars

Next == Moves \/ Finished

Spec == Init /\ [][Next]_vars

\* One goroutine runs a decode to its end.  This is WF_vars(Step), since without a
\* deadlock only what has ended is without a step; said without ENABLED, which is
\* slow to evaluate where a value is buffered.
FairSpec == Spec /\ ([]<><<Step>>_vars \/ <>[](frames = <<>>))

----------------------------------------------------------------------------
(* Properties *)

\* What holds between any two steps: each source stands where the call stack
\* stands.
DecodesInStep == DecoderTypeOK /\ SourcePerVariant /\ DynamicSourceHoldsOne /\ JsonSourceInStep

\* A decode that returns a value has read one whole value, and nothing of what
\* follows it in the stream.
OneValueRead ==
  Decoded =>
    IF request.kind = "dynamic" THEN sources = <<DynamicSource(<<>>)>>
    ELSE LET read == ValueLength(request.document)
         IN  /\ HasValue(request.document)
             /\ sources = <<JsonSource(SubSeq(request.document, read + 1, Len(request.document)))>>

\* An object's decode returns with a value for every field that is not optional,
\* read from a member of its name: a name is marked as seen before its value is
\* read, in one place, and the value is kept in another.
ReturnsWhole ==
  Reading({"object"}) /\ frames' = Front(frames) /\ returned' # <<>> =>
    \A i \in DOMAIN Fields(Top) : Fields(Top)[i].optional \/ returned'[1][i] # <<>>

ObjectsAreWhole == [][ReturnsWhole]_vars

\* A decode returns, whatever it is given: the loops of ReadObject and ReadList,
\* which the end of a document does not end, get nowhere there.
EveryDecodeEnds == <>(frames = <<>>)
=============================================================================
