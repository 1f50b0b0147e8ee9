---------------------------- MODULE IppValueCodec ----------------------------
(***************************************************************************)
(* One IppValue on its own (src/ipp/src/value.rs): it is written with     *)
(* to_bytes, read back with IppValue::parse from the tag and the payload  *)
(* after its length prefix, and walked with the IppValueIterator that     *)
(* IntoIterator for &IppValue returns.  The iterator is the one stateful  *)
(* object of value.rs: its index advances with each next().               *)
(***************************************************************************)
EXTENDS IppValue, FiniteSets

CONSTANTS
    Samples,    \* the values a caller may hold, built by their constructors
    MaxYield    \* bound on the items taken from one iterator

VARIABLES
    val,        \* the value
    phase,      \* "new", "encoded" or "decoded"
    wire,       \* val.to_bytes()
    decoded,    \* IppValue::parse(val.to_tag(), wire[2..])
    index,      \* IppValueIterator::index
    yielded,    \* the items next() returned so far
    exhausted   \* the last next() returned None

vars == <<val, phase, wire, decoded, index, yielded, exhausted>>

\* Mutation of IterStep: a Collection's index is never advanced.
IterStepStuck(v, i) ==
    CASE v.k = "Array" ->
            IF i < Len(v.items) THEN [some |-> TRUE, item |-> v.items[i + 1], next |-> i + 1]
            ELSE [some |-> FALSE]
      [] v.k = "Collection" ->
            LET names == MemberNames(v.members)
            IN  IF i < Len(names) THEN [some |-> TRUE, item |-> v.members[names[i + 1]], next |-> i]
                ELSE [some |-> FALSE]
      [] OTHER ->
            IF i = 0 THEN [some |-> TRUE, item |-> v, next |-> 1] ELSE [some |-> FALSE]

(***************************************************************************)
(* IppValueIterator::next at index i: an Array yields its items, a        *)
(* Collection the values of its BTreeMap in key order (map.iter().nth),   *)
(* any other value itself once.                                           *)
(***************************************************************************)
IterStep(v, i) ==
    CASE v.k = "Array" ->
            IF i < Len(v.items) THEN [some |-> TRUE, item |-> v.items[i + 1], next |-> i + 1]
            ELSE [some |-> FALSE]
      [] v.k = "Collection" ->
            LET names == MemberNames(v.members)
            IN  IF i < Len(names) THEN [some |-> TRUE, item |-> v.members[names[i + 1]], next |-> i + 1]
                ELSE [some |-> FALSE]
      [] OTHER ->
            IF i = 0 THEN [some |-> TRUE, item |-> v, next |-> 1] ELSE [some |-> FALSE]

\* Mutation of IntoIter: the iterator starts at index 1.
IntoIterFromOne == index = 1

\* IntoIterator for &IppValue: IppValueIterator { value, index: 0 }.
IntoIter == index = 0

Init ==
    /\ val \in Samples /\ phase = "new" /\ wire = << >> /\ decoded = Fail("None")
    /\ IntoIter /\ yielded = << >> /\ exhausted = FALSE

Encode ==
    /\ phase = "new"
    /\ wire' = ToBytes(val) /\ phase' = "encoded"
    /\ UNCHANGED <<val, decoded, index, yielded, exhausted>>

\* The payload after the two length bytes, as the value_check test does.
Decode ==
    /\ phase = "encoded"
    /\ decoded' = Parse(ToTag(val), SubSeq(wire, 3, Len(wire))) /\ phase' = "decoded"
    /\ UNCHANGED <<val, wire, index, yielded, exhausted>>

\* One call of next(); after None a further call returns None again.
IterNext ==
    /\ ~exhausted
    /\ LET r == IterStep(val, index) IN
       IF r.some THEN /\ Len(yielded) < MaxYield
                      /\ index' = r.next /\ yielded' = Append(yielded, r.item)
                      /\ UNCHANGED exhausted
       ELSE /\ exhausted' = TRUE /\ UNCHANGED <<index, yielded>>
    /\ UNCHANGED <<val, phase, wire, decoded>>

\* Once decoded and walked, nothing is left to do with the value: the
\* behaviour ends there.
Next == Encode \/ Decode \/ IterNext

\* A caller walking the value (a for loop over &value) calls next() until
\* it returns None.
Spec == Init /\ [][Next]_vars /\ WF_vars(IterNext)

-----------------------------------------------------------------------------
TypeOK ==
    /\ val \in Samples
    /\ phase \in {"new", "encoded", "decoded"}
    /\ wire \in Seq(0..255)
    /\ index \in 0..MaxYield /\ Len(yielded) <= MaxYield
    /\ exhausted \in BOOLEAN

\* Value round trip (spec section 8, parse(v.tag(), v.to_bytes()[2..]) = v,
\* the value_check test of value.rs): every well-formed value that parse
\* handles, at the edges of its integer widths, with multi-byte UTF-8
\* strings, signed resolution units and unknown tags, reads back as itself.
ValueRoundTrip ==
    (phase = "decoded" /\ val.k \notin {"Array", "Collection"}) => decoded = Ok(val)

\* Iteration is complete and in order: once next() has returned None, an
\* Array has yielded its items in order, a Collection each member value
\* once (as many items as members, each a member value), any other value
\* itself alone.
IterYieldsAll ==
    exhausted =>
        CASE val.k = "Array" -> yielded = val.items
          [] val.k = "Collection" ->
                /\ Len(yielded) = Cardinality(DOMAIN val.members)
                /\ \A i \in DOMAIN yielded :
                      \E n \in DOMAIN val.members : yielded[i] = val.members[n]
          [] OTHER -> yielded = << val >>

\* Iteration ends (IppValueIterator::next): a caller that keeps calling
\* next() eventually gets None, whatever the value.
IterTerminates == <>exhausted
=============================================================================
