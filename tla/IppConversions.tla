--------------------------- MODULE IppConversions ---------------------------
(***************************************************************************)
(* The string conversions of value.rs as a caller uses them: one          *)
(* BoundedString moved from conversion to conversion, the IppTextValue    *)
(* made from it or from a str, and an IppValue read from a str with       *)
(* FromStr, printed with Display and read back.  A BoundedString is       *)
(* [max |-> MAX, s |-> bytes]; MAX is the const generic, so a conversion  *)
(* to another MAX (expand, shrink, From<&[u8; CAP]>) chooses it.  An Err  *)
(* drops the value (new, shrink and the TryFrom impls take it by value);  *)
(* a panic (assert!, unwrap) ends the program.                            *)
(***************************************************************************)
EXTENDS IppValueText

CONSTANTS
    Inputs,   \* strings a caller converts (valid UTF-8, as &str or String)
    Texts,    \* strings a caller parses into an IppValue
    Arrays,   \* byte arrays a caller converts with From<&[u8; CAP]>
    Maxes,    \* the MAX parameters in use
    MaxOps    \* bound on the number of conversions

ASSUME Maxes \subseteq 0..65535 /\ MaxOps \in Nat

VARIABLES
    bs,       \* the BoundedString held, or None
    text,     \* the IppTextValue held: [tier |-> t, s |-> bytes], or None
    outcome,  \* result of the last conversion: "Ok", "Err" or "Panic"
    val,      \* the result of s.parse::<IppValue>(), or None
    shown,    \* [text |-> its Display text], or None
    back,     \* the result of parsing that text again, or None
    ops       \* conversions made so far

vars == <<bs, text, outcome, val, shown, back, ops>>
strVars == <<bs, text, outcome>>

None == [none |-> TRUE]

\* The bound of each IppTextValue variant's BoundedString.
TierMax == [Short |-> 127, Medium |-> 255, Long |-> 1023]

Running == outcome # "Panic" /\ ops < MaxOps

\* Conversions of which a result (Ok or Err) replaces the value held.
Result(ok, v) ==
    /\ bs' = IF ok THEN v ELSE None
    /\ outcome' = IF ok THEN "Ok" ELSE "Err"

Init == bs = None /\ text = None /\ outcome = "Ok" /\ ops = 0
        /\ val = None /\ shown = None /\ back = None

\* BoundedString::<MAX>::new(s), and FromStr / TryFrom<&str> / TryFrom<String>
\* / TryFrom<Cow<str>>, all of which call it.
New ==
    /\ Running
    /\ \E s \in Inputs, m \in Maxes : Result(BoundedNew(s, m), [max |-> m, s |-> s])
    /\ ops' = ops + 1
    /\ UNCHANGED <<text, val, shown, back>>

\* Mutation of Expand: the assertion is dropped.
ExpandNoAssert ==
    /\ Running /\ bs # None
    /\ \E m \in Maxes : bs' = [bs EXCEPT !.max = m] /\ outcome' = "Ok"
    /\ ops' = ops + 1
    /\ UNCHANGED <<text, val, shown, back>>

\* expand::<MAX2>(): assert!(MAX2 >= MAX) panics on a narrower bound.
Expand ==
    /\ Running /\ bs # None
    /\ \E m \in Maxes :
          IF m >= bs.max THEN bs' = [bs EXCEPT !.max = m] /\ outcome' = "Ok"
          ELSE outcome' = "Panic" /\ UNCHANGED bs
    /\ ops' = ops + 1
    /\ UNCHANGED <<text, val, shown, back>>

\* shrink::<MAX2>(): Err when the string is longer than MAX2.
Shrink ==
    /\ Running /\ bs # None
    /\ \E m \in Maxes : Result(Len(bs.s) <= m, [bs EXCEPT !.max = m])
    /\ ops' = ops + 1
    /\ UNCHANGED <<text, val, shown, back>>

\* Mutation of FromArray: the bytes are taken as they are
\* (String::from_utf8_unchecked) instead of lossy-decoded.
FromArrayUnchecked(a, m) ==
    /\ Running
    /\ IF m = Len(a) /\ BoundedNew(a, m)
       THEN bs' = [max |-> m, s |-> a] /\ outcome' = "Ok"
       ELSE outcome' = "Panic" /\ UNCHANGED bs
    /\ ops' = ops + 1
    /\ UNCHANGED <<text, val, shown, back>>

\* From<&[u8; CAP]> calls from_array: assert_eq!(MAX, CAP), then
\* String::from_utf8_lossy(value).try_into().unwrap().
FromArray(a, m) ==
    /\ Running
    /\ IF m = Len(a) /\ BoundedNew(Lossy(a), m)
       THEN bs' = [max |-> m, s |-> Lossy(a)] /\ outcome' = "Ok"
       ELSE outcome' = "Panic" /\ UNCHANGED bs
    /\ ops' = ops + 1
    /\ UNCHANGED <<text, val, shown, back>>

\* IppTextValue::from(BoundedString<127 | 255 | 1023>): the variant of the
\* source type, whatever the length.
TextFrom ==
    /\ Running /\ bs # None
    /\ \E t \in DOMAIN TierMax :
          /\ bs.max = TierMax[t]
          /\ text' = [tier |-> t, s |-> bs.s]
    /\ bs' = None /\ outcome' = "Ok"
    /\ ops' = ops + 1
    /\ UNCHANGED <<val, shown, back>>

\* IppTextValue::new(s) and its TryFrom impls: the narrowest variant.
TextTryNew ==
    /\ Running
    /\ \E s \in Inputs :
          /\ text' = IF TextNew(s).ok THEN [tier |-> TextNew(s).val, s |-> s] ELSE None
          /\ outcome' = IF TextNew(s).ok THEN "Ok" ELSE "Err"
    /\ ops' = ops + 1
    /\ UNCHANGED <<bs, val, shown, back>>

\* s.parse::<IppValue>()
Read ==
    /\ Running /\ val = None
    /\ \E s \in Texts : val' = FromStr(s)
    /\ ops' = ops + 1
    /\ UNCHANGED <<strVars, shown, back>>

\* value.to_string()
Show ==
    /\ Running /\ val # None /\ val.ok /\ shown = None
    /\ shown' = [text |-> Display(val.val)]
    /\ ops' = ops + 1
    /\ UNCHANGED <<strVars, val, back>>

\* value.to_string().parse::<IppValue>()
ReadBack ==
    /\ Running /\ shown # None /\ back = None
    /\ back' = FromStr(shown.text)
    /\ ops' = ops + 1
    /\ UNCHANGED <<strVars, val, shown>>

Next == New \/ Expand \/ Shrink \/ (\E a \in Arrays, m \in Maxes : FromArray(a, m))
        \/ TextFrom \/ TextTryNew \/ Read \/ Show \/ ReadBack

Spec == Init /\ [][Next]_vars

-----------------------------------------------------------------------------
\* A String holds valid UTF-8: decoding it lossily changes nothing (as it
\* does nothing to ASCII).
Utf8(s) == s \in Seq(0..255) /\ ((\A i \in DOMAIN s : s[i] < 128) \/ Lossy(s) = s)

FromStrResult(r) ==
    IF r.ok THEN r.val \in FromStrValues ELSE r.err = "InvalidStringLength"

TypeOK ==
    /\ bs = None \/ (bs.max \in Maxes /\ Utf8(bs.s))
    /\ text = None \/ (text.tier \in DOMAIN TierMax /\ Utf8(text.s))
    /\ outcome \in {"Ok", "Err", "Panic"}
    /\ val = None \/ FromStrResult(val)
    /\ shown = None \/ shown.text \in Seq(0..255)
    /\ back = None \/ FromStrResult(back)
    /\ ops \in 0..MaxOps

\* The bound (the doc comment of BoundedString: "a UTF-8 string whose length
\* is bounded by a compile-time maximum"): through any sequence of new,
\* expand, shrink, From<&[u8; CAP]> and IppTextValue conversions, a
\* BoundedString<MAX> never holds more than MAX bytes, and an IppTextValue
\* never more than the bound of its variant.
WithinBound ==
    /\ bs # None => Len(bs.s) <= bs.max
    /\ text # None => Len(text.s) <= TierMax[text.tier]

\* From is infallible (the Rust From contract; from_array is declared to
\* return Self): converting an array whose capacity is the bound, as
\* FromArray::CAPACITY asks, does not panic.
FromArrayTotal ==
    [][\A a \in Arrays, m \in Maxes : FromArray(a, m) /\ m = Len(a) => outcome' # "Panic"]_vars

\* Printing is faithful to parsing (FromStr and Display of IppValue): a value
\* that FromStr produced, printed with Display and parsed again, is the same
\* value, whatever sign, leading zeros or i32 edge the input had.
ReparseStable == back # None => back = val
=============================================================================
