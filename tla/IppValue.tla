------------------------------ MODULE IppValue ------------------------------
(***************************************************************************)
(* The IPP value model and its per-value wire codec (src/ipp/src/value.rs). *)
(*                                                                         *)
(* A value is a record whose field k names the IppValue variant.  Strings  *)
(* are sequences of bytes (naturals below 256); a model uses a few short   *)
(* ones, so the length bounds of BoundedString are kept in the operators   *)
(* but only the small lengths are reached here.  The wire is a sequence of *)
(* bytes.  This module has no variables: it is the library of pure        *)
(* operators that IppAttributes and IppParser use.                         *)
(***************************************************************************)
EXTENDS Integers, Sequences, SequencesExt

\* ValueTag of model.rs, with the byte values of RFC 8010.
Tag == [Unsupported |-> 16, Unknown |-> 18, NoValue |-> 19, Integer |-> 33,
        Boolean |-> 34, Enum |-> 35, OctetString |-> 48, DateTime |-> 49,
        Resolution |-> 50, RangeOfInteger |-> 51, BegCollection |-> 52,
        TextWithLanguage |-> 53, NameWithLanguage |-> 54, EndCollection |-> 55,
        TextWithoutLanguage |-> 65, NameWithoutLanguage |-> 66, Keyword |-> 68,
        Uri |-> 69, UriScheme |-> 70, Charset |-> 71, NaturalLanguage |-> 72,
        MimeMediaType |-> 73, MemberAttrName |-> 74]

\* ValueTag::from_u8: the known value tag bytes.
KnownTags == {Tag[t] : t \in DOMAIN Tag}

\* The variants whose payload is one bounded string, with the bound of the
\* alias they hold (IppName, IppKeyword, IppCharset, IppLanguage, IppString).
StringMax == [NameWithoutLanguage |-> 255, Keyword |-> 255, MimeMediaType |-> 255,
              MemberAttrName |-> 255, Charset |-> 63, NaturalLanguage |-> 63,
              Uri |-> 1023, UriScheme |-> 1023]
StringKinds == DOMAIN StringMax
\* The variants that hold an IppTextValue.
TextKinds == {"OctetString", "TextWithoutLanguage"}
\* The variants holding a language and a second string.
LangKinds == {"TextWithLanguage", "NameWithLanguage"}

(***************************************************************************)
(* Byte-level conversions.  put_u16 of a length written `x as u16` keeps   *)
(* the low 16 bits; i32 values are big-endian two's complement.            *)
(***************************************************************************)
U16(n) == << (n % 65536) \div 256, n % 256 >>

GetU16(b) == b[1] * 256 + b[2]

\* Mutation of I32: the sign bit is not folded into the first byte.
I32Unsigned(n) == << n \div 16777216, (n \div 65536) % 256, (n \div 256) % 256, n % 256 >>

I32(n) ==
    LET low == IF n < 0 THEN (n + 2147483647) + 1 ELSE n
    IN  << low \div 16777216 + (IF n < 0 THEN 128 ELSE 0),
           (low \div 65536) % 256, (low \div 256) % 256, low % 256 >>

\* Mutation of GetI32: the sign bit is read as a magnitude bit.
GetI32Unsigned(b) == ((b[1] % 128) * 16777216) + b[2] * 65536 + b[3] * 256 + b[4]

GetI32(b) ==
    LET low == ((b[1] % 128) * 16777216) + b[2] * 65536 + b[3] * 256 + b[4]
    IN  IF b[1] >= 128 THEN (low - 2147483647) - 1 ELSE low

\* A u16 length prefix followed by the bytes of s.
LenStr(s) == U16(Len(s)) \o s

(***************************************************************************)
(* String::from_utf8_lossy.  A well-formed UTF-8 sequence is kept; each   *)
(* maximal prefix of an ill-formed one (a bad lead byte alone, or a lead  *)
(* byte with the continuation bytes that still fit) becomes U+FFFD,       *)
(* the three bytes EF BF BD.                                              *)
(***************************************************************************)
Replacement == << 239, 191, 189 >>

\* The length of the sequence a lead byte starts, 0 for a bad lead byte.
Utf8Width(b) == CASE b < 128          -> 1
                  [] b \in 194..223   -> 2
                  [] b \in 224..239   -> 3
                  [] b \in 240..244   -> 4
                  [] OTHER            -> 0

\* The bytes allowed right after a lead byte (no overlongs, no surrogates).
SecondByte(b) == CASE b = 224 -> 160..191
                   [] b = 237 -> 128..159
                   [] b = 240 -> 144..191
                   [] b = 244 -> 128..143
                   [] OTHER   -> 128..191

\* The byte after the first j of s continues the sequence s[1] leads.
Fits(s, j) ==
    j + 1 <= Len(s) /\ s[j + 1] \in (IF j = 1 THEN SecondByte(s[1]) ELSE 128..191)

\* The number of continuation bytes of the maximal well-formed prefix.
Continued(s) ==
    CHOOSE j \in 0..3 : (\A i \in 1..j : Fits(s, i))
                        /\ (j + 1 >= Utf8Width(s[1]) \/ ~Fits(s, j + 1))

RECURSIVE Lossy(_)
Lossy(s) ==
    IF \A i \in DOMAIN s : s[i] < 128 THEN s     \* ASCII, the empty string included
    ELSE CASE Utf8Width(s[1]) = 0 -> Replacement \o Lossy(Tail(s))
           [] Continued(s) = Utf8Width(s[1]) - 1 ->
                 SubSeq(s, 1, Utf8Width(s[1])) \o Lossy(SubSeq(s, Utf8Width(s[1]) + 1, Len(s)))
           [] OTHER -> Replacement \o Lossy(SubSeq(s, Continued(s) + 2, Len(s)))

\* IppTextValue::new: the narrowest tier whose bound holds the string.
TextTier(n) == CASE n <= 127  -> "Short"
                 [] n <= 255  -> "Medium"
                 [] OTHER     -> "Long"

(***************************************************************************)
(* IppValue::to_tag.  An Array carries the tag of its first element, and   *)
(* Unknown when it is empty.                                               *)
(***************************************************************************)
RECURSIVE ToTag(_)
ToTag(v) ==
    CASE v.k = "Array"      -> IF v.items = << >> THEN Tag.Unknown
                               ELSE ToTag(v.items[1])
      [] v.k = "Collection" -> Tag.BegCollection
      [] v.k = "Other"      -> v.tag
      [] OTHER              -> Tag[v.k]

\* Byte-wise order of BoundedString (derived Ord on String), which is the
\* iteration order of the BTreeMap of a Collection.
RECURSIVE BytesLess(_, _)
BytesLess(a, b) ==
    \/ a = << >> /\ b # << >>
    \/ /\ a # << >> /\ b # << >>
       /\ \/ Head(a) < Head(b)
          \/ Head(a) = Head(b) /\ BytesLess(Tail(a), Tail(b))

MemberNames(m) == SetToSortSeq(DOMAIN m, BytesLess)

(***************************************************************************)
(* IppValue::to_bytes: the payload with its u16 length prefix, without the *)
(* value tag.  Array elements after the first are preceded by the array's *)
(* tag and an empty name; a Collection writes its members as               *)
(* MemberAttrName / value record pairs and ends with EndCollection.        *)
(***************************************************************************)
RECURSIVE ToBytes(_), MemberBytes(_, _)

\* One member of a Collection: a MemberAttrName record holding the name,
\* then the member's value record, both with empty attribute names.
MemberBytes(name, v) ==
    << Tag.MemberAttrName >> \o U16(0) \o LenStr(name)
    \o << ToTag(v) >> \o U16(0) \o ToBytes(v)

ToBytes(v) ==
    CASE v.k \in {"Integer", "Enum"} -> U16(4) \o I32(v.i)
      [] v.k = "RangeOfInteger" -> U16(8) \o I32(v.min) \o I32(v.max)
      [] v.k = "Boolean"        -> U16(1) \o << IF v.b THEN 1 ELSE 0 >>
      [] v.k \in StringKinds \cup TextKinds -> LenStr(v.s)
      [] v.k \in LangKinds ->
            U16(Len(v.lang) + Len(v.s) + 4) \o LenStr(v.lang) \o LenStr(v.s)
      [] v.k = "Array" ->
            FlattenSeq([i \in DOMAIN v.items |->
                ToBytes(v.items[i])
                \o (IF i < Len(v.items) THEN << ToTag(v) >> \o U16(0) ELSE << >>)])
      [] v.k = "Collection" ->
            U16(0) \o FlattenSeq([n \in DOMAIN MemberNames(v.members) |->
                         MemberBytes(MemberNames(v.members)[n], v.members[MemberNames(v.members)[n]])])
            \o << Tag.EndCollection, 0, 0, 0, 0 >>
      [] v.k = "DateTime" ->
            U16(11) \o U16(v.year) \o v.fields \o << v.utc_dir % 256 >> \o v.utc
      [] v.k = "Resolution" ->
            U16(9) \o I32(v.cross_feed) \o I32(v.feed) \o << (v.units + 256) % 256 >>
      [] v.k = "NoValue" -> U16(0)
      [] v.k = "Other"   -> LenStr(v.data)

(***************************************************************************)
(* IppValue::parse(value_tag, data): data is the payload without its      *)
(* length prefix.  The result is [ok |-> TRUE, val |-> v] or              *)
(* [ok |-> FALSE, err |-> e]; a read past the end of data (get_i32,       *)
(* get_u16, ... and the slice in get_len_string) panics in the bytes      *)
(* crate, which is the error "Panic".  A string longer than its bound is  *)
(* InvalidStringLength.  Extra bytes after a fixed-size payload are       *)
(* ignored, as the code never checks that data is exhausted.              *)
(***************************************************************************)
Ok(v) == [ok |-> TRUE, val |-> v]
Fail(e) == [ok |-> FALSE, err |-> e]

\* BoundedString::new, with the string already decoded by Lossy.
BoundedNew(s, max) == Len(s) <= max

\* TryFrom<&str|String|Cow<str>> for IppTextValue, which is IppTextValue::new:
\* the tier of the string, or InvalidStringLength beyond 1023 bytes.
TextNew(s) == IF Len(s) > 1023 THEN Fail("InvalidStringLength") ELSE Ok(TextTier(Len(s)))

\* get_len_string: a u16 length, then that many bytes; the rest is returned.
GetLenString(d) ==
    IF Len(d) < 2 \/ Len(d) < 2 + GetU16(d) THEN Fail("Panic")
    ELSE [ok |-> TRUE, s |-> Lossy(SubSeq(d, 3, 2 + GetU16(d))),
          rest |-> SubSeq(d, 3 + GetU16(d), Len(d))]

\* Mutation of ParseLang: the text is read before the language.
ParseLangSwapped(k, d) ==
    LET str  == GetLenString(d)
        lang == GetLenString(str.rest)
    IN  CASE ~str.ok  -> str
          [] ~lang.ok -> lang
          [] k = "TextWithLanguage" ->
                Ok([k |-> k, lang |-> lang.s, tier |-> TextTier(Len(str.s)), s |-> str.s])
          [] OTHER -> Ok([k |-> k, lang |-> lang.s, s |-> str.s])

\* The language is read and bound-checked (its try_into()?) before the
\* text is read, so a long language fails before a short text can panic.
ParseLang(k, d) ==
    LET lang == GetLenString(d)
        str  == GetLenString(lang.rest)
        max  == IF k = "TextWithLanguage" THEN 1023 ELSE 255
    IN  CASE ~lang.ok                -> lang
          [] ~BoundedNew(lang.s, 63) -> Fail("InvalidStringLength")
          [] ~str.ok                 -> str
          [] ~BoundedNew(str.s, max) -> Fail("InvalidStringLength")
          [] k = "TextWithLanguage" ->
                Ok([k |-> k, lang |-> lang.s, tier |-> TextNew(str.s).val, s |-> str.s])
          [] OTHER -> Ok([k |-> k, lang |-> lang.s, s |-> str.s])

\* The variant name of a known tag byte.
KindOf(t) == CHOOSE k \in DOMAIN Tag : Tag[k] = t

Parse(t, d) ==
    LET k == KindOf(t) IN
    CASE t \notin KnownTags -> Ok([k |-> "Other", tag |-> t, data |-> d])
      [] k \in {"Integer", "Enum"} ->
            IF Len(d) < 4 THEN Fail("Panic") ELSE Ok([k |-> k, i |-> GetI32(d)])
      [] k \in TextKinds ->
            LET text == TextNew(Lossy(d))
            IN  IF text.ok THEN Ok([k |-> k, tier |-> text.val, s |-> Lossy(d)]) ELSE text
      [] k \in StringKinds ->
            IF BoundedNew(Lossy(d), StringMax[k]) THEN Ok([k |-> k, s |-> Lossy(d)])
            ELSE Fail("InvalidStringLength")
      [] k \in LangKinds -> ParseLang(k, d)
      [] k = "RangeOfInteger" ->
            IF Len(d) < 8 THEN Fail("Panic")
            ELSE Ok([k |-> k, min |-> GetI32(d), max |-> GetI32(SubSeq(d, 5, 8))])
      [] k = "Boolean" ->
            IF Len(d) < 1 THEN Fail("Panic") ELSE Ok([k |-> k, b |-> d[1] # 0])
      [] k = "DateTime" ->
            IF Len(d) < 11 THEN Fail("Panic")
            ELSE Ok([k |-> k, year |-> GetU16(d), fields |-> SubSeq(d, 3, 8),
                     utc_dir |-> d[9], utc |-> SubSeq(d, 10, 11)])
      [] k = "Resolution" ->
            IF Len(d) < 9 THEN Fail("Panic")
            ELSE Ok([k |-> k, cross_feed |-> GetI32(d), feed |-> GetI32(SubSeq(d, 5, 8)),
                     units |-> IF d[9] >= 128 THEN d[9] - 256 ELSE d[9]])
      [] k = "NoValue" -> Ok([k |-> "NoValue"])
      [] OTHER -> Ok([k |-> "Other", tag |-> t, data |-> d])
=============================================================================
