------------------------------ MODULE MC_Codec ------------------------------
(***************************************************************************)
(* Model of IppCodec for TLC.  Names and strings are one- or two-byte     *)
(* stand-ins: "c" for attributes-charset, "l" for                          *)
(* attributes-natural-language, "p" for printer-uri, "a"/"b" for other    *)
(* attributes.  The values cover every wire shape of value.rs: fixed-size *)
(* scalars, strings, language-tagged strings, arrays, collections with a  *)
(* nested collection and a member array, and an unknown tag kept as Other.*)
(***************************************************************************)
EXTENDS IppCodec

MC_Charset == << 99 >>
MC_NaturalLanguage == << 108 >>
MC_PrinterUri == << 112 >>

IntV(i) == [k |-> "Integer", i |-> i]
Kw(s) == [k |-> "Keyword", s |-> s]

\* A collection {"m" = 7, "n" = [kw "x", kw "y"], "o" = {"m" = true}}.
MC_Collection ==
    [k |-> "Collection",
     members |-> (<< 109 >> :> IntV(7)) @@
                 (<< 110 >> :> [k |-> "Array", items |-> << Kw(<< 120 >>), Kw(<< 121 >>) >>]) @@
                 (<< 111 >> :> [k |-> "Collection",
                                members |-> << 109 >> :> [k |-> "Boolean", b |-> TRUE]])]

Op == 1
Job == 2

MC_Calls ==
    { [tag |-> Op, name |-> MC_Charset, value |-> [k |-> "Charset", s |-> << 117 >>]],
      [tag |-> Op, name |-> MC_NaturalLanguage, value |-> [k |-> "NaturalLanguage", s |-> << 101 >>]],
      [tag |-> Op, name |-> MC_PrinterUri, value |-> [k |-> "Uri", s |-> << 112, 47 >>]],
      [tag |-> Op, name |-> << 97 >>, value |-> IntV(-1)],
      [tag |-> Op, name |-> << 97 >>, value |-> [k |-> "Array", items |-> << IntV(1), IntV(2) >>]],
      [tag |-> Job, name |-> << 97 >>, value |-> MC_Collection],
      [tag |-> Job, name |-> << 98 >>,
       value |-> [k |-> "TextWithLanguage", lang |-> << 101 >>, tier |-> "Short", s |-> << 116 >>]],
      [tag |-> Job, name |-> << 98 >>,
       value |-> [k |-> "DateTime", year |-> 2020, fields |-> << 2, 13, 12, 34, 22, 1 >>,
                  utc_dir |-> 43, utc |-> << 1, 30 >>]],
      [tag |-> Job, name |-> << 98 >>,
       value |-> [k |-> "Resolution", cross_feed |-> 600, feed |-> -600, units |-> -3]],
      [tag |-> Job, name |-> << 98 >>, value |-> [k |-> "RangeOfInteger", min |-> -12, max |-> 45]],
      [tag |-> Job, name |-> << 98 >>, value |-> [k |-> "Other", tag |-> 75, data |-> << 1 >>]],
      [tag |-> Job, name |-> << 98 >>, value |-> [k |-> "NoValue"]] }

\* attributes_mut().insert("a", IppAttribute::new("a", 5)) on any group.
MC_Inserts == { [key |-> << 97 >>, name |-> << 97 >>, value |-> IntV(5)],
                [key |-> MC_Charset, name |-> MC_Charset, value |-> [k |-> "Charset", s |-> << 118 >>]] }

MC_NoInserts == {}

\* attributes_mut().insert("a", IppAttribute::new("attributes-charset", ..))
\* into an operation group that add() opened: the key is not the name.
MC_MismatchCalls == { [tag |-> Op, name |-> << 98 >>, value |-> IntV(1)] }
MC_MismatchInserts ==
    { [key |-> << 97 >>, name |-> MC_Charset, value |-> [k |-> "Charset", s |-> << 117 >>]] }

MC_Payloads == { << >>, << 37 >> }

MC_JobId == << 106 >>

\* Request id 4 (spec 8, scenario 4), and 2^31 + 4, past i32::MAX, whose
\* high u16 half has its top bit set.
MC_RequestId == << 0, 4 >>
MC_WideRequestId == << 32768, 4 >>

\* "utf-8" and "en" stand in as "u" and "e".
MC_DefaultCharset == << 117 >>
MC_DefaultLanguage == << 101 >>

MC_CupsOps == {"CupsGetPrinters", "CupsDeletePrinter"}
MC_NoCupsOps == {}

\* A short URI, and URIs of 1023 and 1024 bytes on both sides of the
\* IppString bound that CupsDeletePrinter::new and the parser's Uri apply.
MC_CupsUris == { << 112, 47 >>, [j \in 1..1023 |-> 112], [j \in 1..1024 |-> 112] }

\* IppTextValue::from(BoundedString<255>) keeps the Medium tier for a
\* one-byte string (value.rs From impls).
MC_TierCalls ==
    { [tag |-> Op, name |-> MC_Charset, value |-> [k |-> "Charset", s |-> << 117 >>]],
      [tag |-> Job, name |-> << 97 >>,
       value |-> [k |-> "TextWithoutLanguage", tier |-> "Medium", s |-> << 116 >>]] }

\* IppValue::Array(vec![]) as the value of an attribute.
MC_EmptyArrayCalls ==
    { [tag |-> Op, name |-> MC_Charset, value |-> [k |-> "Charset", s |-> << 117 >>]],
      [tag |-> Job, name |-> << 97 >>, value |-> [k |-> "Array", items |-> << >>]] }

\* A 1setOf (integer | rangeOfInteger) attribute (RFC 8011 5.1.1) as an
\* Array mixing an Integer and a RangeOfInteger.
MC_MixedArrayCalls ==
    { [tag |-> Op, name |-> MC_Charset, value |-> [k |-> "Charset", s |-> << 117 >>]],
      [tag |-> Job, name |-> << 97 >>,
       value |-> [k |-> "Array", items |-> << IntV(5), [k |-> "RangeOfInteger", min |-> 1, max |-> 3] >>]] }

\* An Array whose items are Arrays, [[1, 2], [3]] (value.rs 502-510).
MC_NestedArrayCalls ==
    { [tag |-> Op, name |-> MC_Charset, value |-> [k |-> "Charset", s |-> << 117 >>]],
      [tag |-> Job, name |-> << 97 >>,
       value |-> [k |-> "Array", items |-> << [k |-> "Array", items |-> << IntV(1), IntV(2) >>],
                                             [k |-> "Array", items |-> << IntV(3) >>] >>]] }

\* IppAttribute::new("", value): an attribute with an empty name.
MC_EmptyNameCalls ==
    { [tag |-> Op, name |-> MC_Charset, value |-> [k |-> "Charset", s |-> << 117 >>]],
      [tag |-> Job, name |-> << >>, value |-> IntV(1)] }

\* A Cancel-Job style operation group: charset, natural language, printer-uri,
\* job-id and one more operation attribute.
MC_TargetCalls ==
    { [tag |-> Op, name |-> MC_Charset, value |-> [k |-> "Charset", s |-> << 117 >>]],
      [tag |-> Op, name |-> MC_NaturalLanguage, value |-> [k |-> "NaturalLanguage", s |-> << 101 >>]],
      [tag |-> Op, name |-> MC_PrinterUri, value |-> [k |-> "Uri", s |-> << 112 >>]],
      [tag |-> Op, name |-> MC_JobId, value |-> IntV(4)],
      [tag |-> Op, name |-> << 97 >>, value |-> [k |-> "Boolean", b |-> TRUE]] }
=============================================================================
