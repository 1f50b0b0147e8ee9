------------------------------ MODULE MC_Proxy ------------------------------
(***************************************************************************)
(* Model of IppProxy for TLC.  The proxy receives two valid messages, all *)
(* of their truncations and all of their one-byte corruptions by a set of *)
(* bytes that are delimiters, value tags, lengths or junk.  Names are      *)
(* one-byte stand-ins as in MC_Codec.                                      *)
(***************************************************************************)
EXTENDS IppProxy, IppCups

MC_Charset == << 99 >>
MC_NaturalLanguage == << 108 >>
MC_PrinterUri == << 112 >>

IntV(i) == [k |-> "Integer", i |-> i]

Msg1Groups ==
    << [tag |-> 1, attrs |-> (MC_Charset :> [k |-> "Charset", s |-> << 117 >>]) @@
                             (<< 97 >> :> [k |-> "Array", items |-> << IntV(1), IntV(-2) >>])],
       [tag |-> 2, attrs |-> (<< 97 >> :> [k |-> "Collection",
                                           members |-> (<< 109 >> :> IntV(7)) @@
                                                       (<< 110 >> :> [k |-> "Boolean", b |-> TRUE])]) @@
                             (<< 98 >> :> [k |-> "TextWithLanguage", lang |-> << 101 >>,
                                           tier |-> "Short", s |-> << 116 >>])] >>

Msg2Groups ==
    << [tag |-> 4, attrs |-> (<< 98 >> :> [k |-> "DateTime", year |-> 2020,
                                           fields |-> << 2, 13, 12, 34, 22, 1 >>,
                                           utc_dir |-> 45, utc |-> << 1, 30 >>])],
       [tag |-> 1, attrs |-> (MC_PrinterUri :> [k |-> "Uri", s |-> << 112 >>])],
       [tag |-> 2, attrs |-> (<< 97 >> :> [k |-> "Other", tag |-> 75, data |-> << 9 >>])] >>

\* A job group holding an array of two collections, the first with a member
\* array of keywords and a member array of collections.
Coll(m) == [k |-> "Collection", members |-> m]
Msg3Groups ==
    << [tag |-> 2, attrs |-> << 97 >> :> [k |-> "Array", items |->
          << Coll((<< 110 >> :> [k |-> "Array", items |->
                                   << [k |-> "Keyword", s |-> << 120 >>],
                                      [k |-> "Keyword", s |-> << 121 >>] >>]) @@
                  (<< 111 >> :> [k |-> "Array", items |->
                                   << Coll(<< 109 >> :> IntV(1)), Coll(<< >> :> IntV(2)) >>])),
             Coll(<< 109 >> :> [k |-> "NoValue"]) >>]] >>

AnOrder(gs) == [i \in DOMAIN gs |-> CHOOSE o \in Orders(gs[i].attrs) : TRUE]

Hdr == << 1, 1, 0, 2, 0, 0, 0, 4 >>

\* Each message is built as a parse would leave it: attributes keyed by name.
Valid == { Hdr \o ListBytes(FromParsed(Msg1Groups), AnOrder(Msg1Groups)) \o << 37 >>,
           Hdr \o ListBytes(FromParsed(Msg2Groups), AnOrder(Msg2Groups)),
           Hdr \o ListBytes(FromParsed(Msg3Groups), AnOrder(Msg3Groups)) }

\* A message with two operation groups, as a client or a previous hop may
\* send it (spec 3: several groups may share a delimiter tag).
TwoOpGroups ==
    << [tag |-> 1, attrs |-> MC_Charset :> [k |-> "Charset", s |-> << 117 >>]],
       [tag |-> 1, attrs |-> << 97 >> :> IntV(3)] >>

MC_TwoOpInputs ==
    { Hdr \o << 1 >> \o AttrsBytes(FromParsed(TwoOpGroups)[1].attrs, << MC_Charset >>)
          \o << 1 >> \o AttrsBytes(FromParsed(TwoOpGroups)[2].attrs, << << 97 >> >>) \o << 3 >> }

\* A natural-language attribute of n bytes: 63 is the most BoundedString<63>
\* holds, 64 is refused with InvalidStringLength.
LangOfLength(n) ==
    Hdr \o << 1, 72, 0, 1, 108, 0, n >> \o [j \in 1..n |-> 97] \o << 3 >>

MC_BoundInputs == { LangOfLength(63), LangOfLength(64) }

\* The requests CUPS-Get-Printers and CUPS-Delete-Printer build, the second
\* for a URI of 1023 bytes, as a CUPS client sends them ("u" and "e" stand
\* for "utf-8" and "en").
MC_DefaultCharset == << 117 >>
MC_DefaultLanguage == << 101 >>

CupsRequests == { CupsGetPrintersRequest.val,
                  CupsDeletePrinterRequest(CupsDeletePrinterNew([j \in 1..1023 |-> 112]).val) }

MC_CupsInputs == { Hdr \o ListBytes(r, AnOrder(r)) : r \in CupsRequests }

FuzzBytes == {0, 2, 3, 16, 33, 52, 55, 74, 200}

MC_Inputs ==
    UNION { { SubSeq(m, 1, n) : n \in 0..Len(m) }
            \cup { [m EXCEPT ![i] = b] : i \in DOMAIN m, b \in FuzzBytes } : m \in Valid }
    \cup MC_BoundInputs \cup MC_CupsInputs
=============================================================================
