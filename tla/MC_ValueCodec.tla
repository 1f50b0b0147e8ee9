--------------------------- MODULE MC_ValueCodec ---------------------------
(***************************************************************************)
(* Model of IppValueCodec for TLC: values at the edges of each variant.   *)
(* Integers at the i32 bounds and around zero; strings empty, ASCII, and  *)
(* two-, three- and four-byte UTF-8 (a Rust String is always valid        *)
(* UTF-8), U+FFFD itself among them; text values in the tier              *)
(* IppTextValue::new gives them; DateTime at the u16 year bounds;         *)
(* Resolution units at the i8 bounds; unknown and unparsed tags as Other; *)
(* arrays and collections, empty and nested, for the iterator.            *)
(***************************************************************************)
EXTENDS IppValueCodec

MinI32 == -2147483647 - 1
I32Edges == {MinI32, -1, 0, 1, 2147483647}
Strs == { << >>, << 97 >>, << 195, 169 >>, << 239, 191, 189 >>, << 240, 159, 150, 168 >> }
Langs == { << >>, << 101, 110 >> }

IntV(i) == [k |-> "Integer", i |-> i]
Coll(m) == [k |-> "Collection", members |-> m]

Scalars ==
    {[k |-> k, i |-> i] : k \in {"Integer", "Enum"}, i \in I32Edges}
    \cup {[k |-> "RangeOfInteger", min |-> a, max |-> b] : a, b \in {MinI32, 0, 2147483647}}
    \cup {[k |-> "Boolean", b |-> b] : b \in BOOLEAN}
    \cup {[k |-> k, s |-> s] : k \in StringKinds, s \in Strs}
    \cup {[k |-> k, tier |-> TextTier(Len(s)), s |-> s] : k \in TextKinds, s \in Strs}
    \cup {[k |-> "TextWithLanguage", lang |-> l, tier |-> TextTier(Len(s)), s |-> s] :
            l \in Langs, s \in Strs}
    \cup {[k |-> "NameWithLanguage", lang |-> l, s |-> s] : l \in Langs, s \in Strs}
    \cup {[k |-> "DateTime", year |-> y, fields |-> << 12, 31, 23, 59, 60, 9 >>,
           utc_dir |-> d, utc |-> << 14, 0 >>] : y \in {0, 65535}, d \in {43, 45}}
    \cup {[k |-> "Resolution", cross_feed |-> c, feed |-> 300, units |-> u] :
            c \in {-1, 2147483647}, u \in {-128, -1, 3, 4, 127}}
    \cup {[k |-> "NoValue"]}
    \cup {[k |-> "Other", tag |-> t, data |-> d] :
            t \in {17, 18, 52, 127, 255}, d \in {<< >>, << 1, 2 >>}}

Compounds ==
    { [k |-> "Array", items |-> << >>],
      [k |-> "Array", items |-> << IntV(1), IntV(2), IntV(2) >>],
      [k |-> "Array", items |-> << Coll(<< 97 >> :> IntV(1)), Coll([n \in {} |-> 0]) >>],
      Coll([n \in {} |-> 0]),
      Coll((<< 98 >> :> IntV(2)) @@ (<< 97 >> :> IntV(1)) @@ (<< 97, 97 >> :> IntV(1))),
      Coll(<< 97 >> :> [k |-> "Array", items |-> << IntV(3), IntV(4) >>]) }

MC_Samples == Scalars \cup Compounds

\* A DateTime whose utc_dir is a char above U+00FF ('\u{12B}'), which the
\* char field of IppValue::DateTime admits.
MC_WideUtcSamples ==
    {[k |-> "DateTime", year |-> 2020, fields |-> << 1, 2, 3, 4, 5, 6 >>,
      utc_dir |-> d, utc |-> << 1, 0 >>] : d \in {43, 299}}
=============================================================================
