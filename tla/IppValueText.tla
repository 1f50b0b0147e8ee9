---------------------------- MODULE IppValueText ----------------------------
(***************************************************************************)
(* The text form of a value (value.rs): impl Display for IppValue and     *)
(* impl FromStr for IppValue, as operators.  FromStr yields a Boolean, an *)
(* Integer or a Keyword, so Display is modelled for the numeric, boolean  *)
(* and string variants; the format of Array, Collection, DateTime,        *)
(* Resolution and Other is left out.                                      *)
(***************************************************************************)
EXTENDS IppValue

\* ASCII of "true", "false", "-" and "+".
TrueText  == << 116, 114, 117, 101 >>
FalseText == << 102, 97, 108, 115, 101 >>
Minus == 45
Plus  == 43

Digits == 48..57

\* "2147483647" and "2147483648", the magnitudes of i32::MAX and i32::MIN.
MaxDigits == << 50, 49, 52, 55, 52, 56, 51, 54, 52, 55 >>
MinDigits == << 50, 49, 52, 55, 52, 56, 51, 54, 52, 56 >>

\* A digit string without its leading zeros.
Significant(ds) ==
    IF \A j \in DOMAIN ds : ds[j] = 48 THEN << >>
    ELSE SubSeq(ds, Min({j \in DOMAIN ds : ds[j] # 48}), Len(ds))

\* The digit string stands for more than the magnitude lim.
Exceeds(ds, lim) ==
    \/ Len(Significant(ds)) > Len(lim)
    \/ Len(Significant(ds)) = Len(lim) /\ BytesLess(lim, Significant(ds))

(***************************************************************************)
(* <i32 as FromStr>::from_str (from_str_radix, radix 10): Empty for "",   *)
(* an optional sign and then one digit or more, else InvalidDigit; the    *)
(* value accumulates as acc * 10 + d, or acc * 10 - d after a "-", and    *)
(* PosOverflow or NegOverflow when it leaves i32.                         *)
(***************************************************************************)
ParseI32(s) ==
    LET signed == s # << >> /\ s[1] \in {Plus, Minus}
        ds     == IF signed THEN Tail(s) ELSE s
        neg    == signed /\ s[1] = Minus
    IN  CASE s = << >> -> Fail("Empty")
          [] ds = << >> \/ \E j \in DOMAIN ds : ds[j] \notin Digits -> Fail("InvalidDigit")
          [] neg /\ Exceeds(ds, MinDigits)  -> Fail("NegOverflow")
          [] ~neg /\ Exceeds(ds, MaxDigits) -> Fail("PosOverflow")
          [] neg   -> Ok(FoldLeft(LAMBDA acc, c : acc * 10 - (c - 48), 0, ds))
          [] OTHER -> Ok(FoldLeft(LAMBDA acc, c : acc * 10 + (c - 48), 0, ds))

\* The decimal digits of a natural number.
RECURSIVE Unsigned(_)
Unsigned(n) == IF n < 10 THEN << 48 + n >> ELSE Unsigned(n \div 10) \o << 48 + (n % 10) >>

\* A decimal digit string plus one.
RECURSIVE Succ(_)
Succ(ds) ==
    CASE ds = << >>       -> << 49 >>
      [] Last(ds) = 57    -> Succ(Front(ds)) \o << 48 >>
      [] OTHER            -> Front(ds) \o << Last(ds) + 1 >>

\* The digits of i.unsigned_abs() for a negative i: -(i + 1), plus one.
Magnitude(i) == Succ(Unsigned(-(i + 1)))

\* Mutation of Decimal: a negative number loses its sign.
DecimalNoSign(i) == IF i < 0 THEN Magnitude(i) ELSE Unsigned(i)

\* The Display of an i32: "{i}", a "-" and the magnitude when negative.
Decimal(i) == IF i < 0 THEN << Minus >> \o Magnitude(i) ELSE Unsigned(i)

\* impl Display for IppValue, for the variants it prints without nesting.
Display(v) ==
    CASE v.k \in {"Integer", "Enum"} -> Decimal(v.i)
      [] v.k = "RangeOfInteger" -> Decimal(v.min) \o << 46, 46 >> \o Decimal(v.max)
      [] v.k = "Boolean"        -> IF v.b THEN TrueText ELSE FalseText
      [] v.k \in LangKinds      -> v.lang \o << 58 >> \o v.s
      [] v.k \in StringKinds    -> v.s
      [] v.k = "NoValue"        -> << >>

\* impl FromStr for IppValue: "true", "false", an i32, or else a Keyword
\* (BoundedString<255>::try_from, InvalidStringLength beyond 255 bytes).
FromStr(s) ==
    CASE s = TrueText  -> Ok([k |-> "Boolean", b |-> TRUE])
      [] s = FalseText -> Ok([k |-> "Boolean", b |-> FALSE])
      [] ParseI32(s).ok -> Ok([k |-> "Integer", i |-> ParseI32(s).val])
      [] BoundedNew(s, 255) -> Ok([k |-> "Keyword", s |-> s])
      [] OTHER -> Fail("InvalidStringLength")

\* The values FromStr returns: a Boolean, an i32, or an IppKeyword
\* (BoundedString<255>).
FromStrValues ==
    [k : {"Boolean"}, b : BOOLEAN]
    \cup [k : {"Integer"}, i : -2147483647 - 1 .. 2147483647]
    \cup {v \in [k : {"Keyword"}, s : Seq(0..255)] : Len(v.s) <= 255}
=============================================================================
