--------------------------- MODULE MC_Conversions ---------------------------
(***************************************************************************)
(* Model of IppConversions for TLC.  The bounds are a small MAX of 3 and  *)
(* the three IppTextValue bounds; the strings sit on both sides of each   *)
(* bound.  Long strings are runs of "a": only their lengths matter to the  *)
(* conversions.  The texts parsed into an IppValue sit at every edge of   *)
(* the i32 grammar (signs, leading zeros, the i32 bounds and one past     *)
(* them, non-digits, non-ASCII digits), the boolean words and their near  *)
(* misses, and keywords at the 255-byte bound.                            *)
(***************************************************************************)
EXTENDS IppConversions

A(n) == [i \in 1..n |-> 97]

MC_Inputs == { << >>, A(3), << 195, 169, 97 >>, A(4), A(127), A(128), A(255), A(256),
               A(1023), A(1024) }

\* Arrays of capacity 3: ASCII, a valid two-byte sequence, and an invalid
\* one (a lead byte followed by ASCII).
MC_Arrays == { A(3), << 195, 169, 97 >>, << 195, 97, 97 >> }

MC_Maxes == {3, 127, 255, 1023}
\* Strings are byte sequences: 48-57 are the digits, 45 "-", 43 "+".
\* Strings are byte sequences: 48-57 are the digits, 45 "-", 43 "+".
Numerals ==
    { << 48 >>, << 45, 48 >>, << 43, 48 >>, << 48, 48 >>, << 49 >>, << 45, 49 >>,
      << 43, 53 >>, << 48, 48, 55 >>, << 45, 48, 48, 49, 50 >>,
      \* 2147483647, 2147483648, -2147483648, -2147483649, 4294967296
      << 50, 49, 52, 55, 52, 56, 51, 54, 52, 55 >>,
      << 50, 49, 52, 55, 52, 56, 51, 54, 52, 56 >>,
      << 45, 50, 49, 52, 55, 52, 56, 51, 54, 52, 56 >>,
      << 45, 50, 49, 52, 55, 52, 56, 51, 54, 52, 57 >>,
      << 52, 50, 57, 52, 57, 54, 55, 50, 57, 54 >>,
      \* -2147483647, +2147483647, 02147483647, 10, -00
      << 45, 50, 49, 52, 55, 52, 56, 51, 54, 52, 55 >>,
      << 43, 50, 49, 52, 55, 52, 56, 51, 54, 52, 55 >>,
      << 48, 50, 49, 52, 55, 52, 56, 51, 54, 52, 55 >>,
      << 49, 48 >>, << 45, 48, 48 >> }

NotNumerals ==
    { << >>, << 45 >>, << 43 >>, << 43, 45 >>, << 45, 45, 49 >>, << 43, 45, 49 >>, << 49, 97 >>,
      << 97, 49 >>, << 32, 49 >>, << 49, 46, 53 >>, << 48, 120, 49, 48 >>,
      << 217, 163 >>,   \* ARABIC-INDIC DIGIT THREE
      << 195, 169 >>, << 120, 45, 121 >>, A(255), A(256) }

Words ==
    { TrueText, FalseText, << 84, 114, 117, 101 >>, << 116, 114, 117, 101, 32 >>,
      << 102, 97, 108, 115 >> }

MC_Texts == Numerals \cup NotNumerals \cup Words
=============================================================================
