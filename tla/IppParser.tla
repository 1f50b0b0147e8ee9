------------------------------ MODULE IppParser ------------------------------
(***************************************************************************)
(* The streaming message parser (IppParser::parse), modelled from spec     *)
(* section 4.8: its source is not part of src/.  One step reads the        *)
(* header, one delimiter byte, or one attribute record                     *)
(* [tag][name_len][name][value_len][value], and applies it to the group    *)
(* stream.  Collections are parsed with an explicit stack of open frames.  *)
(* Value payloads are decoded by IppValue!Parse (value.rs).                *)
(***************************************************************************)
EXTENDS IppValue

CONSTANT NULL

VARIABLES
    pin,      \* the bytes not read yet
    pst,      \* "idle", "header", "groups", "done" or "error"
    perr,     \* the error kind once pst = "error"
    pgroups,  \* the groups parsed so far: [tag |-> d, attrs |-> f]
    plast,    \* name of the last attribute of the current group, or NULL
    stack,    \* open collections, innermost last
    seen,     \* the named records read, in wire order: [g |-> i, name |-> n]
    payload,  \* the bytes after EndOfAttributes
    pheader   \* the header read, or NULL before it

parserVars == <<pin, pst, perr, pgroups, plast, stack, seen, payload, pheader>>

ParserInit ==
    /\ pin = << >> /\ pst = "idle" /\ perr = NULL /\ pgroups = << >>
    /\ plast = NULL /\ stack = << >> /\ seen = << >> /\ payload = << >>
    /\ pheader = NULL

\* The parser is handed a byte source holding bytes.
Start(bytes) ==
    /\ pin' = bytes /\ pst' = "header" /\ perr' = NULL /\ pgroups' = << >>
    /\ plast' = NULL /\ stack' = << >> /\ seen' = << >> /\ payload' = << >>
    /\ pheader' = NULL

Error(e) ==
    /\ pst' = "error" /\ perr' = e
    /\ UNCHANGED <<pin, pgroups, plast, stack, seen, payload, pheader>>

\* The next attribute record of the input, or a Truncated read.
Record(b) ==
    IF Len(b) < 3 \/ Len(b) < 5 + GetU16(SubSeq(b, 2, 3)) THEN [ok |-> FALSE]
    ELSE LET nl == GetU16(SubSeq(b, 2, 3))
             vl == GetU16(SubSeq(b, 4 + nl, 5 + nl))
         IN  IF Len(b) < 5 + nl + vl THEN [ok |-> FALSE]
             ELSE [ok |-> TRUE, tag |-> b[1], name |-> Lossy(SubSeq(b, 4, 3 + nl)),
                   data |-> SubSeq(b, 6 + nl, 5 + nl + vl),
                   rest |-> SubSeq(b, 6 + nl + vl, Len(b))]

\* A continuation value appended to a value, promoting it to an Array.
AppendValue(old, v) ==
    IF old.k = "Array" THEN [old EXCEPT !.items = Append(@, v)]
    ELSE [k |-> "Array", items |-> << old, v >>]

Cur == Len(pgroups)
CurAttrs == pgroups[Cur].attrs

\* The attributes of the current group with name bound to v.
SetAttr(name, v) == [pgroups EXCEPT ![Cur].attrs = (name :> v) @@ @]

(***************************************************************************)
(* The 8-byte header [major][minor][op_or_status u16][request_id u32] as  *)
(* a record; the u32 is kept as its two u16 halves, high half first, so   *)
(* that ids of 2^31 and above stay representable.                          *)
(***************************************************************************)
HeaderOf(b) ==
    [version    |-> << b[1], b[2] >>,
     operation  |-> GetU16(SubSeq(b, 3, 4)),
     request_id |-> << GetU16(SubSeq(b, 5, 6)), GetU16(SubSeq(b, 7, 8)) >>]

\* Mutation of HeaderBytes: the request id's halves in the wrong order.
HeaderBytesLowHalfFirst(h) ==
    h.version \o U16(h.operation) \o U16(h.request_id[2]) \o U16(h.request_id[1])

\* Emission of a header (spec 4.9), the inverse of HeaderOf.
HeaderBytes(h) ==
    h.version \o U16(h.operation) \o U16(h.request_id[1]) \o U16(h.request_id[2])

ReadHeader ==
    /\ pst = "header"
    /\ IF Len(pin) < 8 THEN Error("Truncated")
       ELSE /\ pin' = SubSeq(pin, 9, Len(pin)) /\ pst' = "groups"
            /\ pheader' = HeaderOf(pin)
            /\ UNCHANGED <<perr, pgroups, plast, stack, seen, payload>>

\* A delimiter tag other than EndOfAttributes opens a new current group.
ReadDelimiter ==
    /\ pst = "groups" /\ pin # << >> /\ stack = << >>
    /\ pin[1] \in (1..10) \ {3}
    /\ pgroups' = Append(pgroups, [tag |-> pin[1], attrs |-> [n \in {} |-> 0]])
    /\ pin' = Tail(pin) /\ plast' = NULL
    /\ UNCHANGED <<pst, perr, stack, seen, payload>>

\* EndOfAttributes: the rest of the input is the opaque payload.
ReadEnd ==
    /\ pst = "groups" /\ pin # << >> /\ stack = << >> /\ pin[1] = 3
    /\ payload' = Tail(pin) /\ pin' = << >> /\ pst' = "done"
    /\ UNCHANGED <<perr, pgroups, plast, stack, seen>>

\* A byte in delimiter position that is no tag, or a value record before
\* any group was opened.
BadDelimiter ==
    /\ pst = "groups" /\ pin # << >> /\ stack = << >>
    /\ pin[1] \notin 1..10 /\ (pin[1] \notin 16..79 \/ pgroups = << >>)
    /\ Error("InvalidDelimiterTag")

\* The input ends before EndOfAttributes.
ReadEof ==
    /\ pst = "groups" /\ pin = << >> /\ stack = << >>
    /\ Error("Truncated")

(***************************************************************************)
(* A value record outside any collection.  A named record starts a new    *)
(* attribute (a BegCollection opens a frame); an unnamed one continues    *)
(* the last attribute when its tag matches, else UnexpectedContinuation.  *)
(***************************************************************************)
ReadAttribute ==
    /\ pst = "groups" /\ pin # << >> /\ stack = << >> /\ pgroups # << >>
    /\ pin[1] \in 16..79
    /\ LET r == Record(pin) IN
       IF ~r.ok THEN Error("Truncated")
       ELSE LET named == r.name # << >>
                cont  == ~named /\ plast # NULL /\ ToTag(CurAttrs[plast]) = r.tag
                v     == Parse(r.tag, r.data)
            IN
            CASE ~named /\ ~cont -> Error("UnexpectedContinuation")
              [] r.tag = Tag.BegCollection ->
                    /\ stack' = << [into |-> IF named THEN "attr" ELSE "append",
                                    name |-> r.name, members |-> [n \in {} |-> 0],
                                    key |-> NULL, lastKey |-> NULL] >>
                    /\ seen' = IF named THEN Append(seen, [g |-> Cur, name |-> r.name])
                               ELSE seen
                    /\ pin' = r.rest
                    /\ UNCHANGED <<pst, perr, pgroups, plast, payload>>
              [] ~v.ok -> Error(v.err)
              [] named ->
                    /\ pgroups' = SetAttr(r.name, v.val) /\ plast' = r.name
                    /\ seen' = Append(seen, [g |-> Cur, name |-> r.name])
                    /\ pin' = r.rest
                    /\ UNCHANGED <<pst, perr, stack, payload>>
              [] OTHER ->
                    /\ pgroups' = SetAttr(plast, AppendValue(CurAttrs[plast], v.val))
                    /\ pin' = r.rest
                    /\ UNCHANGED <<pst, perr, plast, stack, seen, payload>>

(***************************************************************************)
(* Records inside an open collection (stack # << >>).  They carry empty   *)
(* names and come in pairs: a MemberAttrName record naming the member,    *)
(* then the member's value; an unnamed value of the same tag after a      *)
(* member value continues it as an Array; EndCollection closes the frame. *)
(***************************************************************************)
Top == stack[Len(stack)]

\* The value v of a closed frame f delivered to whatever f was opened for.
Deliver(f, v) ==
    LET below == SubSeq(stack, 1, Len(stack) - 1)
        p     == below[Len(below)]
    IN
    CASE f.into = "attr" ->
            /\ pgroups' = SetAttr(f.name, v) /\ plast' = f.name /\ stack' = below
      [] f.into = "append" ->
            /\ pgroups' = SetAttr(plast, AppendValue(CurAttrs[plast], v))
            /\ stack' = below /\ UNCHANGED plast
      [] f.into = "member" ->
            /\ stack' = [below EXCEPT ![Len(below)] =
                           [p EXCEPT !.members = (p.key :> v) @@ @,
                                     !.lastKey = p.key, !.key = NULL]]
            /\ UNCHANGED <<pgroups, plast>>
      [] f.into = "memberAppend" ->
            /\ stack' = [below EXCEPT ![Len(below)].members[p.lastKey] =
                           AppendValue(@, v)]
            /\ UNCHANGED <<pgroups, plast>>

ReadMember ==
    /\ pst = "groups" /\ stack # << >>
    /\ IF pin = << >> THEN Error("UnterminatedCollection")
       ELSE IF pin[1] \notin 16..79 THEN Error("InvalidTag")
       ELSE LET r == Record(pin) IN
       IF ~r.ok THEN Error("Truncated")
       ELSE LET f    == Top
                v    == Parse(r.tag, r.data)
                cont == f.key = NULL /\ f.lastKey # NULL
                        /\ ToTag(f.members[f.lastKey]) = r.tag
            IN
            CASE r.name # << >> -> Error("UnterminatedCollection")
              [] r.tag = Tag.MemberAttrName ->
                    IF f.key # NULL THEN Error("UnexpectedContinuation")
                    ELSE IF ~BoundedNew(Lossy(r.data), 255)
                         THEN Error("InvalidStringLength")
                    ELSE /\ stack' = [stack EXCEPT ![Len(stack)].key = Lossy(r.data)]
                         /\ pin' = r.rest
                         /\ UNCHANGED <<pst, perr, pgroups, plast, seen, payload>>
              [] r.tag = Tag.EndCollection ->
                    IF f.key # NULL THEN Error("UnexpectedContinuation")
                    ELSE /\ Deliver(f, [k |-> "Collection", members |-> f.members])
                         /\ pin' = r.rest
                         /\ UNCHANGED <<pst, perr, seen, payload>>
              [] f.key = NULL /\ ~cont -> Error("UnexpectedContinuation")
              [] r.tag = Tag.BegCollection ->
                    /\ stack' = Append(stack,
                          [into |-> IF f.key # NULL THEN "member" ELSE "memberAppend",
                           name |-> << >>, members |-> [n \in {} |-> 0],
                           key |-> NULL, lastKey |-> NULL])
                    /\ pin' = r.rest
                    /\ UNCHANGED <<pst, perr, pgroups, plast, seen, payload>>
              [] ~v.ok -> Error(v.err)
              [] f.key # NULL ->
                    /\ stack' = [stack EXCEPT ![Len(stack)] =
                          [f EXCEPT !.members = (f.key :> v.val) @@ @,
                                    !.lastKey = f.key, !.key = NULL]]
                    /\ pin' = r.rest
                    /\ UNCHANGED <<pst, perr, pgroups, plast, seen, payload>>
              [] OTHER ->
                    /\ stack' = [stack EXCEPT ![Len(stack)].members[f.lastKey] =
                                    AppendValue(@, v.val)]
                    /\ pin' = r.rest
                    /\ UNCHANGED <<pst, perr, pgroups, plast, seen, payload>>

\* Only the header step writes pheader.
ParserNext ==
    \/ ReadHeader
    \/ (ReadDelimiter \/ ReadEnd \/ BadDelimiter \/ ReadEof \/ ReadAttribute \/ ReadMember)
       /\ UNCHANGED pheader

ParserDone == pst \in {"done", "error"}
=============================================================================
