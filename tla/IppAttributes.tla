---------------------------- MODULE IppAttributes ----------------------------
(***************************************************************************)
(* The attribute list of src/ipp/src/attribute.rs: IppAttributes, a       *)
(* vector of IppAttributeGroup, each a delimiter tag and a HashMap from    *)
(* attribute name to value, built by add() and serialized by to_bytes().   *)
(*                                                                         *)
(* A group is [tag |-> d, attrs |-> f] with f the HashMap: a function from *)
(* keys (byte sequences) to attributes [name |-> n, value |-> v].  add()  *)
(* keys an attribute by its name; attributes_mut() lets a caller use any  *)
(* key.  HashMap iteration order is unspecified, so serialization is a    *)
(* choice over every order of each group's keys.                          *)
(***************************************************************************)
EXTENDS IppValue, TLC

CONSTANTS
    AttributesCharset,          \* IppAttribute::ATTRIBUTES_CHARSET
    AttributesNaturalLanguage,  \* IppAttribute::ATTRIBUTES_NATURAL_LANGUAGE
    PrinterUri                  \* IppAttribute::PRINTER_URI

\* DelimiterTag of model.rs.
Delim == [OperationAttributes |-> 1, JobAttributes |-> 2, EndOfAttributes |-> 3,
          PrinterAttributes |-> 4, UnsupportedAttributes |-> 5,
          SubscriptionAttributes |-> 6, EventNotificationAttributes |-> 7,
          ResourceAttributes |-> 8, DocumentAttributes |-> 9, SystemAttributes |-> 10]

\* The tags a group may carry (every delimiter but EndOfAttributes).
GroupTags == {Delim[d] : d \in DOMAIN Delim} \ {Delim.EndOfAttributes}

\* IppAttribute::HEADER_ATTRS, in the order RFC 8011 4.1.4-4.1.5 requires.
HEADER_ATTRS == << AttributesCharset, AttributesNaturalLanguage, PrinterUri >>

is_header_attr(name) == \E i \in DOMAIN HEADER_ATTRS : HEADER_ATTRS[i] = name

VARIABLE groups

\* IppAttributeGroup::new: a group with no attributes.
NewGroup(tag) == [tag |-> tag, attrs |-> [n \in {} |-> 0]]

\* The indices of groups_of(tag), in vector order.
GroupsOf(gs, tag) == SelectSeq([i \in DOMAIN gs |-> i], LAMBDA i : gs[i].tag = tag)

\* IppAttribute::new: the name and the value.
Attr(name, value) == [name |-> name, value |-> value]

\* HashMap::insert: a second insertion under a key replaces the first.
HashInsert(attrs, key, attr) == (key :> attr) @@ attrs

\* HashMap::remove.
HashRemove(attrs, key) == [k \in DOMAIN attrs \ {key} |-> attrs[k]]

(***************************************************************************)
(* IppAttribute::to_bytes: value tag, u16 name length, name, value bytes.  *)
(***************************************************************************)
AttributeBytes(name, value) ==
    << ToTag(value) >> \o U16(Len(name)) \o name \o ToBytes(value)

\* The attributes under the keys of order, serialized one after the other.
AttrsBytes(attrs, order) ==
    FlattenSeq([i \in DOMAIN order |->
                  AttributeBytes(attrs[order[i]].name, attrs[order[i]].value)])

\* Every iteration order of a HashMap with the given keys.
Orders(attrs) == SetToSeqs(DOMAIN attrs)

\* Mutation of ListBytes: header attributes are written again among the rest.
ListBytesRepeatsHeaders(gs, ord) ==
    LET ops   == GroupsOf(gs, Delim.OperationAttributes)
        rest  == SelectSeq([i \in DOMAIN gs |-> i],
                           LAMBDA i : gs[i].tag # Delim.OperationAttributes)
        op    == ops[1]
        hdrs  == SelectSeq(HEADER_ATTRS, LAMBDA n : n \in DOMAIN gs[op].attrs)
        other == ord[op]
    IN  << Delim.OperationAttributes >>
        \o (IF ops = << >> THEN << >>
            ELSE AttrsBytes(gs[op].attrs, hdrs) \o AttrsBytes(gs[op].attrs, other))
        \o FlattenSeq([j \in DOMAIN rest |->
              << gs[rest[j]].tag >> \o AttrsBytes(gs[rest[j]].attrs, ord[rest[j]])])
        \o << Delim.EndOfAttributes >>

\* Mutation of ListBytes: the operation group is not skipped among the rest.
ListBytesRepeatsOpGroup(gs, ord) ==
    LET ops   == GroupsOf(gs, Delim.OperationAttributes)
        rest  == [i \in DOMAIN gs |-> i]
        op    == ops[1]
        hdrs  == SelectSeq(HEADER_ATTRS, LAMBDA n : n \in DOMAIN gs[op].attrs)
        other == SelectSeq(ord[op], LAMBDA k : ~is_header_attr(gs[op].attrs[k].name))
    IN  << Delim.OperationAttributes >>
        \o (IF ops = << >> THEN << >>
            ELSE AttrsBytes(gs[op].attrs, hdrs) \o AttrsBytes(gs[op].attrs, other))
        \o FlattenSeq([j \in DOMAIN rest |->
              << gs[rest[j]].tag >> \o AttrsBytes(gs[rest[j]].attrs, ord[rest[j]])])
        \o << Delim.EndOfAttributes >>

\* Mutation of ListBytes: the OperationAttributes delimiter is written only
\* when an operation group exists.
ListBytesOpDelimOnlyWithGroup(gs, ord) ==
    LET ops   == GroupsOf(gs, Delim.OperationAttributes)
        rest  == SelectSeq([i \in DOMAIN gs |-> i],
                           LAMBDA i : gs[i].tag # Delim.OperationAttributes)
        op    == ops[1]
        hdrs  == SelectSeq(HEADER_ATTRS, LAMBDA n : n \in DOMAIN gs[op].attrs)
        other == SelectSeq(ord[op], LAMBDA k : ~is_header_attr(gs[op].attrs[k].name))
    IN  (IF ops = << >> THEN << >>
         ELSE << Delim.OperationAttributes >>
              \o AttrsBytes(gs[op].attrs, hdrs) \o AttrsBytes(gs[op].attrs, other))
        \o FlattenSeq([j \in DOMAIN rest |->
              << gs[rest[j]].tag >> \o AttrsBytes(gs[rest[j]].attrs, ord[rest[j]])])
        \o << Delim.EndOfAttributes >>

(***************************************************************************)
(* IppAttributes::to_bytes with the HashMap orders fixed by ord, a         *)
(* function from group index to an order of that group's keys.  The       *)
(* OperationAttributes delimiter is written whether or not such a group    *)
(* exists; only the first operation group is written: the attributes      *)
(* found under the HEADER_ATTRS keys first, then those whose name is no     *)
(* header name; then every other group in vector order; then              *)
(* EndOfAttributes.                                                        *)
(***************************************************************************)
ListBytes(gs, ord) ==
    LET ops   == GroupsOf(gs, Delim.OperationAttributes)
        rest  == SelectSeq([i \in DOMAIN gs |-> i],
                           LAMBDA i : gs[i].tag # Delim.OperationAttributes)
        op    == ops[1]
        hdrs  == SelectSeq(HEADER_ATTRS, LAMBDA n : n \in DOMAIN gs[op].attrs)
        other == SelectSeq(ord[op], LAMBDA k : ~is_header_attr(gs[op].attrs[k].name))
    IN  << Delim.OperationAttributes >>
        \o (IF ops = << >> THEN << >>
            ELSE AttrsBytes(gs[op].attrs, hdrs) \o AttrsBytes(gs[op].attrs, other))
        \o FlattenSeq([j \in DOMAIN rest |->
              << gs[rest[j]].tag >> \o AttrsBytes(gs[rest[j]].attrs, ord[rest[j]])])
        \o << Delim.EndOfAttributes >>

\* Every byte sequence IppAttributes::to_bytes may produce for gs.
ToBytesChoices(gs) ==
    LET allOrders == UNION {Orders(gs[i].attrs) : i \in DOMAIN gs}
    IN  { ListBytes(gs, ord) :
            ord \in { o \in [DOMAIN gs -> allOrders] :
                        \A i \in DOMAIN gs : o[i] \in Orders(gs[i].attrs) } }

(***************************************************************************)
(* Operations that change an attribute list.                               *)
(***************************************************************************)
\* IppAttributes::new.
InitAttributes == groups = << >>

\* IppAttributes::add: insert into the first group with the tag, or push a
\* new group holding the attribute when there is none.
Add(tag, name, value) ==
    LET gi == GroupsOf(groups, tag) IN
    groups' = IF gi # << >>
              THEN [groups EXCEPT ![gi[1]].attrs = HashInsert(@, name, Attr(name, value))]
              ELSE Append(groups, [NewGroup(tag) EXCEPT !.attrs = HashInsert(@, name, Attr(name, value))])

\* groups_mut().push(IppAttributeGroup::new(tag)): the public vector lets a
\* caller (and the parser) hold several groups with one tag.
PushGroup(tag) == groups' = Append(groups, NewGroup(tag))

\* groups_mut()[i].attributes_mut().insert(key, attr): any group, any key.
InsertInGroup(i, key, attr) == groups' = [groups EXCEPT ![i].attrs = HashInsert(@, key, attr)]

\* groups_mut()[i].attributes_mut().remove(key).
RemoveFromGroup(i, key) == groups' = [groups EXCEPT ![i].attrs = HashRemove(@, key)]

\* The attribute list a parse yields, as IppParser builds it: every
\* attribute keyed by its name.
FromParsed(pgs) ==
    [i \in DOMAIN pgs |->
        [tag |-> pgs[i].tag,
         attrs |-> [n \in DOMAIN pgs[i].attrs |-> Attr(n, pgs[i].attrs[n])]]]

\* A group as the wire carries it: each written name with its value (a
\* name under two keys keeps one of its values).
Named(g) ==
    [n \in {g.attrs[k].name : k \in DOMAIN g.attrs} |->
        g.attrs[CHOOSE k \in DOMAIN g.attrs : g.attrs[k].name = n].value]

NamedGroups(gs) == [i \in DOMAIN gs |-> [tag |-> gs[i].tag, attrs |-> Named(gs[i])]]
=============================================================================
