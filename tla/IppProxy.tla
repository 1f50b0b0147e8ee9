------------------------------ MODULE IppProxy ------------------------------
(***************************************************************************)
(* A proxy or inspector (spec section 9): it parses a message received    *)
(* from the network, relays it by serializing the parsed IppAttributes    *)
(* again (IppAttributes::to_bytes, any HashMap order) behind the same     *)
(* header and payload, and the next hop parses the relayed bytes.  The    *)
(* received bytes are arbitrary: valid messages, their truncations and    *)
(* their one-byte corruptions, so every error path of the parser runs.    *)
(***************************************************************************)
EXTENDS IppAttributes, IppParser

CONSTANT Inputs     \* the byte sequences the proxy may receive

VARIABLES
    hop,        \* 0 before the message arrives, 1 parsing it, 2 parsing the relay
    received,   \* the bytes received
    first,      \* the groups parsed at hop 1
    firstPay    \* the payload parsed at hop 1

vars == <<groups, hop, received, first, firstPay, parserVars>>

Init == InitAttributes /\ ParserInit /\ hop = 0 /\ received = << >>
        /\ first = << >> /\ firstPay = << >>

Arrive ==
    /\ hop = 0
    /\ \E b \in Inputs : received' = b /\ Start(b)
    /\ hop' = 1
    /\ UNCHANGED <<groups, first, firstPay>>

Step ==
    /\ hop \in {1, 2}
    /\ ParserNext
    /\ UNCHANGED <<groups, hop, received, first, firstPay>>

\* A parsed message is relayed: its attribute list is serialized again.
Relay ==
    /\ hop = 1 /\ pst = "done"
    /\ groups' = FromParsed(pgroups) /\ first' = pgroups /\ firstPay' = payload
    /\ \E body \in ToBytesChoices(FromParsed(pgroups)) :
          Start(HeaderBytes(pheader) \o body \o payload)
    /\ hop' = 2
    /\ UNCHANGED received

\* A parse error ends the exchange at hop 1, the relayed parse at hop 2.
Finished ==
    /\ \/ hop = 1 /\ pst = "error"
       \/ hop = 2 /\ ParserDone
    /\ UNCHANGED vars

Next == Arrive \/ Step \/ Relay \/ Finished

Spec == Init /\ [][Next]_vars

-----------------------------------------------------------------------------
TypeOK ==
    /\ hop \in 0..2
    /\ received \in Seq(0..255)
    /\ pin \in Seq(0..255) /\ payload \in Seq(0..255)
    /\ pst \in {"idle", "header", "groups", "done", "error"}
    /\ (pst = "error") <=> (perr # NULL)

\* Relay stability (spec 9, "a proxy can round-trip traffic it does not
\* semantically understand"): when the received message has exactly one
\* operation group, whatever it held (unknown tags, arrays, collections,
\* lossy-decoded strings, over-long fixed-size payloads), the relayed bytes
\* parse without error to the same groups (operation group first) and
\* the same payload as the received ones.
RelayStable ==
    (hop = 2 /\ ParserDone
     /\ Len(GroupsOf(first, Delim.OperationAttributes)) = 1)
    => /\ pst = "done"
       /\ pgroups = [i \in 1..1 |-> first[GroupsOf(first, Delim.OperationAttributes)[1]]]
                    \o SelectSeq(first, LAMBDA g : g.tag # Delim.OperationAttributes)
       /\ payload = firstPay

\* Errors are returned (spec section 7): parsing any received bytes ends
\* with a message or with one of the listed errors (Truncated when a
\* fixed-size value is shorter than its type needs), never with a panic
\* of IppValue::parse reading past the end of its payload.
NoPanic == perr # "Panic"

\* Nothing is lost in relay (spec 3, several groups may share a delimiter
\* tag; spec 8, parse(serialize(m)) = m): every attribute of every group
\* parsed at hop 1 is in a group of the same tag after the relay.
RelayKeepsAttributes ==
    (hop = 2 /\ pst = "done")
    => \A i \in DOMAIN first : \A n \in DOMAIN first[i].attrs :
          \E j \in DOMAIN pgroups : pgroups[j].tag = first[i].tag
                                    /\ n \in DOMAIN pgroups[j].attrs
=============================================================================
