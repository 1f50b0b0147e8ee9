------------------------------ MODULE IppCodec ------------------------------
(***************************************************************************)
(* The message codec end to end.  A caller builds an IppAttributes with   *)
(* add() and groups_mut().push(), the message is serialized (header,       *)
(* IppAttributes::to_bytes, payload) with any HashMap iteration order,    *)
(* and IppParser reads the bytes back.  The message header and payload    *)
(* framing (spec 4.9) are modelled from the spec: that code is not under  *)
(* src/.                                                                   *)
(***************************************************************************)
EXTENDS IppAttributes, IppParser, IppCups

CONSTANTS
    Calls,      \* the add() calls a caller may make: [tag, name, value]
    Inserts,    \* attributes_mut().insert calls: [key, name, value]
    PushTags,   \* tags of the empty groups a caller may push
    MaxCalls,   \* bound on the number of builder calls
    Payloads,   \* document payloads following the attributes
    OpCode,     \* the operation (or status) code of the message
    RequestId,  \* the request id of the message, a u32 as << high, low >> u16
    JobId,      \* IppAttribute::JOB_ID
    CupsOps,    \* the CUPS operations a caller may start from (cups.rs)
    CupsUris    \* the printer URIs handed to CupsDeletePrinter::new

ASSUME MaxCalls \in Nat /\ PushTags \subseteq GroupTags

VARIABLES
    phase,      \* "build" while the caller adds, then "sent"; "refused" or
                \* "panic" when a CUPS constructor gave no request
    calls,      \* builder calls made so far
    wire,       \* the serialized message
    sent,       \* the payload that was serialized
    header      \* the message's version, operation and request id

vars == <<groups, phase, calls, wire, sent, header, parserVars>>

\* The 8-byte header the message is written with.
Header == HeaderBytes(header)

Init == InitAttributes /\ ParserInit /\ phase = "build" /\ calls = 0
        /\ wire = << >> /\ sent = << >>
        /\ header = [version |-> << 1, 1 >>, operation |-> OpCode, request_id |-> RequestId]

AddAttribute ==
    /\ phase = "build" /\ calls < MaxCalls
    /\ \E c \in Calls : Add(c.tag, c.name, c.value)
    /\ calls' = calls + 1
    /\ UNCHANGED <<phase, wire, sent, header, parserVars>>

PushEmptyGroup ==
    /\ phase = "build" /\ calls < MaxCalls
    /\ \E t \in PushTags : PushGroup(t)
    /\ calls' = calls + 1
    /\ UNCHANGED <<phase, wire, sent, header, parserVars>>

\* The caller edits a group's HashMap directly through groups_mut() and
\* attributes_mut(): an insert under a key of its choosing ...
InsertAttribute ==
    /\ phase = "build" /\ calls < MaxCalls
    /\ \E i \in DOMAIN groups, c \in Inserts : InsertInGroup(i, c.key, Attr(c.name, c.value))
    /\ calls' = calls + 1
    /\ UNCHANGED <<phase, wire, sent, header, parserVars>>

\* ... or a remove.
RemoveAttribute ==
    /\ phase = "build" /\ calls < MaxCalls
    /\ \E i \in DOMAIN groups : \E k \in DOMAIN groups[i].attrs : RemoveFromGroup(i, k)
    /\ calls' = calls + 1
    /\ UNCHANGED <<phase, wire, sent, header, parserVars>>

\* The caller starts from the request CUPS-Get-Printers builds
\* (CupsGetPrinters::new().into_ipp_request()) ...
GetPrinters ==
    /\ phase = "build" /\ calls = 0 /\ "CupsGetPrinters" \in CupsOps
    /\ IF CupsGetPrintersRequest.ok
       THEN /\ groups' = CupsGetPrintersRequest.val /\ UNCHANGED phase
            /\ header' = [header EXCEPT !.operation = Operation.CupsGetPrinters]
       ELSE phase' = "panic" /\ UNCHANGED <<groups, header>>
    /\ calls' = calls + 1
    /\ UNCHANGED <<wire, sent, parserVars>>

\* ... or from CupsDeletePrinter::new(uri)?.into_ipp_request(), where new
\* returns the error of a URI too long for an IppString.
DeletePrinter ==
    /\ phase = "build" /\ calls = 0 /\ "CupsDeletePrinter" \in CupsOps
    /\ \E u \in CupsUris :
          IF CupsDeletePrinterNew(u).ok
          THEN /\ groups' = CupsDeletePrinterRequest(CupsDeletePrinterNew(u).val)
               /\ header' = [header EXCEPT !.operation = Operation.CupsDeletePrinter]
               /\ UNCHANGED phase
          ELSE phase' = "refused" /\ UNCHANGED <<groups, header>>
    /\ calls' = calls + 1
    /\ UNCHANGED <<wire, sent, parserVars>>

\* The message is serialized and handed to the parser as its byte source.
Send ==
    /\ phase = "build"
    /\ \E body \in ToBytesChoices(groups), pl \in Payloads :
          /\ wire' = Header \o body \o pl
          /\ sent' = pl
          /\ Start(Header \o body \o pl)
    /\ phase' = "sent"
    /\ UNCHANGED <<groups, calls, header>>

Receive ==
    /\ phase = "sent"
    /\ ParserNext
    /\ UNCHANGED <<groups, phase, calls, wire, sent, header>>

\* The parse has returned, or a CUPS constructor gave no request: the run
\* is over.
Finished == ((phase = "sent" /\ ParserDone) \/ phase \in {"refused", "panic"}) /\ UNCHANGED vars

Next == GetPrinters \/ DeletePrinter
        \/ AddAttribute \/ PushEmptyGroup \/ InsertAttribute \/ RemoveAttribute
        \/ Send \/ Receive \/ Finished

\* The caller may stop building at any point, or never send.  Once the
\* bytes are handed to the parser, its loop runs inside one call to the
\* end of the bytes: parser steps are weakly fair.
Spec == Init /\ [][Next]_vars /\ WF_vars(Receive)

-----------------------------------------------------------------------------
Values == {c.value : c \in Calls} \cup {c.value : c \in Inserts}
          \cup {[k |-> "Charset", s |-> DefaultCharset], [k |-> "NaturalLanguage", s |-> DefaultLanguage]}
          \cup {[k |-> "Uri", s |-> u] : u \in CupsUris}
Names == {c.name : c \in Calls} \cup {c.name : c \in Inserts} \cup {AttributesCharset,
          AttributesNaturalLanguage, PrinterUri}

TypeOK ==
    /\ \A i \in DOMAIN groups :
          /\ groups[i].tag \in GroupTags
          /\ DOMAIN groups[i].attrs \subseteq Names \cup {c.key : c \in Inserts}
          /\ \A k \in DOMAIN groups[i].attrs :
                groups[i].attrs[k] \in [name : Names, value : Values]
    /\ phase \in {"build", "sent", "refused", "panic"}
    /\ calls \in 0..MaxCalls
    /\ wire \in Seq(0..255) /\ pin \in Seq(0..255) /\ sent \in Payloads
    /\ pst \in {"idle", "header", "groups", "done", "error"}
    /\ header \in [version : {<< 1, 1 >>}, operation : {OpCode} \cup {Operation[o] : o \in CupsOps},
                   request_id : {RequestId}]
    /\ pheader \in {NULL} \cup [version : (0..255) \X (0..255), operation : 0..65535,
                                request_id : (0..65535) \X (0..65535)]
    /\ Len(stack) <= 3

\* The list the serializer writes: the first operation group, then every
\* other group in vector order; each group as the names and values it
\* carries.
OpFirst(gs) ==
    NamedGroups([i \in 1..Len(GroupsOf(gs, Delim.OperationAttributes)) |->
                   gs[GroupsOf(gs, Delim.OperationAttributes)[i]]]
                \o SelectSeq(gs, LAMBDA g : g.tag # Delim.OperationAttributes))

\* Round trip (spec section 8, parse(serialize(m)) = m): for a list with
\* exactly one operation group, every serialization, in every HashMap order,
\* parses back without error to the same groups, attributes, arrays and
\* collections (with the operation group first), and the same payload.
RoundTrip ==
    (phase = "sent" /\ ParserDone
     /\ Len(GroupsOf(groups, Delim.OperationAttributes)) = 1)
    => /\ pst = "done"
       /\ pgroups = OpFirst(groups)
       /\ payload = sent

\* Header ordering (RFC 8011 4.1.4-4.1.5, attribute.rs to_bytes): in the
\* bytes of the operation group the header attributes present come first,
\* in HEADER_ATTRS order (charset, natural language, printer-uri), and no
\* header attribute is written a second time.
HeaderOrder ==
    (phase = "sent" /\ pst = "done" /\ GroupsOf(groups, Delim.OperationAttributes) # << >>)
    => LET op    == groups[GroupsOf(groups, Delim.OperationAttributes)[1]]
           hdrs  == SelectSeq(HEADER_ATTRS, LAMBDA n : n \in DOMAIN op.attrs)
           names == [i \in 1..Len(SelectSeq(seen, LAMBDA s : s.g = 1)) |->
                        SelectSeq(seen, LAMBDA s : s.g = 1)[i].name]
       IN  /\ SubSeq(names, 1, Len(hdrs)) = hdrs
           /\ \A i \in Len(hdrs) + 1 .. Len(names) : ~is_header_attr(names[i])

\* Empty message (spec section 8, scenario 4): a message with no attributes
\* serializes to its header followed by the EndOfAttributes tag alone.
EmptyMessageBytes ==
    (phase = "sent" /\ groups = << >>) => wire = Header \o << Delim.EndOfAttributes >> \o sent

\* Operation targets (the comment on HEADER_ATTRS, attribute.rs, after RFC
\* 8011 4.1.5): when the operation group holds printer-uri and job-id,
\* printer-uri is the third attribute written and job-id the fourth.
OperationTargetOrder ==
    (phase = "sent" /\ pst = "done" /\ GroupsOf(groups, Delim.OperationAttributes) # << >>)
    => LET op    == groups[GroupsOf(groups, Delim.OperationAttributes)[1]]
           names == [i \in 1..Len(SelectSeq(seen, LAMBDA s : s.g = 1)) |->
                        SelectSeq(seen, LAMBDA s : s.g = 1)[i].name]
       IN  ({AttributesCharset, AttributesNaturalLanguage, PrinterUri, JobId}
               \subseteq DOMAIN op.attrs)
           => names[4] = JobId

\* The refinement mapping: the abstract message is the built list as names
\* and values; it is delivered when the parse returns Ok, with the groups
\* and payload the parse produced.
Message == INSTANCE IppMessage
    WITH msg   <- NamedGroups(groups),
         hdr   <- header,
         stage <- IF phase \in {"build", "refused", "panic"} THEN "build"
                  ELSE IF pst = "done" THEN "delivered" ELSE "sent",
         out   <- IF pst = "done" THEN [header |-> pheader, groups |-> pgroups, payload |-> payload]
                  ELSE "none",
         pay   <- sent

\* The codec implements its contract (spec 8): every attribute list built
\* with add(), groups_mut().push() and attributes_mut() under matching keys,
\* or from a CUPS request, serialized in any HashMap order, is parsed back,
\* eventually and without error, to the same header (version, operation,
\* u32 request id), the first operation group (an empty one when none was
\* built), then the other groups in order, the same names, values and payload.
MessageSpec == Message!Spec
=============================================================================
