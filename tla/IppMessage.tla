----------------------------- MODULE IppMessage -----------------------------
(***************************************************************************)
(* What the codec promises, with no byte form (spec 8, parse(serialize(m)) *)
(* = m, as IppAttributes::to_bytes narrows it).  A caller edits a message  *)
(* and its header at will, sends it with a payload, and the peer           *)
(* eventually receives the header and the message the serializer keeps:   *)
(* the first operation group (an empty one when there is none), then      *)
(* every other group in order, each group as the names and values it      *)
(* carries, and the payload.  The header starts as the caller chose it.   *)
(***************************************************************************)
EXTENDS Sequences

VARIABLES
    msg,    \* the message: a sequence of [tag |-> d, attrs |-> name -> value]
    hdr,    \* its header: [version, operation, request_id]
    stage,  \* "build", "sent" or "delivered"
    out,    \* what the peer received, NoOut before delivery
    pay     \* the payload sent

avars == <<msg, hdr, stage, out, pay>>

\* DelimiterTag::OperationAttributes.
OperationTag == 1

NoOut == "none"

\* The message the serializer keeps: the first operation group, or an empty
\* operation group when there is none, then every other group in order.
Delivered(m) ==
    LET ops == SelectSeq(m, LAMBDA g : g.tag = OperationTag)
    IN  << IF ops = << >> THEN [tag |-> OperationTag, attrs |-> [n \in {} |-> 0]]
                          ELSE Head(ops) >>
        \o SelectSeq(m, LAMBDA g : g.tag # OperationTag)

Init == msg = << >> /\ stage = "build" /\ out = NoOut /\ pay = << >>

\* The caller changes the message and its header in any way.
Edit == stage = "build" /\ UNCHANGED <<stage, out, pay>>

\* The message is sent with some payload.
Send == stage = "build" /\ stage' = "sent" /\ UNCHANGED <<msg, hdr, out>>

\* The peer receives it.
Deliver ==
    /\ stage = "sent" /\ stage' = "delivered"
    /\ out' = [header |-> hdr, groups |-> Delivered(msg), payload |-> pay]
    /\ UNCHANGED <<msg, hdr, pay>>

Next == Edit \/ Send \/ Deliver

\* A sent message is not held back forever.
Spec == Init /\ [][Next]_avars /\ WF_avars(Deliver)
=============================================================================
