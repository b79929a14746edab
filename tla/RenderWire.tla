------------------------------ MODULE RenderWire ------------------------------
(* The event records of the render protocol, byte by byte: what the host       *)
(* writes into the dynamic buffer (src/src/signals/render_commands.zig) and    *)
(* what the browser reads back (src/www/static/signals.mjs), with the listener *)
(* policy, the delivery and the extraction plan they carry.                    *)
(*                                                                             *)
(* Numbers stay below 256 here, so that three bytes of a u32 are zero; names   *)
(* are spelled by short byte strings of different lengths, for the padding.    *)
EXTENDS Naturals, Sequences, FiniteSets, SequencesExt, FiniteSetsExt

Zeros(n) == [i \in 1..n |-> 0]
U16(n) == <<n, 0>>
U32(n) == <<n, 0, 0, 0>>
Align4(n) == ((n + 3) \div 4) * 4

\* A length and that many bytes.
Sized(bytes) == U32(Len(bytes)) \o bytes

\* The names that cross the wire.
Spelling == [click |-> <<1, 2>>, input |-> <<1, 3>>, change |-> <<4>>, pointerdown |-> <<5, 6, 7>>,
             keydown |-> <<8>>, picked |-> <<9, 8, 7, 6, 5>>, key |-> <<2>>, shift_key |-> <<3, 2>>]
Spelled(bytes) == CHOOSE name \in DOMAIN Spelling : Spelling[name] = bytes

-------------------------------------------------------------------------------
(* Kinds, policies and delivery, as the host writes them *)

Kinds == {"click", "input", "check", "pointer_down"}
DomEventName(key) == CASE key = "check" -> "change" [] key = "pointer_down" -> "pointerdown" [] OTHER -> key

\* The extraction plan of a fixed kind's own payload descriptor.
KindPlan(kind) == CASE kind = "input" -> "target_value" [] kind = "check" -> "target_checked" [] OTHER -> "none"

PlanKind == [none |-> "unit", target_value |-> "str", target_checked |-> "bool",
             record_key_shift |-> "bytes", detail |-> "str"]
PlanBytes == [none |-> <<1>>, target_value |-> <<2, 3, 2>>, target_checked |-> <<3, 3, 3>>,
              record_key_shift |-> <<4, 2>> \o <<1>> \o Spelling.key \o <<2, 1, 1>>
                                            \o <<2>> \o Spelling.shift_key \o <<3, 1, 4>>,
              detail |-> <<2, 1, 5>>]

OptionBit == [prevent_default |-> 1, stop_propagation |-> 2, capture |-> 4, passive |-> 8,
              once |-> 16, stop_immediate |-> 32, self |-> 64, trusted |-> 128]

\* EventPolicy.toWireBits.
ToWireBits(policy) == MapThenSumSet(LAMBDA o : OptionBit[o], policy)

Requested == [auto |-> 1, native |-> 2]
Reasons == <<"requested-native", "capture-policy", "stop-immediate-policy", "stop-propagation-policy",
             "pointer-drag", "prevent-default-policy", "once-policy", "passive-policy", "self-filter",
             "native-runtime-default">>

\* EventDelivery.derive: the first of these that applies to the policy and the
\* traits of the key.
NativeReason(key, policy) ==
    CASE "capture" \in policy -> 2
      [] "stop_immediate" \in policy -> 3
      [] "stop_propagation" \in policy -> 4
      [] key = "pointer_down" -> 5
      [] "prevent_default" \in policy -> 6
      [] "once" \in policy -> 7
      [] "passive" \in policy -> 8
      [] "self" \in policy -> 9
      [] OTHER -> 10
DeliveryReason(key, requested, policy) == IF requested = "native" THEN 1 ELSE NativeReason(key, policy)

CanUseFixedOpcode(b) == b.key \in Kinds /\ b.policy = {} /\ b.plan = KindPlan(b.key)

-------------------------------------------------------------------------------
(* Dynamic records: a header of eight bytes, the payload, zeros up to four *)

AppendRecord(op, payload) ==
    U16(op) \o U16(0) \o U32(Len(payload)) \o payload \o Zeros(Align4(Len(payload)) - Len(payload))

BindRecord(b, id) ==
    AppendRecord(3, U32(b.elem) \o U32(id) \o Sized(Spelling[DomEventName(b.key)])
                    \o U32(ToWireBits(b.policy))
                    \o U32(Requested[b.requested]) \o U32(1)
                    \o U32(DeliveryReason(b.key, b.requested, b.policy))
                    \o Sized(PlanBytes[b.plan]))
ClearRecord(elem, name) == AppendRecord(4, U32(elem) \o Sized(Spelling[name]))

\* A command that points at its record in the dynamic buffer of the batch.
Extended(batch, record) ==
    [commands |-> Append(batch.commands, [op |-> "extended", a |-> Len(batch.dynamic), b |-> Len(record)]),
     dynamic |-> batch.dynamic \o record]
Fixed(batch, op, a, b) == [batch EXCEPT !.commands = Append(@, [op |-> op, a |-> a, b |-> b])]

-------------------------------------------------------------------------------
(* The browser's side *)

Malformed == [ok |-> FALSE]
U32At(bytes, at) == bytes[at + 1] + 256 * bytes[at + 2]

\* One operand after another: a u32, or a length and that many bytes; none may
\* reach beyond the payload and nothing may be left.
Operands(payload, shapes) ==
    LET fits(acc, n) == acc.at + n <= Len(payload)
        sized(acc) ==
            LET n == U32At(payload, acc.at)
            IN  IF fits(acc, 4 + n)
                THEN [acc EXCEPT !.at = @ + 4 + n,
                                 !.values = Append(@, SubSeq(payload, acc.at + 5, acc.at + 4 + n))]
                ELSE [acc EXCEPT !.ok = FALSE]
        read(acc, shape) ==
            CASE ~acc.ok \/ ~fits(acc, 4) -> [acc EXCEPT !.ok = FALSE]
              [] shape = "u32" /\ acc.ok /\ fits(acc, 4) ->
                    [acc EXCEPT !.at = @ + 4, !.values = Append(@, <<U32At(payload, acc.at)>>)]
              [] OTHER -> sized(acc)
        all == FoldLeft(read, [ok |-> TRUE, at |-> 0, values |-> <<>>], shapes)
    IN  [ok |-> all.ok /\ all.at = Len(payload), values |-> all.values]

Shapes(op) == CASE op = 3 -> <<"u32", "u32", "sized", "u32", "u32", "u32", "u32", "sized">>
                [] op = 4 -> <<"u32", "sized">>

\* parseEventScalarExtraction: a source the leaf can be read from, and a leaf of
\* the payload's type.
IsScalar(tag, source, leaf) ==
    /\ leaf \in (IF tag = 2 THEN {1, 2, 5} ELSE {3, 4})
    /\ source \in (IF leaf \in {1, 4, 5} THEN {1} ELSE {2, 3})

Scalar(bytes, at) ==
    LET tag == bytes[at]
    IN  IF tag = 1 THEN [ok |-> TRUE, next |-> at + 1, spec |-> [kind |-> "unit"]]
        ELSE IF /\ tag \in {2, 3}
                /\ at + 2 <= Len(bytes)
                /\ IsScalar(tag, bytes[at + 1], bytes[at + 2])
        THEN [ok |-> TRUE, next |-> at + 3,
              spec |-> [kind |-> IF tag = 2 THEN "text" ELSE "bool", source |-> bytes[at + 1], leaf |-> bytes[at + 2]]]
        ELSE Malformed

\* parseEventExtractionPlan: the whole plan; the fields of a record have names of
\* their own, not empty, and none of them is a record.
ParsePlan(bytes) ==
    LET field(acc, i) ==
            LET n == bytes[acc.next]
                at == acc.next + 1 + n
                name == SubSeq(bytes, acc.next + 1, acc.next + n)
                taken == \E f \in Range(acc.fields) : f.name = name
            IN  IF ~acc.ok \/ acc.next > Len(bytes) THEN [acc EXCEPT !.ok = FALSE]
                ELSE IF n = 0 \/ at > Len(bytes) \/ taken \/ ~Scalar(bytes, at).ok
                THEN [acc EXCEPT !.ok = FALSE]
                ELSE [ok |-> TRUE, next |-> Scalar(bytes, at).next,
                      fields |-> Append(acc.fields, [name |-> name, spec |-> Scalar(bytes, at).spec])]
        whole == FoldLeft(field, [ok |-> TRUE, next |-> 3, fields |-> <<>>], [i \in 1..bytes[2] |-> i])
    IN  IF bytes = <<>> THEN Malformed
        ELSE IF bytes[1] # 4
        THEN LET one == Scalar(bytes, 1) IN IF one.ok /\ one.next = Len(bytes) + 1 THEN one ELSE Malformed
        ELSE IF Len(bytes) < 2 \/ bytes[2] = 0 THEN Malformed
        ELSE IF whole.ok /\ whole.next = Len(bytes) + 1
        THEN [ok |-> TRUE, spec |-> [kind |-> "record", fields |-> whole.fields]]
        ELSE Malformed

\* payloadKindForBoundarySchema.
PayloadKindOf(spec) ==
    CASE spec.kind = "unit" -> "unit" [] spec.kind = "text" -> "str"
      [] spec.kind = "bool" -> "bool" [] spec.kind = "record" -> "bytes"

HasOption(options, o) == (options \div OptionBit[o]) % 2 = 1

\* What a listener needs to know of its binding; `pointer` says that it prevents
\* the default of pointer events.
Binding(elem, domEvent, id, options, reason, spec, pointer) ==
    [elem |-> elem, domEvent |-> domEvent, id |-> id, options |-> options, reason |-> reason, spec |-> spec,
     pointer |-> pointer]

DecodeDynamicCommand(bytes) ==
    LET op == bytes[1]
        n  == U32At(bytes, 4)
        v  == Operands(SubSeq(bytes, 9, 8 + n), Shapes(op)).values
        plan == ParsePlan(v[8])
    IN  IF \/ Len(bytes) < 8 \/ bytes[3] # 0 \/ 8 + Align4(n) # Len(bytes)
           \/ op \notin {3, 4} \/ ~Operands(SubSeq(bytes, 9, 8 + n), Shapes(op)).ok
        THEN Malformed
        ELSE IF op = 4 THEN [ok |-> TRUE, op |-> "clear", elem |-> v[1][1], domEvent |-> Spelled(v[2])]
        ELSE IF v[4][1] > 255 \/ v[5][1] \notin 1..2 \/ v[6][1] \notin 1..2 \/ v[7][1] \notin 1..10 \/ ~plan.ok
        THEN Malformed
        ELSE [ok |-> TRUE, op |-> "bind",
              binding |-> Binding(v[1][1], Spelled(v[3]), v[2][1], v[4][1], Reasons[v[7][1]], plan.spec, FALSE)]

\* nativeDeliveryReasonForBinding of a fixed opcode: the browser derives it, the
\* record does not carry it.
FixedReason(kind) == IF kind = "pointer_down" THEN "pointer-drag" ELSE "native-runtime-default"

FixedSpec(kind) ==
    CASE kind = "input" -> [kind |-> "text", source |-> 3, leaf |-> 2]
      [] kind = "check" -> [kind |-> "bool", source |-> 3, leaf |-> 3]
      [] OTHER -> [kind |-> "unit"]

Decode(command, dynamic) ==
    CASE command.op \in {"remove_node", "create_element"} -> [ok |-> TRUE, op |-> command.op, elem |-> command.a]
      [] command.op = "clear_event" ->
            [ok |-> TRUE, op |-> "clear", elem |-> command.a, domEvent |-> DomEventName(command.b)]
      [] command.op \in Kinds ->
            [ok |-> TRUE, op |-> "bind",
             binding |-> Binding(command.a, DomEventName(command.op), command.b, 0,
                                 FixedReason(command.op), FixedSpec(command.op),
                                 command.op = "pointer_down")]
      [] command.op = "extended" -> DecodeDynamicCommand(SubSeq(dynamic, command.a + 1, command.a + command.b))

-------------------------------------------------------------------------------
(* Payloads of events *)

\* readEventExtractionLeaf: what the event, its target or its current target
\* holds. `reader` gives the property of a source, or Missing.
Missing == <<0, 0>>
Encode(spec, value) == CASE spec.kind = "unit" -> <<>>
                         [] spec.kind = "text" -> Sized(value)
                         [] spec.kind = "bool" -> <<IF value = <<1>> THEN 1 ELSE 0>>

\* extractBoundaryPayloadValue and writeBoundaryPayloadBytes: the value of the
\* plan, and no payload when a leaf has not the type the plan says.
Extracted(spec, reader) ==
    LET leaves == IF spec.kind = "record" THEN [i \in DOMAIN spec.fields |-> spec.fields[i].spec] ELSE <<spec>>
        value(s) == IF s.kind = "unit" THEN <<>> ELSE reader[s.source, s.leaf]
    IN  IF \E s \in Range(leaves) : s.kind # "unit" /\ reader[s.source, s.leaf] = Missing THEN Malformed
        ELSE [ok |-> TRUE,
              payload |-> IF spec.kind = "record"
                          THEN FlattenSeq([i \in DOMAIN leaves |-> Encode(leaves[i], value(leaves[i]))])
                          ELSE value(spec)]
===============================================================================
