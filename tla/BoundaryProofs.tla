--------------------------- MODULE BoundaryProofs ---------------------------
(***************************************************************************)
(* Proofs about the operators that MCBoundary checks: the mirrored codecs  *)
(* of Wire for lines with any further keys, and the file rules of Trust    *)
(* for any file, users and groups.  Here, too, is the invariant on the     *)
(* inputs, from which TextProofs shows what the operators of ProcessList   *)
(* and Quoting compute from a text of any length.                          *)
(***************************************************************************)
EXTENDS MCBoundary, TLAPS

\* An absent field has a value of its type, unless the field is required.
Sound(f) == f.default # W!Missing => f.default \in f.type

\* Keys that are no field of any message.
Reserved == {"event", "cmd", "type", "kind", "extra"}

\* A decoder with the fields R reads what is sent with the fields F.
Row(F, R) ==
  /\ DOMAIN F = DOMAIN R /\ Reserved \cap DOMAIN R = {}
  /\ \A k \in DOMAIN R : F[k] \subseteq R[k].type /\ W!Null \notin F[k] /\ Sound(R[k])
-----------------------------------------------------------------------------
(* serde.                                                                  *)

(* The fields of the values of a variant.                                  *)
LEMMA VariantFields ==
  ASSUME NEW kind, NEW fields, "kind" \notin DOMAIN fields, NEW v \in W!Variant(kind, fields)
  PROVE  /\ v.kind = kind /\ DOMAIN v = DOMAIN fields \cup {"kind"}
         /\ v = [k \in DOMAIN v |-> v[k]]
         /\ \A k \in DOMAIN fields : v[k] \in fields[k]
  BY DEF W!Variant

\* The value that a decoder gives to a field, and the message it makes.
Value(fields, obj, k) == IF k \in DOMAIN obj THEN W!OfJson(obj[k]) ELSE fields[k].default
Decoded(kind, fields, obj) ==
  [k \in DOMAIN fields \cup {"kind"} |-> IF k = "kind" THEN kind ELSE Value(fields, obj, k)]

\* The kind is the only one of the schema with its name on the wire.
Names(schema, kind) == \A k \in DOMAIN schema : W!Snake[k] = W!Snake[kind] => k = kind

(* Decoding an object of a known kind whose fields are well-typed or have  *)
(* defaults, whatever other keys it has.                                   *)
LEMMA DecodeReads ==
  ASSUME NEW tag, NEW schema, NEW other, NEW obj, NEW kind \in DOMAIN schema,
         tag \in DOMAIN obj, obj[tag] = W!Snake[kind], Names(schema, kind),
         \A k \in DOMAIN schema[kind] : Value(schema[kind], obj, k) \in schema[kind][k].type
  PROVE  W!Decode(tag, schema, other, obj) = Decoded(kind, schema[kind], obj)
<1> DEFINE kinds == {k \in DOMAIN schema : W!Snake[k] = obj[tag]}
<1>1. kinds = {kind}
  BY DEF Names
<1>2. kinds # {} /\ (CHOOSE k \in kinds : TRUE) = kind
  BY <1>1
<1> HIDE DEF kinds
<1> QED
  BY <1>2 DEF W!Decode, Decoded, Value, kinds

(* What is encoded with the fields of the decoder is decoded to itself.    *)
LEMMA RoundTrip ==
  ASSUME NEW tag \in Reserved \ {"kind"}, NEW schema, NEW other, NEW kind \in DOMAIN schema,
         Names(schema, kind), NEW F, Row(F, schema[kind]), NEW v \in W!Variant(kind, F)
  PROVE  W!Decode(tag, schema, other, W!Encode(tag, v)) = v
<1> DEFINE obj == W!Encode(tag, v)
<1>1. "kind" \notin DOMAIN F /\ tag \notin DOMAIN F /\ DOMAIN F = DOMAIN schema[kind]
  BY DEF Row, Reserved
<1>2. /\ v.kind = kind /\ DOMAIN v = DOMAIN F \cup {"kind"}
      /\ v = [k \in DOMAIN v |-> v[k]]
      /\ \A k \in DOMAIN F : v[k] \in F[k]
  BY <1>1, VariantFields
<1>3. DOMAIN obj = DOMAIN F \cup {tag} /\ obj[tag] = W!Snake[kind]
  BY <1>1, <1>2 DEF W!Encode
<1>4. \A k \in DOMAIN F : obj[k] = W!ToJson(v[k])
  BY <1>1, <1>2 DEF W!Encode
<1>5. \A k \in DOMAIN F : v[k] # W!Null /\ v[k] \in schema[kind][k].type
  BY <1>1, <1>2 DEF Row
<1>6. \A k \in DOMAIN F : W!OfJson(obj[k]) = v[k]
  BY <1>4, <1>5 DEF W!OfJson, W!ToJson
<1> HIDE DEF obj
<1>7. \A k \in DOMAIN schema[kind] : Value(schema[kind], obj, k) = v[k]
  BY <1>1, <1>3, <1>6 DEF Value
<1>8. \A k \in DOMAIN schema[kind] : Value(schema[kind], obj, k) \in schema[kind][k].type
  BY <1>1, <1>5, <1>7
<1>9. W!Decode(tag, schema, other, obj) = Decoded(kind, schema[kind], obj)
  BY <1>3, <1>8, DecodeReads
<1>10. Decoded(kind, schema[kind], obj) = [k \in DOMAIN v |-> v[k]]
  BY <1>1, <1>2, <1>7 DEF Decoded
<1> QED
  BY <1>2, <1>9, <1>10 DEF obj
-----------------------------------------------------------------------------
(* The two mirrors of proto.rs, field by field.                            *)

Kinds == {"Hello", "CoreStarted", "Status", "CoreStopped", "CoreExited", "Error", "Busy",
          "Kicked"}

\* The fields of SupervisorEvents.
Sent ==
  [Hello |-> [proto |-> {"1"}, version |-> W!Str, core |-> W!CoreState,
               rpc_port |-> W!Opt(W!U16)],
   CoreStarted |-> [pid |-> W!PosI32, rpc_port |-> W!U16],
   Status |-> [core |-> W!CoreState, pid |-> W!Opt(W!PosI32), rpc_port |-> W!Opt(W!U16)],
   CoreStopped |-> [reason |-> W!Str],
   CoreExited |-> [code |-> W!Opt(W!I32), signal |-> W!Opt(W!PosI32)],
   Error |-> [code |-> W!Str, msg |-> W!Str],
   Busy |-> [owner |-> {"true"}],
   Kicked |-> W!Unit]

(* The defaults of the schemas.                                            *)
LEMMA FieldSound ==
  /\ \A type : Sound(W!Required(type))
  /\ Sound(W!Field(W!Str, W!Empty)) /\ Sound(W!Field(W!Bool, "false"))
  /\ Sound(W!Field(W!Opt(W!U16), W!None)) /\ Sound(W!Field(W!Opt(W!I32), W!None))
  BY DEF Sound, W!Field, W!Required, W!Missing, W!Str, W!Bool, W!Opt

(* The empty string is not null.                                           *)
LEMMA EmptyIsText == W!Empty # W!Null
  BY DEF W!Empty, W!Null

(* No two kinds have one name on the wire.                                 *)
LEMMA SnakeDistinct ==
  /\ \A j, k \in Kinds : W!Snake[j] = W!Snake[k] => j = k
  /\ \A k \in Kinds : W!Snake[k] # "core_paused"
  /\ DOMAIN W!BridgeEventSchema = Kinds
  BY DEF W!Snake, Kinds, W!BridgeEventSchema

(* The bridge's mirror reads every field that the supervisor's sends.      *)
LEMMA EventRows == \A kind \in Kinds : Row(Sent[kind], W!BridgeEventSchema[kind])
<1> DEFINE Reads(k) == \A F, R : F = Sent[k] /\ R = W!BridgeEventSchema[k] => Row(F, R)
<1>1. Reads("Hello")
  <2> SUFFICES ASSUME NEW F, NEW R, F = Sent["Hello"], R = W!BridgeEventSchema["Hello"]
               PROVE  Row(F, R)
    OBVIOUS
  <2>1. F = [proto |-> {"1"}, version |-> W!Str, core |-> W!CoreState,
         rpc_port |-> W!Opt(W!U16)]
    BY DEF Sent
  <2>2. R = [proto |-> W!Required({"1", "2"}), version |-> W!Field(W!Str, W!Empty),
         core |-> W!Required(W!CoreState), rpc_port |-> W!Field(W!Opt(W!U16), W!None)]
    BY DEF W!BridgeEventSchema
  <2>3. /\ DOMAIN F = {"proto", "version", "core", "rpc_port"}
        /\ DOMAIN R = {"proto", "version", "core", "rpc_port"}
    BY <2>1, <2>2 DEF W!Unit
  <2>4. ASSUME NEW k \in {"proto", "version", "core", "rpc_port"}
        PROVE  F[k] \subseteq R[k].type /\ W!Null \notin F[k]
    BY <2>1, <2>2, EmptyIsText
       DEF W!Field, W!Required, W!Opt, W!U16, W!I32, W!PosI32, W!CoreState, W!Str, W!Bool,
           W!None, W!Null, W!Unit
  <2>5. ASSUME NEW k \in {"proto", "version", "core", "rpc_port"} PROVE Sound(R[k])
    BY <2>2, FieldSound
  <2> QED
    BY <2>3, <2>4, <2>5 DEF Row, Reserved
<1>2. Reads("CoreStarted")
  <2> SUFFICES ASSUME NEW F, NEW R, F = Sent["CoreStarted"], R = W!BridgeEventSchema["CoreStarted"]
               PROVE  Row(F, R)
    OBVIOUS
  <2>1. F = [pid |-> W!PosI32, rpc_port |-> W!U16]
    BY DEF Sent
  <2>2. R = [pid |-> W!Required(W!I32), rpc_port |-> W!Required(W!U16)]
    BY DEF W!BridgeEventSchema
  <2>3. DOMAIN F = {"pid", "rpc_port"} /\ DOMAIN R = {"pid", "rpc_port"}
    BY <2>1, <2>2 DEF W!Unit
  <2>4. ASSUME NEW k \in {"pid", "rpc_port"}
        PROVE  F[k] \subseteq R[k].type /\ W!Null \notin F[k]
    BY <2>1, <2>2, EmptyIsText
       DEF W!Field, W!Required, W!Opt, W!U16, W!I32, W!PosI32, W!CoreState, W!Str, W!Bool,
           W!None, W!Null, W!Unit
  <2>5. ASSUME NEW k \in {"pid", "rpc_port"} PROVE Sound(R[k])
    BY <2>2, FieldSound
  <2> QED
    BY <2>3, <2>4, <2>5 DEF Row, Reserved
<1>3. Reads("Status")
  <2> SUFFICES ASSUME NEW F, NEW R, F = Sent["Status"], R = W!BridgeEventSchema["Status"]
               PROVE  Row(F, R)
    OBVIOUS
  <2>1. F = [core |-> W!CoreState, pid |-> W!Opt(W!PosI32), rpc_port |-> W!Opt(W!U16)]
    BY DEF Sent
  <2>2. R = [core |-> W!Required(W!CoreState), pid |-> W!Field(W!Opt(W!I32), W!None),
         rpc_port |-> W!Field(W!Opt(W!U16), W!None)]
    BY DEF W!BridgeEventSchema
  <2>3. DOMAIN F = {"core", "pid", "rpc_port"} /\ DOMAIN R = {"core", "pid", "rpc_port"}
    BY <2>1, <2>2 DEF W!Unit
  <2>4. ASSUME NEW k \in {"core", "pid", "rpc_port"}
        PROVE  F[k] \subseteq R[k].type /\ W!Null \notin F[k]
    BY <2>1, <2>2, EmptyIsText
       DEF W!Field, W!Required, W!Opt, W!U16, W!I32, W!PosI32, W!CoreState, W!Str, W!Bool,
           W!None, W!Null, W!Unit
  <2>5. ASSUME NEW k \in {"core", "pid", "rpc_port"} PROVE Sound(R[k])
    BY <2>2, FieldSound
  <2> QED
    BY <2>3, <2>4, <2>5 DEF Row, Reserved
<1>4. Reads("CoreStopped")
  <2> SUFFICES ASSUME NEW F, NEW R, F = Sent["CoreStopped"], R = W!BridgeEventSchema["CoreStopped"]
               PROVE  Row(F, R)
    OBVIOUS
  <2>1. F = [reason |-> W!Str]
    BY DEF Sent
  <2>2. R = [reason |-> W!Field(W!Str, W!Empty)]
    BY DEF W!BridgeEventSchema
  <2>3. DOMAIN F = {"reason"} /\ DOMAIN R = {"reason"}
    BY <2>1, <2>2 DEF W!Unit
  <2>4. ASSUME NEW k \in {"reason"}
        PROVE  F[k] \subseteq R[k].type /\ W!Null \notin F[k]
    BY <2>1, <2>2, EmptyIsText
       DEF W!Field, W!Required, W!Opt, W!U16, W!I32, W!PosI32, W!CoreState, W!Str, W!Bool,
           W!None, W!Null, W!Unit
  <2>5. ASSUME NEW k \in {"reason"} PROVE Sound(R[k])
    BY <2>2, FieldSound
  <2> QED
    BY <2>3, <2>4, <2>5 DEF Row, Reserved
<1>5. Reads("CoreExited")
  <2> SUFFICES ASSUME NEW F, NEW R, F = Sent["CoreExited"], R = W!BridgeEventSchema["CoreExited"]
               PROVE  Row(F, R)
    OBVIOUS
  <2>1. F = [code |-> W!Opt(W!I32), signal |-> W!Opt(W!PosI32)]
    BY DEF Sent
  <2>2. R = [code |-> W!Field(W!Opt(W!I32), W!None),
         signal |-> W!Field(W!Opt(W!I32), W!None)]
    BY DEF W!BridgeEventSchema
  <2>3. DOMAIN F = {"code", "signal"} /\ DOMAIN R = {"code", "signal"}
    BY <2>1, <2>2 DEF W!Unit
  <2>4. ASSUME NEW k \in {"code", "signal"}
        PROVE  F[k] \subseteq R[k].type /\ W!Null \notin F[k]
    BY <2>1, <2>2, EmptyIsText
       DEF W!Field, W!Required, W!Opt, W!U16, W!I32, W!PosI32, W!CoreState, W!Str, W!Bool,
           W!None, W!Null, W!Unit
  <2>5. ASSUME NEW k \in {"code", "signal"} PROVE Sound(R[k])
    BY <2>2, FieldSound
  <2> QED
    BY <2>3, <2>4, <2>5 DEF Row, Reserved
<1>6. Reads("Error")
  <2> SUFFICES ASSUME NEW F, NEW R, F = Sent["Error"], R = W!BridgeEventSchema["Error"]
               PROVE  Row(F, R)
    OBVIOUS
  <2>1. F = [code |-> W!Str, msg |-> W!Str]
    BY DEF Sent
  <2>2. R = [code |-> W!Field(W!Str, W!Empty), msg |-> W!Field(W!Str, W!Empty)]
    BY DEF W!BridgeEventSchema
  <2>3. DOMAIN F = {"code", "msg"} /\ DOMAIN R = {"code", "msg"}
    BY <2>1, <2>2 DEF W!Unit
  <2>4. ASSUME NEW k \in {"code", "msg"}
        PROVE  F[k] \subseteq R[k].type /\ W!Null \notin F[k]
    BY <2>1, <2>2, EmptyIsText
       DEF W!Field, W!Required, W!Opt, W!U16, W!I32, W!PosI32, W!CoreState, W!Str, W!Bool,
           W!None, W!Null, W!Unit
  <2>5. ASSUME NEW k \in {"code", "msg"} PROVE Sound(R[k])
    BY <2>2, FieldSound
  <2> QED
    BY <2>3, <2>4, <2>5 DEF Row, Reserved
<1>7. Reads("Busy")
  <2> SUFFICES ASSUME NEW F, NEW R, F = Sent["Busy"], R = W!BridgeEventSchema["Busy"]
               PROVE  Row(F, R)
    OBVIOUS
  <2>1. F = [owner |-> {"true"}]
    BY DEF Sent
  <2>2. R = [owner |-> W!Field(W!Bool, "false")]
    BY DEF W!BridgeEventSchema
  <2>3. DOMAIN F = {"owner"} /\ DOMAIN R = {"owner"}
    BY <2>1, <2>2 DEF W!Unit
  <2>4. ASSUME NEW k \in {"owner"}
        PROVE  F[k] \subseteq R[k].type /\ W!Null \notin F[k]
    BY <2>1, <2>2, EmptyIsText
       DEF W!Field, W!Required, W!Opt, W!U16, W!I32, W!PosI32, W!CoreState, W!Str, W!Bool,
           W!None, W!Null, W!Unit
  <2>5. ASSUME NEW k \in {"owner"} PROVE Sound(R[k])
    BY <2>2, FieldSound
  <2> QED
    BY <2>3, <2>4, <2>5 DEF Row, Reserved
<1>8. Reads("Kicked")
  <2> SUFFICES ASSUME NEW F, NEW R, F = Sent["Kicked"], R = W!BridgeEventSchema["Kicked"]
               PROVE  Row(F, R)
    OBVIOUS
  <2>1. F = W!Unit
    BY DEF Sent
  <2>2. R = W!Unit
    BY DEF W!BridgeEventSchema
  <2>3. DOMAIN F = {} /\ DOMAIN R = {}
    BY <2>1, <2>2 DEF W!Unit
  <2>4. ASSUME NEW k \in {}
        PROVE  F[k] \subseteq R[k].type /\ W!Null \notin F[k]
    BY <2>1, <2>2, EmptyIsText
       DEF W!Field, W!Required, W!Opt, W!U16, W!I32, W!PosI32, W!CoreState, W!Str, W!Bool,
           W!None, W!Null, W!Unit
  <2>5. ASSUME NEW k \in {} PROVE Sound(R[k])
    BY <2>2, FieldSound
  <2> QED
    BY <2>3, <2>4, <2>5 DEF Row, Reserved
<1> QED
  BY <1>1, <1>2, <1>3, <1>4, <1>5, <1>6, <1>7, <1>8 DEF Kinds

(* Every event of the supervisor has one of the kinds and its fields.      *)
LEMMA EventKinds ==
  ASSUME NEW ev \in W!SupervisorEvents
  PROVE  \E kind \in Kinds : ev \in W!Variant(kind, Sent[kind])
<1>1. CASE ev \in W!Variant("Hello", [proto |-> {"1"}, version |-> W!Str, core |-> W!CoreState,
                              rpc_port |-> W!Opt(W!U16)])
  <2>1. Sent["Hello"] = [proto |-> {"1"}, version |-> W!Str, core |-> W!CoreState,
                           rpc_port |-> W!Opt(W!U16)]
    BY DEF Sent
  <2> QED
    BY <1>1, <2>1 DEF Kinds
<1>2. CASE ev \in W!Variant("CoreStarted", [pid |-> W!PosI32, rpc_port |-> W!U16])
  <2>1. Sent["CoreStarted"] = [pid |-> W!PosI32, rpc_port |-> W!U16]
    BY DEF Sent
  <2> QED
    BY <1>2, <2>1 DEF Kinds
<1>3. CASE ev \in W!Variant("Status", [core |-> W!CoreState, pid |-> W!Opt(W!PosI32),
                               rpc_port |-> W!Opt(W!U16)])
  <2>1. Sent["Status"] = [core |-> W!CoreState, pid |-> W!Opt(W!PosI32),
                            rpc_port |-> W!Opt(W!U16)]
    BY DEF Sent
  <2> QED
    BY <1>3, <2>1 DEF Kinds
<1>4. CASE ev \in W!Variant("CoreStopped", [reason |-> W!Str])
  <2>1. Sent["CoreStopped"] = [reason |-> W!Str]
    BY DEF Sent
  <2> QED
    BY <1>4, <2>1 DEF Kinds
<1>5. CASE ev \in W!Variant("CoreExited", [code |-> W!Opt(W!I32), signal |-> W!Opt(W!PosI32)])
  <2>1. Sent["CoreExited"] = [code |-> W!Opt(W!I32), signal |-> W!Opt(W!PosI32)]
    BY DEF Sent
  <2> QED
    BY <1>5, <2>1 DEF Kinds
<1>6. CASE ev \in W!Variant("Error", [code |-> W!Str, msg |-> W!Str])
  <2>1. Sent["Error"] = [code |-> W!Str, msg |-> W!Str]
    BY DEF Sent
  <2> QED
    BY <1>6, <2>1 DEF Kinds
<1>7. CASE ev \in W!Variant("Busy", [owner |-> {"true"}])
  <2>1. Sent["Busy"] = [owner |-> {"true"}]
    BY DEF Sent
  <2> QED
    BY <1>7, <2>1 DEF Kinds
<1>8. CASE ev \in W!Variant("Kicked", W!Unit)
  <2>1. Sent["Kicked"] = W!Unit
    BY DEF Sent
  <2> QED
    BY <1>8, <2>1 DEF Kinds
<1> QED
  BY <1>1, <1>2, <1>3, <1>4, <1>5, <1>6, <1>7, <1>8 DEF W!SupervisorEvents

Fields(ev) == W!BridgeEventSchema[ev.kind]

(* What is known of an event of the supervisor, in the bridge's terms.     *)
LEMMA EventFields ==
  ASSUME NEW ev \in W!SupervisorEvents
  PROVE  /\ ev.kind \in Kinds /\ ev \in W!Variant(ev.kind, Sent[ev.kind])
         /\ Row(Sent[ev.kind], Fields(ev)) /\ DOMAIN ev = DOMAIN Fields(ev) \cup {"kind"}
         /\ \A k \in DOMAIN Fields(ev) : ev[k] \in Fields(ev)[k].type /\ ev[k] # W!Null
<1>1. PICK kind \in Kinds : ev \in W!Variant(kind, Sent[kind])
  BY EventKinds
<1>2. Row(Sent[kind], W!BridgeEventSchema[kind])
  BY EventRows
<1>3. "kind" \notin DOMAIN Sent[kind]
  BY <1>2 DEF Row, Reserved
<1>4. /\ ev.kind = kind /\ DOMAIN ev = DOMAIN Sent[kind] \cup {"kind"}
      /\ \A k \in DOMAIN Sent[kind] : ev[k] \in Sent[kind][k]
  <2>1. ASSUME NEW F, "kind" \notin DOMAIN F, ev \in W!Variant(kind, F)
        PROVE  /\ ev.kind = kind /\ DOMAIN ev = DOMAIN F \cup {"kind"}
               /\ \A k \in DOMAIN F : ev[k] \in F[k]
    BY <2>1, VariantFields
  <2> QED
    BY <1>1, <1>3, <2>1, Zenon
<1>5. Fields(ev) = W!BridgeEventSchema[kind]
  BY <1>4 DEF Fields
<1>6. \A k \in DOMAIN Fields(ev) : ev[k] \in Fields(ev)[k].type /\ ev[k] # W!Null
  BY <1>2, <1>4, <1>5 DEF Row
<1>7. DOMAIN ev = DOMAIN Fields(ev) \cup {"kind"}
  BY <1>2, <1>4, <1>5 DEF Row
<1> QED
  BY <1>1, <1>2, <1>4, <1>5, <1>6, <1>7

\* A line that some supervisor may write for ev: optional fields may be
\* missing, any key that is no field may be there, and the name may be one
\* that the bridge has never heard of.
Line(ev, obj) ==
  /\ "event" \in DOMAIN obj /\ obj["event"] \in {W!Snake[ev.kind], "core_paused"}
  /\ \A k \in DOMAIN Fields(ev) : IF k \in DOMAIN obj THEN obj[k] = W!ToJson(ev[k])
                                  ELSE Fields(ev)[k].default # W!Missing

(* The bridge understands every such line.                                 *)
LEMMA LineUnderstood ==
  ASSUME NEW ev \in W!SupervisorEvents, NEW obj, Line(ev, obj)
  PROVE  W!Understood(ev, obj)
<1> DEFINE got == W!decode_event(obj)
<1>1. CASE obj["event"] # W!Snake[ev.kind]
  <2>1. obj["event"] = "core_paused" /\ "event" \in DOMAIN obj
    BY <1>1 DEF Line
  <2>2. {k \in DOMAIN W!BridgeEventSchema : W!Snake[k] = obj["event"]} = {}
    BY <2>1, SnakeDistinct
  <2>3. got = W!Unknown
    BY <2>1, <2>2 DEF W!decode_event, W!Decode
  <2> QED
    BY <1>1, <2>3 DEF W!Understood
<1>2. CASE obj["event"] = W!Snake[ev.kind]
  <2>1. \A k \in DOMAIN Fields(ev) :
          /\ Value(Fields(ev), obj, k) \in Fields(ev)[k].type
          /\ k \in DOMAIN obj => Value(Fields(ev), obj, k) = ev[k]
    <3> SUFFICES ASSUME NEW k \in DOMAIN Fields(ev)
                 PROVE  /\ Value(Fields(ev), obj, k) \in Fields(ev)[k].type
                        /\ k \in DOMAIN obj => Value(Fields(ev), obj, k) = ev[k]
      OBVIOUS
    <3>1. CASE k \in DOMAIN obj
      <4>1. obj[k] = W!ToJson(ev[k])
        BY <3>1 DEF Line
      <4>2. W!OfJson(obj[k]) = ev[k]
        BY <4>1, EventFields DEF W!OfJson, W!ToJson
      <4> QED
        BY <3>1, <4>2, EventFields DEF Value
    <3>2. CASE k \notin DOMAIN obj
      <4>1. Fields(ev)[k].default # W!Missing
        BY <3>2 DEF Line
      <4>2. Sound(Fields(ev)[k])
        BY EventFields DEF Row
      <4> QED
        BY <3>2, <4>1, <4>2 DEF Sound, Value
    <3> QED
      BY <3>1, <3>2
  <2>2. ev.kind \in DOMAIN W!BridgeEventSchema /\ Names(W!BridgeEventSchema, ev.kind)
    BY EventFields, SnakeDistinct DEF Names
  <2>3. got = Decoded(ev.kind, Fields(ev), obj)
    BY <1>2, <2>1, <2>2, DecodeReads DEF Fields, Line, W!decode_event
  <2>4. got.kind = ev.kind /\ \A k \in DOMAIN Fields(ev) \cap DOMAIN obj : got[k] = ev[k]
    <3>1. "kind" \notin DOMAIN Fields(ev)
      BY EventFields DEF Row, Reserved
    <3> QED
      BY <2>1, <2>3, <3>1 DEF Decoded
  <2>5. \A k \in DOMAIN ev \cap DOMAIN obj : got[k] = ev[k]
    BY <2>4, EventFields
  <2> HIDE DEF got
  <2> QED
    BY <1>2, <2>4, <2>5 DEF W!Understood, got
<1> QED
  BY <1>1, <1>2

(* The bridge decodes what the supervisor encodes.                         *)
LEMMA EventRoundTrip ==
  ASSUME NEW ev \in W!SupervisorEvents
  PROVE  W!decode_event(W!encode_event(ev)) = ev
<1>1. ev.kind \in DOMAIN W!BridgeEventSchema /\ Names(W!BridgeEventSchema, ev.kind)
  BY EventFields, SnakeDistinct DEF Names
<1>2. Row(Sent[ev.kind], W!BridgeEventSchema[ev.kind]) /\ ev \in W!Variant(ev.kind, Sent[ev.kind])
  BY EventFields DEF Fields
<1>3. "event" \in Reserved \ {"kind"}
  BY DEF Reserved
<1> QED
  BY <1>1, <1>2, <1>3, RoundTrip DEF W!decode_event, W!encode_event
-----------------------------------------------------------------------------
(* The second encoding and BridgeModels.swift.                             *)

(* Swift reads an object whose fields have the types it expects.           *)
LEMMA SwiftReads ==
  ASSUME NEW v, NEW ty \in DOMAIN W!SwiftSchema, NEW S, S = W!SwiftSchema[ty],
         W!Snake[v.kind] = ty, DOMAIN S \subseteq DOMAIN v, Reserved \cap DOMAIN S = {},
         \A k \in DOMAIN S : v[k] \in S[k].type /\ v[k] # W!Null
  PROVE  W!BridgeEvent(W!event_to_json(v))
           = [k \in DOMAIN S \cup {"kind"} |-> IF k = "kind" THEN ty ELSE v[k]]
<1> DEFINE obj == W!event_to_json(v)
<1>1. "type" \in DOMAIN obj /\ obj["type"] = ty
  BY DEF W!event_to_json, W!Encode
<1>2. ASSUME NEW k \in DOMAIN S PROVE k \in DOMAIN obj /\ W!OfJson(obj[k]) = v[k]
  <2>1. k \in DOMAIN v \ {"kind"} /\ k # "type"
    BY DEF Reserved
  <2>2. k \in DOMAIN obj /\ obj[k] = W!ToJson(v[k])
    BY <2>1 DEF W!event_to_json, W!Encode
  <2> QED
    BY <2>2 DEF W!OfJson, W!ToJson
<1> HIDE DEF obj
<1> DEFINE raw(k) == IF k \in DOMAIN obj THEN W!OfJson(obj[k]) ELSE S[k].default
           value(k) == IF raw(k) \in S[k].type THEN raw(k) ELSE S[k].default
<1>3. \A k \in DOMAIN S : raw(k) \in S[k].type /\ value(k) = v[k]
  BY <1>2
<1>4. ~\E k \in DOMAIN S : ~S[k].lenient /\ raw(k) \notin S[k].type
  BY <1>3
<1>5. W!BridgeEvent(obj)
        = [k \in DOMAIN S \cup {"kind"} |-> IF k = "kind" THEN obj["type"] ELSE value(k)]
  BY <1>1, <1>4 DEF W!BridgeEvent
<1> QED
  BY <1>1, <1>3, <1>5 DEF obj

\* Swift's fields S take what is sent with the fields F.
SwiftRow(F, S) ==
  /\ DOMAIN S \subseteq DOMAIN F /\ Reserved \cap DOMAIN S = {}
  /\ \A k \in DOMAIN S : F[k] \subseteq S[k].type

\* The name of an event in the app.
AppName(kind) == IF kind = "Hello" THEN "connected" ELSE W!Snake[kind]

(* Swift has a field for everything that the app is told.                  *)
LEMMA SwiftRows ==
  \A kind \in W!Surfaced :
    /\ AppName(kind) \in DOMAIN W!SwiftSchema
    /\ SwiftRow(Sent[kind], W!SwiftSchema[AppName(kind)])
<1> DEFINE Takes(kind, ty) ==
      /\ ty \in DOMAIN W!SwiftSchema
      /\ \A F, S : F = Sent[kind] /\ S = W!SwiftSchema[ty] => SwiftRow(F, S)
<1>1. Takes("Hello", "connected")
  <2> SUFFICES ASSUME NEW F, NEW S, F = Sent["Hello"], S = W!SwiftSchema["connected"]
               PROVE  SwiftRow(F, S)
    BY DEF W!SwiftSchema
  <2>1. F = [proto |-> {"1"}, version |-> W!Str, core |-> W!CoreState, rpc_port |-> W!Opt(W!U16)]
    BY DEF Sent
  <2>2. S = [version |-> W!Lenient(W!Str, W!Empty), core |-> W!Lenient(W!CoreState, W!Empty),
         rpc_port |-> W!IfPresent(W!U16)]
    BY DEF W!SwiftSchema
  <2>3. /\ DOMAIN F = {"proto", "version", "core", "rpc_port"}
        /\ DOMAIN S = {"version", "core", "rpc_port"}
    BY <2>1, <2>2 DEF W!Unit
  <2>4. ASSUME NEW k \in {"version", "core", "rpc_port"} PROVE F[k] \subseteq S[k].type
    BY <2>1, <2>2
       DEF W!Lenient, W!IfPresent, W!Opt, W!U16, W!U32, W!I32, W!PosI32, W!CoreState, W!Str,
           W!Bool, W!Unit
  <2> QED
    BY <2>3, <2>4 DEF SwiftRow, Reserved
<1>2. Takes("CoreStarted", "core_started")
  <2> SUFFICES ASSUME NEW F, NEW S, F = Sent["CoreStarted"], S = W!SwiftSchema["core_started"]
               PROVE  SwiftRow(F, S)
    BY DEF W!SwiftSchema
  <2>1. F = [pid |-> W!PosI32, rpc_port |-> W!U16]
    BY DEF Sent
  <2>2. S = [pid |-> W!Lenient(W!U32, "0"), rpc_port |-> W!Lenient(W!U16, "0")]
    BY DEF W!SwiftSchema
  <2>3. DOMAIN F = {"pid", "rpc_port"} /\ DOMAIN S = {"pid", "rpc_port"}
    BY <2>1, <2>2 DEF W!Unit
  <2>4. ASSUME NEW k \in {"pid", "rpc_port"} PROVE F[k] \subseteq S[k].type
    BY <2>1, <2>2
       DEF W!Lenient, W!IfPresent, W!Opt, W!U16, W!U32, W!I32, W!PosI32, W!CoreState, W!Str,
           W!Bool, W!Unit
  <2> QED
    BY <2>3, <2>4 DEF SwiftRow, Reserved
<1>3. Takes("CoreStopped", "core_stopped")
  <2> SUFFICES ASSUME NEW F, NEW S, F = Sent["CoreStopped"], S = W!SwiftSchema["core_stopped"]
               PROVE  SwiftRow(F, S)
    BY DEF W!SwiftSchema
  <2>1. F = [reason |-> W!Str]
    BY DEF Sent
  <2>2. S = [reason |-> W!Lenient(W!Str, W!Empty)]
    BY DEF W!SwiftSchema
  <2>3. DOMAIN F = {"reason"} /\ DOMAIN S = {"reason"}
    BY <2>1, <2>2 DEF W!Unit
  <2>4. ASSUME NEW k \in {"reason"} PROVE F[k] \subseteq S[k].type
    BY <2>1, <2>2
       DEF W!Lenient, W!IfPresent, W!Opt, W!U16, W!U32, W!I32, W!PosI32, W!CoreState, W!Str,
           W!Bool, W!Unit
  <2> QED
    BY <2>3, <2>4 DEF SwiftRow, Reserved
<1>4. Takes("CoreExited", "core_exited")
  <2> SUFFICES ASSUME NEW F, NEW S, F = Sent["CoreExited"], S = W!SwiftSchema["core_exited"]
               PROVE  SwiftRow(F, S)
    BY DEF W!SwiftSchema
  <2>1. F = [code |-> W!Opt(W!I32), signal |-> W!Opt(W!PosI32)]
    BY DEF Sent
  <2>2. S = [code |-> W!IfPresent(W!I32), signal |-> W!IfPresent(W!I32)]
    BY DEF W!SwiftSchema
  <2>3. DOMAIN F = {"code", "signal"} /\ DOMAIN S = {"code", "signal"}
    BY <2>1, <2>2 DEF W!Unit
  <2>4. ASSUME NEW k \in {"code", "signal"} PROVE F[k] \subseteq S[k].type
    BY <2>1, <2>2
       DEF W!Lenient, W!IfPresent, W!Opt, W!U16, W!U32, W!I32, W!PosI32, W!CoreState, W!Str,
           W!Bool, W!Unit
  <2> QED
    BY <2>3, <2>4 DEF SwiftRow, Reserved
<1>5. Takes("Error", "error")
  <2> SUFFICES ASSUME NEW F, NEW S, F = Sent["Error"], S = W!SwiftSchema["error"]
               PROVE  SwiftRow(F, S)
    BY DEF W!SwiftSchema
  <2>1. F = [code |-> W!Str, msg |-> W!Str]
    BY DEF Sent
  <2>2. S = [code |-> W!Lenient(W!Str, W!Empty), msg |-> W!Lenient(W!Str, W!Empty)]
    BY DEF W!SwiftSchema
  <2>3. DOMAIN F = {"code", "msg"} /\ DOMAIN S = {"code", "msg"}
    BY <2>1, <2>2 DEF W!Unit
  <2>4. ASSUME NEW k \in {"code", "msg"} PROVE F[k] \subseteq S[k].type
    BY <2>1, <2>2
       DEF W!Lenient, W!IfPresent, W!Opt, W!U16, W!U32, W!I32, W!PosI32, W!CoreState, W!Str,
           W!Bool, W!Unit
  <2> QED
    BY <2>3, <2>4 DEF SwiftRow, Reserved
<1>6. Takes("Busy", "busy")
  <2> SUFFICES ASSUME NEW F, NEW S, F = Sent["Busy"], S = W!SwiftSchema["busy"]
               PROVE  SwiftRow(F, S)
    BY DEF W!SwiftSchema
  <2>1. F = [owner |-> {"true"}]
    BY DEF Sent
  <2>2. S = [owner |-> W!Lenient(W!Bool, "true")]
    BY DEF W!SwiftSchema
  <2>3. DOMAIN F = {"owner"} /\ DOMAIN S = {"owner"}
    BY <2>1, <2>2 DEF W!Unit
  <2>4. ASSUME NEW k \in {"owner"} PROVE F[k] \subseteq S[k].type
    BY <2>1, <2>2
       DEF W!Lenient, W!IfPresent, W!Opt, W!U16, W!U32, W!I32, W!PosI32, W!CoreState, W!Str,
           W!Bool, W!Unit
  <2> QED
    BY <2>3, <2>4 DEF SwiftRow, Reserved
<1>7. Takes("Kicked", "kicked")
  <2> SUFFICES ASSUME NEW F, NEW S, F = Sent["Kicked"], S = W!SwiftSchema["kicked"]
               PROVE  SwiftRow(F, S)
    BY DEF W!SwiftSchema
  <2>1. F = W!Unit
    BY DEF Sent
  <2>2. S = W!Unit
    BY DEF W!SwiftSchema
  <2>3. DOMAIN F = {} /\ DOMAIN S = {}
    BY <2>1, <2>2 DEF W!Unit
  <2>4. ASSUME NEW k \in {} PROVE F[k] \subseteq S[k].type
    BY <2>1, <2>2
       DEF W!Lenient, W!IfPresent, W!Opt, W!U16, W!U32, W!I32, W!PosI32, W!CoreState, W!Str,
           W!Bool, W!Unit
  <2> QED
    BY <2>3, <2>4 DEF SwiftRow, Reserved
<1>8. \A kind \in W!Surfaced : Takes(kind, AppName(kind))
  <2>1. /\ AppName("Hello") = "connected" /\ AppName("CoreStarted") = "core_started"
        /\ AppName("CoreStopped") = "core_stopped" /\ AppName("CoreExited") = "core_exited"
        /\ AppName("Error") = "error" /\ AppName("Busy") = "busy"
        /\ AppName("Kicked") = "kicked"
    BY DEF AppName, W!Snake
  <2> HIDE DEF Takes
  <2> QED
    BY <1>1, <1>2, <1>3, <1>4, <1>5, <1>6, <1>7, <2>1 DEF W!Surfaced
<1> QED
  BY <1>8

(* What the supervisor says reaches the app as it was said.                *)
LEMMA EventSeen ==
  ASSUME NEW ev \in W!SupervisorEvents, ev.kind \in W!Surfaced
  PROVE  W!SeenByApp(ev)
<1> DEFINE ty == AppName(ev.kind)
           S == W!SwiftSchema[ty]
           v == W!SupervisorEvent(ev)
<1>1. W!SupervisorEvent(W!decode_event(W!encode_event(ev))) = v
  BY EventRoundTrip
<1>2. ty \in DOMAIN W!SwiftSchema /\ SwiftRow(Sent[ev.kind], S)
  BY SwiftRows
<1>3. /\ "kind" \notin DOMAIN Sent[ev.kind] /\ DOMAIN ev = DOMAIN Sent[ev.kind] \cup {"kind"}
      /\ \A k \in DOMAIN Sent[ev.kind] : ev[k] \in Sent[ev.kind][k] /\ ev[k] # W!Null
  <2>1. "kind" \notin DOMAIN Sent[ev.kind] /\ DOMAIN Sent[ev.kind] = DOMAIN Fields(ev)
    BY EventFields DEF Row, Reserved
  <2> QED
    BY <2>1, EventFields, VariantFields
<1>4. /\ W!Snake[v.kind] = ty /\ DOMAIN S \subseteq DOMAIN v
      /\ \A k \in DOMAIN S : v[k] = ev[k]
  <2>1. CASE ev.kind = "Hello"
    <3>1. v = [kind |-> "Connected", version |-> ev.version, core |-> ev.core,
               rpc_port |-> ev.rpc_port]
      BY <2>1 DEF W!SupervisorEvent
    <3>2. DOMAIN S = {"version", "core", "rpc_port"}
      BY <2>1 DEF AppName, W!SwiftSchema
    <3>3. W!Snake[v.kind] = ty
      BY <2>1, <3>1 DEF AppName, W!Snake
    <3>4. v["version"] = ev["version"] /\ v["core"] = ev["core"] /\ v["rpc_port"] = ev["rpc_port"]
      BY <3>1
    <3>5. \A k \in {"version", "core", "rpc_port"} : v[k] = ev[k] /\ k \in DOMAIN v
      BY <3>1
    <3> HIDE DEF v, S, ty
    <3> QED
      BY <3>2, <3>3, <3>5
  <2>2. CASE ev.kind # "Hello"
    <3>1. v = ev /\ W!Snake[v.kind] = ty
      BY <2>2 DEF W!SupervisorEvent, AppName
    <3> QED
      BY <1>2, <1>3, <3>1 DEF SwiftRow
  <2> QED
    BY <2>1, <2>2
<1>5. Reserved \cap DOMAIN S = {} /\ \A k \in DOMAIN S : v[k] \in S[k].type /\ v[k] # W!Null
  BY <1>2, <1>3, <1>4 DEF SwiftRow
<1> HIDE DEF ty, S, v
<1>6. W!BridgeEvent(W!event_to_json(v))
        = [k \in DOMAIN S \cup {"kind"} |-> IF k = "kind" THEN ty ELSE v[k]]
  BY <1>2, <1>4, <1>5, SwiftReads DEF S
<1> DEFINE seen == W!BridgeEvent(W!event_to_json(v))
<1>7. seen.kind = ty /\ \A k \in DOMAIN seen \ {"kind"} : seen[k] = ev[k]
  BY <1>4, <1>6
<1> HIDE DEF seen
<1> QED
  BY <1>1, <1>7 DEF W!SeenByApp, seen, ty, AppName
-----------------------------------------------------------------------------
(* Commands.                                                               *)

(* The supervisor decodes a command to what the bridge encoded.            *)
LEMMA CmdObeyed ==
  ASSUME NEW cmd \in W!BridgeCmds
  PROVE  W!Obeyed(cmd)
<1> DEFINE schema == W!SupervisorCmdSchema
<1>1. DOMAIN schema = {"Hello", "Start", "Status", "Stop"}
  BY DEF W!SupervisorCmdSchema
<1>2. \A kind \in DOMAIN schema : Names(schema, kind)
  BY <1>1 DEF Names, W!Snake
<1>3. ASSUME NEW kind \in DOMAIN schema, NEW F, Row(F, schema[kind]),
             cmd \in W!Variant(kind, F)
      PROVE  W!Obeyed(cmd)
  BY <1>2, <1>3, RoundTrip DEF W!Obeyed, W!decode_cmd, W!encode_cmd, Reserved
<1>4. CASE cmd \in W!Variant("Hello", [proto |-> {"1"}, takeover |-> W!Bool])
  <2>1. ASSUME NEW F, NEW R, F = [proto |-> {"1"}, takeover |-> W!Bool], R = schema["Hello"]
        PROVE  Row(F, R)
    <3>1. R = [proto |-> W!Required({"1", "2"}), takeover |-> W!Field(W!Bool, "false")]
      BY <2>1 DEF W!SupervisorCmdSchema
    <3>2. DOMAIN F = {"proto", "takeover"} /\ DOMAIN R = {"proto", "takeover"}
      BY <2>1, <3>1
    <3>3. ASSUME NEW k \in {"proto", "takeover"}
          PROVE  F[k] \subseteq R[k].type /\ W!Null \notin F[k]
      BY <2>1, <3>1 DEF W!Field, W!Required, W!Bool, W!Null
    <3>4. ASSUME NEW k \in {"proto", "takeover"} PROVE Sound(R[k])
      BY <3>1, FieldSound
    <3> QED
      BY <3>2, <3>3, <3>4 DEF Row, Reserved
  <2> HIDE DEF schema
  <2> QED
    BY <1>1, <1>3, <1>4, <2>1
<1>5. ASSUME NEW kind \in {"Start", "Status", "Stop"}, cmd \in W!Variant(kind, W!Unit)
      PROVE  W!Obeyed(cmd)
  <2>1. schema[kind] = W!Unit
    BY DEF W!SupervisorCmdSchema
  <2>2. Row(W!Unit, schema[kind])
    BY <2>1 DEF Row, W!Unit
  <2> HIDE DEF schema
  <2> QED
    BY <1>1, <1>3, <1>5, <2>2
<1> QED
  BY <1>4, <1>5 DEF W!BridgeCmds
-----------------------------------------------------------------------------
(* Files.                                                                  *)

\* The identities a supervisor can have: launchd's, for some owner, as root,
\* or that of the user who started it by hand.
Identity(auth, euid) == (auth = T!Launchd(auth.uid) /\ euid = 0) \/ auth = T!Dev(euid)

(* Whatever a file is called, owned by and permitted to, and whoever the   *)
(* users and groups are, a hook that is run is writable by nobody but the  *)
(* supervisor's own user, and root takes its configuration from root.      *)
LEMMA OwnFiles ==
  ASSUME NEW f, NEW auth, NEW euid, NEW users, NEW groupOf, Identity(auth, euid)
  PROVE  /\ T!HookIsOurs(f, auth, euid, users, groupOf)
         /\ T!ConfigIsRoots(f, auth, euid, users, groupOf)
<1>1. T!HookIsOurs(f, auth, euid, users, groupOf)
  BY DEF Identity, T!HookIsOurs, T!Launchd, T!Dev, T!check_hook_security, T!Writers
<1>2. T!ConfigIsRoots(f, auth, euid, users, groupOf)
  BY DEF T!ConfigIsRoots, T!LoadsConfig, T!check_secure_ownership, T!Writers
<1> QED
  BY <1>1, <1>2
-----------------------------------------------------------------------------
(* The inputs, however long they grow.                                     *)

\* The processes of a list: one of the programs, with any number of arguments.
Arguments == P!Programs \cup {<<"--daemon">>}
Argvs == {v \in Seq(Arguments) : v # <<>> /\ v[1] \in P!Programs}
Listed == [pid : {"11", "12"}, argv : Argvs]

\* What an input of each sort is made of.
EventInput(x) ==
  /\ x.of = "event" /\ x = [of |-> "event", ev |-> x.ev, line |-> x.line]
  /\ x.ev \in W!SupervisorEvents /\ Line(x.ev, x.line)
CmdInput(x) == x.of = "cmd" /\ x = [of |-> "cmd", cmd |-> x.cmd] /\ x.cmd \in W!BridgeCmds
PsInput(x) ==
  /\ x.of = "ps" /\ x = [of |-> "ps", procs |-> x.procs, exclude_pid |-> x.exclude_pid]
  /\ x.procs \subseteq Listed
PathInput(x) ==
  /\ x.of = "path" /\ x = [of |-> "path", path |-> x.path, there |-> x.there]
  /\ x.path \in Seq(Q!Special \cup {"x"})
FileInput(x) ==
  /\ x.of = "file" /\ x = [of |-> "file", auth |-> x.auth, euid |-> x.euid, file |-> x.file]
  /\ Identity(x.auth, x.euid)

\* The inductive invariant: every line is one that some supervisor may write,
\* every process still runs one of the programs, a path consists of characters
\* and no file changes who the supervisor is.
Inputs == EventInput(input) \/ CmdInput(input) \/ PsInput(input) \/ PathInput(input)
            \/ FileInput(input)

(* What the supervisor of this version writes is such a line.              *)
LEMMA OwnLine ==
  ASSUME NEW ev \in W!SupervisorEvents
  PROVE  Line(ev, W!encode_event(ev))
<1> DEFINE obj == W!encode_event(ev)
<1>1. "event" \in DOMAIN obj /\ obj["event"] = W!Snake[ev.kind]
  BY DEF W!encode_event, W!Encode
<1>2. ASSUME NEW k \in DOMAIN Fields(ev) PROVE k \in DOMAIN obj /\ obj[k] = W!ToJson(ev[k])
  <2>1. Reserved \cap DOMAIN Fields(ev) = {} /\ DOMAIN Fields(ev) \subseteq DOMAIN ev
    <3>1. Row(Sent[ev.kind], Fields(ev)) /\ DOMAIN ev = DOMAIN Fields(ev) \cup {"kind"}
      BY EventFields
    <3> QED
      BY <3>1 DEF Row
  <2>2. k \in DOMAIN ev \ {"kind"} /\ k # "event"
    BY <2>1 DEF Reserved
  <2> QED
    BY <2>2 DEF W!encode_event, W!Encode
<1> HIDE DEF obj
<1> QED
  BY <1>1, <1>2 DEF Line, obj

(* A line without one of its optional fields is still one.                 *)
LEMMA OlderLine ==
  ASSUME NEW ev \in W!SupervisorEvents, NEW obj, Line(ev, obj),
         NEW k \in W!Optional(ev) \cap DOMAIN obj
  PROVE  Line(ev, [j \in DOMAIN obj \ {k} |-> obj[j]])
<1>1. k \in DOMAIN Fields(ev) /\ Fields(ev)[k].default # W!Missing
  BY DEF W!Optional, Fields
<1>2. k # "event"
  BY <1>1, EventFields DEF Row, Reserved
<1> QED
  BY <1>1, <1>2 DEF Line

(* So is one with a further key.                                           *)
LEMMA LongerLine ==
  ASSUME NEW ev \in W!SupervisorEvents, NEW obj, Line(ev, obj)
  PROVE  Line(ev, [j \in DOMAIN obj \cup {"extra"} |-> IF j = "extra" THEN "text" ELSE obj[j]])
<1>1. "extra" \notin DOMAIN Fields(ev)
  BY EventFields DEF Row, Reserved
<1> QED
  BY <1>1 DEF Line

(* So is one of a kind that the bridge does not know.                      *)
LEMMA NewerLine ==
  ASSUME NEW ev \in W!SupervisorEvents, NEW obj, Line(ev, obj)
  PROVE  Line(ev, [obj EXCEPT !["event"] = "core_paused"])
<1>1. "event" \notin DOMAIN Fields(ev)
  BY EventFields DEF Row, Reserved
<1> QED
  BY <1>1 DEF Line

(* A process with one more argument is still one of the list.              *)
LEMMA LongerArgs ==
  ASSUME NEW p \in Listed, NEW arg \in Arguments
  PROVE  [p EXCEPT !.argv = Append(@, arg)] \in Listed
<1> DEFINE v == p.argv
           w == Append(v, arg)
<1>1. v \in Seq(Arguments) /\ v # <<>> /\ v[1] \in P!Programs
  BY DEF Listed, Argvs
<1>2. w \in Seq(Arguments) /\ w # <<>> /\ w[1] = v[1]
  BY <1>1
<1>3. w \in Argvs
  BY <1>1, <1>2 DEF Argvs
<1> HIDE DEF w
<1>4. [p EXCEPT !.argv = w] \in Listed
  BY <1>3 DEF Listed
<1> QED
  BY <1>4 DEF w

(* The inputs keep their make.                                             *)
THEOREM InputsInvariance == Spec => []Inputs
<1>1. Init => Inputs
  <2> SUFFICES ASSUME Init PROVE Inputs
    OBVIOUS
  <2>1. ASSUME NEW ev \in W!SupervisorEvents,
               input = [of |-> "event", ev |-> ev, line |-> W!encode_event(ev)]
        PROVE  EventInput(input)
    <3>1. Line(ev, W!encode_event(ev))
      BY OwnLine
    <3> QED
      BY <2>1, <3>1 DEF EventInput
  <2>2. ASSUME NEW cmd \in W!BridgeCmds, input = [of |-> "cmd", cmd |-> cmd]
        PROVE  CmdInput(input)
    BY <2>2 DEF CmdInput
  <2>3. ASSUME NEW prog \in P!Programs, NEW other \in P!Programs,
               input = [of |-> "ps", procs |-> {[pid |-> "11", argv |-> <<prog>>],
                                                [pid |-> "12", argv |-> <<other>>]},
                        exclude_pid |-> "none"]
        PROVE  PsInput(input)
    <3>1. \A p \in P!Programs : <<p>> \in Argvs
      BY DEF Argvs, Arguments
    <3>2. /\ [pid |-> "11", argv |-> <<prog>>] \in Listed
          /\ [pid |-> "12", argv |-> <<other>>] \in Listed
      BY <3>1 DEF Listed
    <3> QED
      BY <2>3, <3>2 DEF PsInput
  <2>4. ASSUME NEW there, input = [of |-> "path", path |-> <<"x">>, there |-> there]
        PROVE  PathInput(input)
    <3>1. <<"x">> \in Seq(Q!Special \cup {"x"})
      OBVIOUS
    <3> QED
      BY <2>4, <3>1 DEF PathInput
  <2>5. ASSUME NEW u \in Users \ {0},
               input \in {NewFile(T!Launchd(u), 0), NewFile(T!Dev(u), u), NewFile(T!Dev(0), 0)}
        PROVE  FileInput(input)
    <3>1. PICK auth, euid : Identity(auth, euid) /\ input = NewFile(auth, euid)
      BY <2>5 DEF Identity, T!Launchd, T!Dev
    <3> QED
      BY <3>1 DEF FileInput, NewFile
  <2> QED
    BY <2>1, <2>2, <2>3, <2>4, <2>5 DEF Init, Inputs
<1>2. Inputs /\ [Next]_vars => Inputs'
  <2> SUFFICES ASSUME Inputs, [Next]_vars PROVE Inputs'
    OBVIOUS
  <2>1. CASE OlderSupervisor
    <3>1. EventInput(input) /\ input.ev \in W!SupervisorEvents /\ Line(input.ev, input.line)
      BY <2>1 DEF OlderSupervisor, Inputs, EventInput, CmdInput, PsInput, PathInput, FileInput
    <3>2. PICK k \in W!Optional(input.ev) \cap DOMAIN input.line :
            input' = [input EXCEPT !.line = [j \in DOMAIN input.line \ {k} |-> input.line[j]]]
      BY <2>1 DEF OlderSupervisor
    <3> DEFINE obj == [j \in DOMAIN input.line \ {k} |-> input.line[j]]
    <3>3. Line(input.ev, obj)
      BY <3>1, OlderLine
    <3> HIDE DEF obj
    <3>4. input' = [of |-> "event", ev |-> input.ev, line |-> obj]
      BY <3>1, <3>2 DEF EventInput, obj
    <3> QED
      BY <3>1, <3>3, <3>4 DEF Inputs, EventInput
  <2>2. CASE NewerSupervisor
    <3>1. EventInput(input) /\ input.ev \in W!SupervisorEvents /\ Line(input.ev, input.line)
      BY <2>2 DEF NewerSupervisor, Inputs, EventInput, CmdInput, PsInput, PathInput, FileInput
    <3>2. ASSUME NEW obj, Line(input.ev, obj), input' = [input EXCEPT !.line = obj]
          PROVE  Inputs'
      <4>1. input' = [of |-> "event", ev |-> input.ev, line |-> obj]
        BY <3>1, <3>2 DEF EventInput
      <4> QED
        BY <3>1, <3>2, <4>1 DEF Inputs, EventInput
    <3>3. CASE input' = [input EXCEPT !.line =
                           [j \in DOMAIN input.line \cup {"extra"} |->
                              IF j = "extra" THEN "text" ELSE input.line[j]]]
      BY <3>1, <3>2, <3>3, LongerLine
    <3>4. CASE input' = [input EXCEPT !.line["event"] = "core_paused"]
      <4>1. input' = [input EXCEPT !.line = [input.line EXCEPT !["event"] = "core_paused"]]
        BY <3>4
      <4> QED
        BY <3>1, <3>2, <4>1, NewerLine
    <3> QED
      BY <2>2, <3>3, <3>4 DEF NewerSupervisor
  <2>3. CASE LongerArgv \/ OwnCore
    <3>1. PsInput(input)
      BY <2>3 DEF LongerArgv, OwnCore, Inputs, EventInput, CmdInput, PsInput, PathInput,
                  FileInput
    <3>2. CASE LongerArgv
      <4>1. PICK p \in input.procs, arg \in {<<"--daemon">>, P!Managed, P!Own, P!Vpn} :
              input' = [input EXCEPT !.procs =
                          (@ \ {p}) \cup {[p EXCEPT !.argv = Append(@, arg)]}]
        BY <3>2 DEF LongerArgv
      <4>2. p \in Listed /\ arg \in Arguments
        BY <3>1 DEF PsInput, Arguments, P!Programs
      <4> DEFINE q == [p EXCEPT !.argv = Append(@, arg)]
                 procs == (input.procs \ {p}) \cup {q}
      <4>3. q \in Listed
        BY <4>2, LongerArgs
      <4>4. input' = [input EXCEPT !.procs = procs]
        BY <4>1
      <4>5. procs \subseteq Listed
        BY <3>1, <4>3 DEF PsInput
      <4> HIDE DEF procs
      <4>6. input' = [of |-> "ps", procs |-> procs, exclude_pid |-> input.exclude_pid]
        BY <3>1, <4>4 DEF PsInput
      <4> QED
        BY <4>5, <4>6 DEF PsInput, Inputs
    <3>3. CASE OwnCore
      <4>1. \E pid : input' = [input EXCEPT !.exclude_pid = pid]
        BY <3>3 DEF OwnCore
      <4> QED
        BY <3>1, <4>1 DEF PsInput, Inputs
    <3> QED
      BY <2>3, <3>2, <3>3
  <2>4. CASE LongerPath
    <3>1. PathInput(input)
      BY <2>4 DEF LongerPath, Inputs, EventInput, CmdInput, PsInput, PathInput, FileInput
    <3>2. PICK c \in Q!Special \cup {"x"} : input' = [input EXCEPT !.path = Append(@, c)]
      BY <2>4 DEF LongerPath
    <3> DEFINE path == Append(input.path, c)
    <3>3. path \in Seq(Q!Special \cup {"x"})
      BY <3>1 DEF PathInput
    <3> HIDE DEF path
    <3>4. input' = [of |-> "path", path |-> path, there |-> input.there]
      BY <3>1, <3>2 DEF PathInput, path
    <3> QED
      BY <3>3, <3>4 DEF PathInput, Inputs
  <2>5. CASE FileChanges
    <3>1. FileInput(input)
      BY <2>5 DEF FileChanges, Inputs, EventInput, CmdInput, PsInput, PathInput, FileInput
    <3>2. \E file : input' = [input EXCEPT !.file = file]
      BY <2>5 DEF FileChanges
    <3> QED
      BY <3>1, <3>2 DEF FileInput, Inputs
  <2>6. CASE UNCHANGED vars
    <3>1. input' = input
      BY <2>6 DEF vars
    <3> QED
      BY <3>1 DEF Inputs
  <2> QED
    BY <2>1, <2>2, <2>3, <2>4, <2>5, <2>6 DEF Next
<1> QED
  BY <1>1, <1>2, PTL DEF Spec

(* The bridge reads every line of this, of an older and of a newer         *)
(* supervisor (the two proto.rs mirrors, decode_event), whatever further   *)
(* keys the line has.                                                      *)
THEOREM LinesUnderstood == Spec => []EventsUnderstood
<1>1. Inputs => EventsUnderstood
  BY LineUnderstood
     DEF Inputs, EventsUnderstood, EventInput, CmdInput, PsInput, PathInput, FileInput
<1> QED
  BY <1>1, InputsInvariance, PTL

(* What the supervisor says of its core reaches the app as it was said,    *)
(* through decode_event, event_to_json and BridgeEvent(jsonString:).       *)
THEOREM SaidIsSeen == Spec => []EventsReachApp
<1>1. Inputs => EventsReachApp
  BY EventSeen
     DEF Inputs, EventsReachApp, EventInput, CmdInput, PsInput, PathInput, FileInput
<1> QED
  BY <1>1, InputsInvariance, PTL

(* The supervisor obeys a command as the bridge sent it (encode_cmd,       *)
(* decode_cmd); a hello neither becomes a takeover nor loses one.          *)
THEOREM CommandsObeyed == Spec => []CmdsObeyed
<1>1. Inputs => CmdsObeyed
  BY CmdObeyed
     DEF Inputs, CmdsObeyed, EventInput, CmdInput, PsInput, PathInput, FileInput
<1> QED
  BY <1>1, InputsInvariance, PTL

(* A hook that is run, and a configuration that root takes, is in nobody   *)
(* else's hand (check_hook_security, check_secure_ownership).              *)
THEOREM FilesAreOurs == Spec => []ObeysOwnFiles
<1>1. Inputs => ObeysOwnFiles
  BY OwnFiles
     DEF Inputs, ObeysOwnFiles, EventInput, CmdInput, PsInput, PathInput, FileInput
<1> QED
  BY <1>1, InputsInvariance, PTL
=============================================================================
