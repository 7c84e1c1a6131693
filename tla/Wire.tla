-------------------------------- MODULE Wire --------------------------------
(***************************************************************************)
(* The control protocol, JSON Lines.  supervisor/src/proto.rs and          *)
(* bridge/src/proto.rs are two independent mirrors of one contract, in     *)
(* processes that are installed apart from each other and may differ in    *)
(* version; ffi.rs encodes the events once more for BridgeModels.swift,    *)
(* which is a third.                                                       *)
(*                                                                         *)
(* A Rust value of an enum is a record with its variant in `kind`; a JSON  *)
(* object is a function from keys to values.  Scalars are strings, and a   *)
(* type is the set of its values here: an Option may also be None, which   *)
(* is null on the wire.                                                    *)
(***************************************************************************)
EXTENDS Naturals, FiniteSets

None == "None"
Null == "null"
Missing == "(no default)"
Malformed == [kind |-> "malformed"]

U16 == {"0", "65535"}
PosI32 == {"7", "65536"}
I32 == PosI32 \cup {"-1", "0"}
Empty == ""
Str == {Empty, "text"}
Bool == {"true", "false"}
CoreState == {"stopped", "running"}
Opt(T) == T \cup {None}

\* serde, rename_all = "snake_case"
Snake ==
  [Hello |-> "hello", CoreStarted |-> "core_started", Status |-> "status",
   CoreStopped |-> "core_stopped", CoreExited |-> "core_exited",
   Error |-> "error", Busy |-> "busy", Kicked |-> "kicked",
   Start |-> "start", Stop |-> "stop", Connected |-> "connected",
   Disconnected |-> "disconnected"]

ToJson(v) == IF v = None THEN Null ELSE v
OfJson(v) == IF v = Null THEN None ELSE v

\* serde, internally tagged: the variant under `tag`, beside its fields.
Encode(tag, v) ==
  [k \in (DOMAIN v \ {"kind"}) \cup {tag} |->
     IF k = tag THEN Snake[v.kind] ELSE ToJson(v[k])]

\* A field of a decoded variant: its type, and what an absent key stands for.
Field(type, default) == [type |-> type, default |-> default]
Required(type) == Field(type, Missing)

\* serde: unknown keys are ignored; an absent key takes its default, and an
\* absent Option is None.
Decode(tag, schema, other, obj) ==
  IF tag \notin DOMAIN obj THEN Malformed
  ELSE LET kinds == {k \in DOMAIN schema : Snake[k] = obj[tag]} IN
       IF kinds = {} THEN other
       ELSE LET kind == CHOOSE k \in kinds : TRUE
                fields == schema[kind]
                value(k) == IF k \in DOMAIN obj THEN OfJson(obj[k])
                            ELSE fields[k].default
            IN IF \E k \in DOMAIN fields : value(k) \notin fields[k].type
               THEN Malformed
               ELSE [k \in DOMAIN fields \cup {"kind"} |->
                       IF k = "kind" THEN kind ELSE value(k)]

Unit == [k \in {} |-> None]
-----------------------------------------------------------------------------
(* supervisor/src/proto.rs                                                 *)

Variant(kind, fields) ==
  {[k \in DOMAIN fields \cup {"kind"} |-> IF k = "kind" THEN kind ELSE f[k]] :
     f \in {f \in [DOMAIN fields -> UNION {fields[k] : k \in DOMAIN fields}] :
              \A k \in DOMAIN fields : f[k] \in fields[k]}}

\* Event: what the supervisor can send.
SupervisorEvents ==
  Variant("Hello", [proto |-> {"1"}, version |-> Str, core |-> CoreState,
                    rpc_port |-> Opt(U16)])
  \cup Variant("CoreStarted", [pid |-> PosI32, rpc_port |-> U16])
  \cup Variant("Status", [core |-> CoreState, pid |-> Opt(PosI32), rpc_port |-> Opt(U16)])
  \cup Variant("CoreStopped", [reason |-> Str])
  \cup Variant("CoreExited", [code |-> Opt(I32), signal |-> Opt(PosI32)])
  \cup Variant("Error", [code |-> Str, msg |-> Str])
  \cup Variant("Busy", [owner |-> {"true"}])
  \cup Variant("Kicked", Unit)

encode_event(ev) == Encode("event", ev)

SupervisorCmdSchema ==
  [Hello |-> [proto |-> Required({"1", "2"}), takeover |-> Field(Bool, "false")],
   Start |-> Unit, Status |-> Unit, Stop |-> Unit]

decode_cmd(obj) == Decode("cmd", SupervisorCmdSchema, Malformed, obj)
-----------------------------------------------------------------------------
(* bridge/src/proto.rs                                                     *)

BridgeCmds ==
  Variant("Hello", [proto |-> {"1"}, takeover |-> Bool])
  \cup Variant("Start", Unit) \cup Variant("Status", Unit) \cup Variant("Stop", Unit)

\* Faulty variant: the mirror knows the user's consent by another name, and
\* the supervisor ignores the key.
encode_cmd_renamed(cmd) ==
  LET obj == Encode("cmd", cmd)
      key(k) == IF k = "take_over" THEN "takeover" ELSE k
  IN [k \in {IF k = "takeover" THEN "take_over" ELSE k : k \in DOMAIN obj} |-> obj[key(k)]]

encode_cmd(cmd) == Encode("cmd", cmd)

Unknown == [kind |-> "Unknown"]

BridgeEventSchema ==
  [Hello |-> [proto |-> Required({"1", "2"}), version |-> Field(Str, Empty),
              core |-> Required(CoreState), rpc_port |-> Field(Opt(U16), None)],
   CoreStarted |-> [pid |-> Required(I32), rpc_port |-> Required(U16)],
   Status |-> [core |-> Required(CoreState), pid |-> Field(Opt(I32), None),
               rpc_port |-> Field(Opt(U16), None)],
   CoreStopped |-> [reason |-> Field(Str, Empty)],
   CoreExited |-> [code |-> Field(Opt(I32), None), signal |-> Field(Opt(I32), None)],
   Error |-> [code |-> Field(Str, Empty), msg |-> Field(Str, Empty)],
   Busy |-> [owner |-> Field(Bool, "false")],
   Kicked |-> Unit]

\* Faulty variant: no catch-all for kinds that a newer supervisor sends.
decode_event_strict(obj) == Decode("event", BridgeEventSchema, Malformed, obj)

decode_event(obj) == Decode("event", BridgeEventSchema, Unknown, obj)
-----------------------------------------------------------------------------
(* supervisor_client.rs, ffi.rs and BridgeModels.swift                     *)

\* connect_and_hello and dispatch_event: what is passed on to the app.
Surfaced == {"Hello", "CoreStarted", "CoreStopped", "CoreExited", "Error", "Busy", "Kicked"}
SupervisorEvent(ev) ==
  IF ev.kind = "Hello"
  THEN [kind |-> "Connected", version |-> ev.version, core |-> ev.core,
        rpc_port |-> ev.rpc_port]
  ELSE ev

\* Faulty variant: the event goes to the app under the tag of the socket.
event_to_json_untagged(ev) == Encode("event", ev)

event_to_json(ev) == Encode("type", ev)

\* A key read with try?: a value of another type counts as absent.
Lenient(type, default) == [type |-> type, default |-> default, lenient |-> TRUE]
\* A key read with decodeIfPresent: null and absent alike, another type throws.
IfPresent(type) == [type |-> Opt(type), default |-> None, lenient |-> FALSE]

U32 == PosI32 \cup {"0"}
SwiftSchema ==
  [connected |-> [version |-> Lenient(Str, Empty), core |-> Lenient(CoreState, Empty),
                  rpc_port |-> IfPresent(U16)],
   disconnected |-> Unit,
   core_started |-> [pid |-> Lenient(U32, "0"), rpc_port |-> Lenient(U16, "0")],
   core_stopped |-> [reason |-> Lenient(Str, Empty)],
   core_exited |-> [code |-> IfPresent(I32), signal |-> IfPresent(I32)],
   busy |-> [owner |-> Lenient(Bool, "true")],
   kicked |-> Unit,
   error |-> [code |-> Lenient(Str, Empty), msg |-> Lenient(Str, Empty)]]

\* BridgeEvent(jsonString:)
BridgeEvent(obj) ==
  IF "type" \notin DOMAIN obj THEN Malformed
  ELSE IF obj["type"] \notin DOMAIN SwiftSchema THEN [kind |-> "unknown"]
  ELSE LET fields == SwiftSchema[obj["type"]]
           raw(k) == IF k \in DOMAIN obj THEN OfJson(obj[k]) ELSE fields[k].default
           value(k) == IF raw(k) \in fields[k].type THEN raw(k) ELSE fields[k].default
       IN IF \E k \in DOMAIN fields : ~fields[k].lenient /\ raw(k) \notin fields[k].type
          THEN Malformed
          ELSE [k \in DOMAIN fields \cup {"kind"} |->
                  IF k = "kind" THEN obj["type"] ELSE value(k)]
-----------------------------------------------------------------------------
(* Statements.                                                             *)

\* Keys the bridge can do without, so an older supervisor may leave them out.
Optional(ev) == {k \in DOMAIN BridgeEventSchema[ev.kind] :
                   BridgeEventSchema[ev.kind][k].default # Missing}

\* The line obj is ev as this, an older or a newer supervisor writes it: the
\* bridge reads what is there, and nothing that it does not know disturbs it.
Understood(ev, obj) ==
  LET got == decode_event(obj) IN
  IF obj["event"] # Snake[ev.kind] THEN got = Unknown
  ELSE /\ got.kind = ev.kind
       /\ \A k \in DOMAIN ev \cap DOMAIN obj : got[k] = ev[k]

\* What the supervisor says of its core reaches the app as it was said.
SeenByApp(ev) ==
  LET sent == SupervisorEvent(decode_event(encode_event(ev)))
      seen == BridgeEvent(event_to_json(sent))
  IN /\ seen.kind = (IF ev.kind = "Hello" THEN "connected" ELSE Snake[ev.kind])
     /\ \A k \in DOMAIN seen \ {"kind"} : seen[k] = ev[k]

\* A command arrives as it was sent, the user's takeover in particular.
Obeyed(cmd) == decode_cmd(encode_cmd(cmd)) = cmd
=============================================================================
