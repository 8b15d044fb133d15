-------------------------------- MODULE Wire --------------------------------
(***************************************************************************)
(* The envelopes the four endpoints exchange, written and read by the code *)
(* of both SDKs, over the frames of Framing (client.ts, server.ts,         *)
(* envelope-codec.ts, client.cpp, dispatcher.cpp, envelope_codec.cpp).     *)
(*                                                                         *)
(* A message is what a program wants to say: a request or a response with  *)
(* a typed body, an error, or an empty frame.  A body is an object of the  *)
(* user with the class it is meant for; in TypeScript it may reach encode  *)
(* as it is, or through create() or fromObject().                          *)
(***************************************************************************)
EXTENDS Framing, Proto

Body(type, via, object) == [type |-> type, via |-> via, object |-> object]
Request(id, service, method, body, metadata) ==
  [kind |-> "request", id |-> id, service |-> service, method |-> method,
   body |-> body, metadata |-> metadata]
Response(id, body) == [kind |-> "response", id |-> id, body |-> body]
Error(id, status, text) ==
  [kind |-> "error", id |-> id, status |-> status, text |-> text]
Keepalive == [kind |-> "keepalive"]

HasBody(m) == m.kind \in {"request", "response"}
Str(s) == <<"string", s>>

-----------------------------------------------------------------------------
(* What is meant *)

(* The reference: what the properties of an object say, as a value for     *)
(* every field of the class, whichever way the object was built.           *)
Said(kind, v) ==
  CASE kind = "enum" -> v[2]
    [] kind = "uint64" -> v[2] % Modulus
    [] kind = "int64" -> v[2]
    [] kind = "bytes" -> v[2]
    [] kind = "strings" -> [i \in DOMAIN v[2] |-> Text(v[2][i])]
    [] kind = "map" -> [k \in DOMAIN v[2] |-> Text(v[2][k])]
    [] kind = "string" -> Text(v)

Meaning(fields, message) ==
  [name \in {f.name : f \in ToSet(fields)} |->
     LET f == CHOOSE g \in ToSet(fields) : g.name = name
     IN  Said(f.kind, IF Has(message, f) THEN message[name] ELSE Zero(f.kind))]

Silence(fields) == Meaning(fields, <<>>)

(* The C++ call has no argument for metadata. *)
MetadataOf(l, m) == IF l = "cpp" THEN <<>> ELSE m.metadata

(* The meaning of an envelope, given what its payload is. *)
Meant(l, m, payload) ==
  LET none == Silence(EnvelopeFields)
  IN  CASE m.kind = "request" ->
             [none EXCEPT !.type = MessageType.REQUEST, !.requestId = m.id,
                          !.serviceName = Str(m.service),
                          !.methodName = Str(m.method), !.payload = payload,
                          !.metadata = MetadataOf(l, m)]
        [] m.kind = "response" ->
             [none EXCEPT !.type = MessageType.RESPONSE, !.requestId = m.id,
                          !.status = StatusCode.OK, !.payload = payload]
        [] m.kind = "error" ->
             [none EXCEPT !.type = MessageType.ERROR, !.requestId = m.id,
                          !.status = m.status, !.errorMessage = Str(m.text)]
        [] m.kind = "keepalive" -> none

-----------------------------------------------------------------------------
(* TypeScript *)

TsSerialize(body) ==
  LET fields == Class[body.type]
  IN  Encode(fields,
             CASE body.via = "create" -> Create(fields, body.object)
               [] body.via = "object" -> body.object
               [] body.via = "fromObject" -> FromObject(fields, body.object))

TsRequest(m) ==
  [type |-> <<"number", MessageType.REQUEST>>, requestId |-> <<"long", m.id>>,
   serviceName |-> Str(m.service), methodName |-> Str(m.method),
   payload |-> <<"bytes", TsSerialize(m.body)>>,
   metadata |-> <<"object", m.metadata>>]

TsResponse(m) ==
  [type |-> <<"number", MessageType.RESPONSE>>,
   status |-> <<"number", StatusCode.OK>>, requestId |-> <<"long", m.id>>,
   payload |-> <<"bytes", TsSerialize(m.body)>>]

TsError(m) ==
  [type |-> <<"number", MessageType.ERROR>>, status |-> <<"number", m.status>>,
   requestId |-> <<"long", m.id>>, errorMessage |-> Str(m.text)]

TsEnvelope(m) ==
  Encode(EnvelopeFields,
         Create(EnvelopeFields,
                CASE m.kind = "request"  -> TsRequest(m)
                  [] m.kind = "response" -> TsResponse(m)
                  [] m.kind = "error"    -> TsError(m)))

(* codec.recv() and respType.decode() / reqType.decode() *)
TsParse(fields, units) == Meaning(fields, Decode(fields, units))

-----------------------------------------------------------------------------
(* C++ and others *)

(* A field of a C++ message, in the representation of Proto. *)
Value(kind, x) ==
  CASE kind = "enum" -> <<"number", x>>
    [] kind \in {"uint64", "int64"} -> <<"long", x>>
    [] kind = "string"  -> x
    [] kind = "bytes"   -> <<"bytes", x>>
    [] kind = "strings" -> <<"array", x>>
    [] kind = "map"     -> <<"object", x>>

(* SerializeToString() leaves out what has its default value. *)
CppWrite(fields, meaning) ==
  LET set == {f \in ToSet(fields) : meaning[f.name] # Silence(fields)[f.name]}
  IN  Encode(fields,
             Setting(<<>>, [f \in set |-> Value(f.kind, meaning[f.name])]))

CppSerialize(body) ==
  CppWrite(Class[body.type], Meaning(Class[body.type], body.object))

CppEnvelope(l, m) ==
  CppWrite(EnvelopeFields,
           Meant(l, m, IF HasBody(m) THEN CppSerialize(m.body) ELSE <<>>))

(* ParseFromString() *)
CppParse(fields, units) == Meaning(fields, Decode(fields, units))

(* Protocol Buffers allow any order of fields, fields the reader does not  *)
(* know, and a field that comes again.                                     *)
OtherEnvelope(m) ==
  << <<15, 0>>, <<2, 0>> >> \o Reverse(CppEnvelope("other", m))

-----------------------------------------------------------------------------
(* On the wire *)

(* A payload takes as many units more as it holds. *)
Size(unit) == IF unit[1] = 5 THEN 1 + Len(unit[2]) ELSE 1

Split(units) ==
  FlattenSeq([i \in DOMAIN units |->
                [j \in 1 .. Size(units[i]) |-> <<units[i], j>>]])

Join(frame) ==
  LET starts == SelectSeq(frame, LAMBDA piece : piece[2] = 1)
  IN  [i \in DOMAIN starts |-> starts[i][1]]

WireBytes(l, m) ==
  IF m.kind = "keepalive" THEN <<>>
  ELSE Split(CASE l = "cpp"   -> CppEnvelope(l, m)
               [] l = "ts"    -> TsEnvelope(m)
               [] l = "other" -> OtherEnvelope(m))

Parse(l, fields, units) ==
  IF l = "ts" THEN TsParse(fields, units) ELSE CppParse(fields, units)

-----------------------------------------------------------------------------
(* Properties *)

Understands(m, frame) ==
  LET envelope == Parse(lang.rcv, EnvelopeFields, Join(frame))
  IN  IF HasBody(m)
      THEN LET fields == Class[m.body.type]
           IN  [envelope EXCEPT !.payload = Parse(lang.rcv, fields, @)]
                 = Meant(lang.snd, m, Meaning(fields, m.body.object))
      ELSE envelope = Meant(lang.snd, m, <<>>)

Options ==
  [enums : {"String", "none"}, longs : {"String", "Number", "none"},
   bytes : {"String", "Array", "none"}, defaults : BOOLEAN,
   containers : BOOLEAN]

(* A decoded message passes verify(), and means the same when it has been  *)
(* made an object, with any options, or JSON, and back, and sent on, and   *)
(* when it is read off a stream on which another follows it.               *)
Survives(fields, message) ==
  LET Back(object) == Encode(fields, FromObject(fields, object))
      Same(object) == TsParse(fields, Back(object)) = Meaning(fields, message)
      Stream == EncodeDelimited(fields, message) \o Encode(fields, message)
  IN  /\ Verify(fields, message)
      /\ Meaning(fields, DecodeDelimited(fields, Stream))
           = Meaning(fields, message)
      /\ Same(ToJSON(fields, message))
      /\ \A o \in Options : Same(ToObject(fields, message, o))

Keeps(m, frame) ==
  LET envelope == Decode(EnvelopeFields, Join(frame))
  IN  /\ Survives(EnvelopeFields, envelope)
      /\ HasBody(m) =>
           Survives(Class[m.body.type],
                    Decode(Class[m.body.type],
                           IF "payload" \in DOMAIN envelope
                           THEN envelope.payload[2] ELSE <<>>))

(* Whoever wrote a frame, and however the user built its body, the program *)
(* that reads it understands what was meant, absent and default fields     *)
(* included (proto.js:185-293, client.ts:127-148, server.ts:183-211), and  *)
(* a TypeScript program may convert what it read without changing it       *)
(* (proto.js:324-542).                                                     *)
Understood ==
  [][got' # got =>
       LET i == Len(got')
       IN  /\ Understands(sent[i], got'[i])
           /\ lang.rcv = "ts" => Keeps(sent[i], got'[i])]_vars
=============================================================================
