------------------------------- MODULE Proto -------------------------------
(***************************************************************************)
(* The generated TypeScript classes (generated/proto.js).  Every class is  *)
(* the same code over another list of fields, so the operations are        *)
(* written once, over a list of fields, and the classes are the lists.     *)
(*                                                                         *)
(* A JavaScript value is a pair <<tag, contents>>:                         *)
(*   <<"null", 0>>    null            <<"number", n>>  a number            *)
(*   <<"long", n>>    a Long          <<"numeral", n>> the string of n     *)
(*   <<"string", s>>  other strings   <<"base64", b>>  the string of bytes *)
(*   <<"bytes", b>>   a Buffer        <<"array", q>>   an array            *)
(*   <<"object", f>>  an object                                            *)
(* and a message, or the object a user makes one from, is the function     *)
(* from its own property names to values.  What is read from a prototype   *)
(* is Zero.  A wire unit is <<field number, contents>>; a 64-bit number is *)
(* taken modulo Modulus.  Field numbers are positions: the lists have no   *)
(* gaps.  Units with the wire type of another field are not modelled.      *)
(***************************************************************************)
EXTENDS Integers, Sequences, SequencesExt

CONSTANT Modulus   \* stands for 2^64
ASSUME ModulusAssumption == Modulus \in Nat \ {0, 1}

MessageType == [REQUEST |-> 0, RESPONSE |-> 1, EVENT |-> 2, ERROR |-> 3]
StatusCode ==
  [OK |-> 0, UNKNOWN_ERROR |-> 1, NOT_FOUND |-> 2, INVALID_ARGUMENT |-> 3,
   INTERNAL |-> 4, TIMEOUT |-> 5]
Enum == [type |-> MessageType, status |-> StatusCode]

Field(name, kind) == [name |-> name, kind |-> kind]

EnvelopeFields ==
  << Field("type", "enum"), Field("requestId", "uint64"),
     Field("serviceName", "string"), Field("methodName", "string"),
     Field("payload", "bytes"), Field("status", "enum"),
     Field("errorMessage", "string"), Field("metadata", "map") >>
PingFields == << Field("clientId", "string") >>
PongFields == << Field("serverId", "string"), Field("timestampMs", "int64") >>
ServiceDescriptorFields ==
  << Field("name", "string"), Field("methods", "strings") >>
EchoRequestFields == << Field("message", "string") >>
EchoResponseFields ==
  << Field("message", "string"), Field("timestampMs", "int64") >>

Class ==
  [Envelope |-> EnvelopeFields, Ping |-> PingFields, Pong |-> PongFields,
   ServiceDescriptor |-> ServiceDescriptorFields,
   EchoRequest |-> EchoRequestFields, EchoResponse |-> EchoResponseFields]

-----------------------------------------------------------------------------
(* Values *)

Null == <<"null", 0>>
Tag(v) == v[1]
IsString(v) == Tag(v) \in {"string", "numeral", "base64"}
IsNumeric(v) == Tag(v) \in {"number", "long", "numeral"}

Has(message, field) ==
  field.name \in DOMAIN message /\ message[field.name] # Null

Signed_Not(bits) == bits
Signed(bits) == IF 2 * bits >= Modulus THEN bits - Modulus ELSE bits
Bits(n) == n % Modulus
Long(kind, n) ==
  <<"long", IF kind = "int64" THEN Signed(Bits(n)) ELSE Bits(n)>>

(* What a property that was never set reads as. *)
Zero(kind) ==
  CASE kind = "enum"    -> <<"number", 0>>
    [] kind \in {"uint64", "int64"} -> <<"long", 0>>
    [] kind = "string"  -> <<"string", "">>
    [] kind = "bytes"   -> <<"bytes", <<>> >>
    [] kind = "strings" -> <<"array", <<>> >>
    [] kind = "map"     -> <<"object", <<>> >>

(* The message with every field of DOMAIN value set to its value. *)
Setting(message, value) ==
  [name \in DOMAIN message \cup {f.name : f \in DOMAIN value} |->
     IF \E f \in DOMAIN value : f.name = name
     THEN value[CHOOSE f \in DOMAIN value : f.name = name]
     ELSE message[name]]

-----------------------------------------------------------------------------
(* create, encode, decode, verify *)

(* A constructor makes containers of the message's own. *)
Fresh(fields) ==
  LET containers == {f \in ToSet(fields) : f.kind \in {"map", "strings"}}
  IN  Setting(<<>>, [f \in containers |-> Zero(f.kind)])

Create(fields, properties) ==
  [name \in DOMAIN Fresh(fields) \cup
            {n \in DOMAIN properties : properties[n] # Null} |->
     IF name \in DOMAIN properties /\ properties[name] # Null
     THEN properties[name] ELSE Fresh(fields)[name]]

(* int32() of a string that is no numeral writes 0. *)
Contents(kind, v) ==
  CASE kind = "enum" -> IF IsNumeric(v) THEN v[2] ELSE 0
    [] kind \in {"uint64", "int64"} -> Bits(v[2])
    [] kind = "bytes" -> v[2]
    [] OTHER -> v

(* An own property is written also when it is 0 or empty. *)
Encode(fields, message) ==
  FlattenSeq([id \in DOMAIN fields |->
    LET f == fields[id]
        v == message[f.name]
    IN  CASE ~Has(message, f) -> <<>>
          [] f.kind = "strings" ->
               [j \in DOMAIN v[2] |-> <<id, v[2][j]>>]
          [] f.kind = "map" ->
               LET keys == SetToSeq(DOMAIN v[2])
               IN  [j \in DOMAIN keys |-> <<id, <<keys[j], v[2][keys[j]]>> >>]
          [] OTHER -> << <<id, Contents(f.kind, v)>> >>])

Decoded(kind, contents, old) ==
  CASE kind = "enum"    -> <<"number", contents>>
    [] kind \in {"uint64", "int64"} -> Long(kind, contents)
    [] kind = "string"  -> contents
    [] kind = "bytes"   -> <<"bytes", contents>>
    [] kind = "strings" -> <<"array", Append(old[2], contents)>>
    [] kind = "map"     ->
         <<"object", [k \in DOMAIN old[2] \cup {contents[1]} |->
                        IF k = contents[1] THEN contents[2] ELSE old[2][k]]>>

(* The last value of a field counts, repeated ones collect, and fields the *)
(* class does not know are skipped.                                        *)
Decode(fields, units) ==
  FoldLeft(LAMBDA message, unit :
             IF unit[1] \notin DOMAIN fields THEN message
             ELSE LET f == fields[unit[1]]
                      old == IF Has(message, f) THEN message[f.name]
                             ELSE Zero(f.kind)
                  IN  Setting(message,
                              [g \in {f} |-> Decoded(g.kind, unit[2], old)]),
           Fresh(fields), units)

(* One message after the other on a stream: its length comes first.        *)
EncodeDelimited(fields, message) ==
  LET units == Encode(fields, message) IN <<Len(units)>> \o units
DecodeDelimited(fields, stream) ==
  Decode(fields, SubSeq(stream, 2, 1 + stream[1]))

Verify(fields, object) ==
  \A f \in ToSet(fields) :
    Has(object, f) =>
      LET v == object[f.name]
      IN  CASE f.kind = "enum" ->
                 Tag(v) = "number" /\ v[2] \in Range(Enum[f.name])
            [] f.kind \in {"uint64", "int64"} -> Tag(v) \in {"number", "long"}
            [] f.kind = "string" -> IsString(v)
            [] f.kind = "bytes"  -> Tag(v) \in {"bytes", "array"} \/ IsString(v)
            [] f.kind = "strings" ->
                 Tag(v) = "array" /\ \A x \in Range(v[2]) : IsString(x)
            [] f.kind = "map" ->
                 Tag(v) = "object" /\ \A x \in Range(v[2]) : IsString(x)

-----------------------------------------------------------------------------
(* fromObject, toObject, toJSON *)

Text(v) == IF Tag(v) \in {"number", "long"} THEN <<"numeral", v[2]>> ELSE v

(* An enum's name becomes its number; what is neither the name of a value  *)
(* nor a number is dropped without an error.                               *)
Known(f, v) ==
  f.kind = "enum" => \/ Tag(v) = "number"
                     \/ Tag(v) = "string" /\ v[2] \in DOMAIN Enum[f.name]

Converted(f, v) ==
  CASE f.kind = "enum" ->
         IF Tag(v) = "number" THEN v ELSE <<"number", Enum[f.name][v[2]]>>
    [] f.kind \in {"uint64", "int64"} -> Long(f.kind, v[2])
    [] f.kind = "string" -> Text(v)
    [] f.kind = "bytes" -> IF Tag(v) = "base64" THEN <<"bytes", v[2]>> ELSE v
    [] f.kind \in {"strings", "map"} ->
         <<Tag(v), [i \in DOMAIN v[2] |-> Text(v[2][i])]>>

FromObject(fields, object) ==
  LET set == {f \in ToSet(fields) : Has(object, f) /\ Known(f, object[f.name])}
  IN  Setting(Fresh(fields), [f \in set |-> Converted(f, object[f.name])])

(* options: enums, longs and bytes are "String", another constructor's     *)
(* name, or "none"; defaults and containers (objects, arrays) are flags.   *)
Shown(f, v, options) ==
  CASE f.kind = "enum" /\ options.enums = "String" ->
         IF v[2] \in Range(Enum[f.name])
         THEN <<"string", CHOOSE n \in DOMAIN Enum[f.name] :
                            Enum[f.name][n] = v[2]>>
         ELSE v
    [] f.kind \in {"uint64", "int64"} /\ options.longs = "String" ->
         <<"numeral", v[2]>>
    [] f.kind \in {"uint64", "int64"} /\ options.longs = "Number" ->
         <<"number", v[2]>>
    [] f.kind = "bytes" /\ options.bytes = "String" -> <<"base64", v[2]>>
    [] f.kind = "bytes" /\ options.bytes = "Array"  -> <<"array", v[2]>>
    [] OTHER -> v

IsContainer(f) == f.kind \in {"strings", "map"}

ToObject(fields, message, options) ==
  LET own == {f \in ToSet(fields) : Has(message, f) /\
                (IsContainer(f) => message[f.name][2] # <<>>)}
      defaulted == {f \in ToSet(fields) :
                      options.defaults \/ (options.containers /\ IsContainer(f))}
  IN  Setting(<<>>,
              [f \in own \cup defaulted |->
                 Shown(f, IF f \in own THEN message[f.name] ELSE Zero(f.kind),
                       options)])

ToJSON(fields, message) ==
  ToObject(fields, message,
           [enums |-> "String", longs |-> "String", bytes |-> "String",
            defaults |-> FALSE, containers |-> FALSE])
=============================================================================
