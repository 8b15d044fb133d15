------------------------------- MODULE MCWire -------------------------------
(* Wire for TLC: bodies of every class, built in every way that fits. *)
EXTENDS Wire

Num(n) == <<"number", n>>
Some(s) == [message |-> Str(s)]

Service(methods) ==
  [name |-> Str("a"),
   methods |-> <<"array", [i \in DOMAIN methods |-> Str(methods[i])]>>]

(* Objects of the user, with the ways they may be sent. *)
Objects ==
  {<<"Ping", <<>> >>, <<"Ping", [clientId |-> Null]>>,
   <<"Pong", [serverId |-> Str("ibridger-server"), timestampMs |-> <<"long", 5>>]>>,
   <<"Pong", [timestampMs |-> <<"numeral", 3>>]>>,
   <<"EchoRequest", Some("")>>,
   <<"EchoResponse", [message |-> Str("HI"), timestampMs |-> Num(-1)]>>,
   <<"ServiceDescriptor", Service(<<"b", "c", "b">>)>>}

(* encode() takes what verify() accepts; fromObject() converts the rest. *)
Bodies ==
  {Body(o[1], via, o[2]) :
     o \in Objects, via \in {"create", "object", "fromObject"}}
Sendable ==
  {b \in Bodies : b.via = "fromObject" \/ Verify(Class[b.type], b.object)}

(* At the limit, and above it, when C++ writes it. *)
Long4 == Body("ServiceDescriptor", "create", Service(<<"b", "c", "d", "e">>))
Long5 == Body("ServiceDescriptor", "create", Service(<<"b", "c", "d", "e", "f">>))

First ==
  {Response(1, b) : b \in Sendable \cup {Long4, Long5}}
    \cup {Request(1, "Echo", "Echo", Body("EchoRequest", "create", Some("hi")), md) :
            md \in {<<>>, [a |-> Str("x")], [a |-> Str("x"), b |-> Str("")]}}
    \cup {Error(0, StatusCode.NOT_FOUND, "none"), Keepalive}
Second ==
  {Keepalive, Response(2, Body("Ping", "create", <<>>))}

MCMessages == <<First, Second>>

(* WireBytes, computed once. *)
Table == [l \in Senders, m \in First \cup Second |-> WireBytes(l, m)]
MCBytes(l, m) == Table[l, m]
=============================================================================
