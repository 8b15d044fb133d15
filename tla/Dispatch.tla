------------------------------ MODULE Dispatch ------------------------------
(***************************************************************************)
(* From a typed call to its result: registration of services, the search   *)
(* for a handler, what becomes of its result on the wire, and how the      *)
(* client of either language reads it.  There is a C++ server, whose       *)
(* handler threads search a locked registry in two steps, and a TypeScript *)
(* server, whose tasks search a map in one, while users go on registering. *)
(*                                                                         *)
(* Handlers are known by the registration that brought them, 0 is none.    *)
(* Transport, reconnecting and time are the business of other modules.     *)
(***************************************************************************)
EXTENDS Integers

CONSTANTS
  Services, Methods,    \* names
  Ping, PingMethod,     \* the names of the built-in service and its method
  Calls,                \* bound: the calls ever made
  MaxRegistrations      \* bound: registrations, the built-in one included

ASSUME DispatchAssumption ==
  /\ Ping \in Services /\ PingMethod \in Methods
  /\ MaxRegistrations \in Nat \ {0}

Handlers == 0..MaxRegistrations
BuiltIn == 1

VARIABLES
  registrations,  \* registrations so far
  registry,       \* ServiceRegistry::services_: handlers by service and method
  services,       \* IBridgerServer.services: the same
  stage,          \* by call: how far it is
  asked,          \* by call: what it asks, of which server, from which client
  known,          \* by call: the handler its server had for it when it was sent
  found,          \* by call: what the search has found
  reply,          \* by call: the response envelope: its status, and what its payload is to the caller
  outcome         \* by call: what the caller gets

tables == <<registrations, registry, services>>
vars == <<tables, stage, asked, known, found, reply, outcome>>

\* What a handler makes of a request: a payload, one the caller's type does not
\* decode, an error or exception, or nothing since it cannot decode the request.
Inputs == {"good", "odd_result", "fails", "malformed"}
Requests == [server : {"cpp", "ts"}, client : {"cpp", "ts"},
             service : Services, method : Methods, input : Inputs]

NoMethods == [m \in Methods |-> 0]
Registered(s) == registry[s] # NoMethods
Brings(ms, r) == [m \in Methods |-> IF m \in ms THEN r ELSE 0]

\* Constructors: the built-in ping service is the first registration, if there is one.
Init ==
  /\ registrations = BuiltIn
  /\ \E builtins \in BOOLEAN :
       registry = [s \in Services |->
         IF builtins /\ s = Ping THEN Brings({PingMethod}, BuiltIn) ELSE NoMethods]
  /\ services = registry
  /\ stage = [k \in Calls |-> "none"]
  /\ asked = [k \in Calls |-> CHOOSE q \in Requests : TRUE]
  /\ known = [k \in Calls |-> 0] /\ found = [k \in Calls |-> NoMethods]
  /\ reply = [k \in Calls |-> [status |-> "none", payload |-> "none"]]
  /\ outcome = [k \in Calls |-> "none"]
-----------------------------------------------------------------------------
(* Registration. *)

MayRegister_Always(s) == TRUE
MayRegister(s) == ~Registered(s)

\* ServiceRegistry::register_service(): a name that is taken keeps its service,
\* and Server::register_service() and ServerBuilder::build() do not tell.
RegisterService(s, ms) ==
  /\ registrations < MaxRegistrations
  /\ registrations' = registrations + 1
  /\ registry' = IF MayRegister(s) THEN [registry EXCEPT ![s] = Brings(ms, registrations')] ELSE registry
  /\ UNCHANGED <<services, stage, asked, known, found, reply, outcome>>

Merged_Replaces(s, ms, r) == Brings(ms, r)
Merged(s, ms, r) == [m \in Methods |-> IF m \in ms THEN r ELSE services[s][m]]

\* IBridgerServer.register(): the methods are merged into those of the name.
Register(s, ms) ==
  /\ registrations < MaxRegistrations
  /\ registrations' = registrations + 1
  /\ services' = [services EXCEPT ![s] = Merged(s, ms, registrations')]
  /\ UNCHANGED <<registry, stage, asked, known, found, reply, outcome>>
-----------------------------------------------------------------------------
(* A call. *)

HandlerNow(q) ==
  IF q.server = "cpp" THEN registry[q.service][q.method] ELSE services[q.service][q.method]

\* The client encodes the request and sends it; when the server reads it is another matter.
Send(k, q) ==
  /\ stage[k] = "none"
  /\ stage' = [stage EXCEPT ![k] = "sent"]
  /\ asked' = [asked EXCEPT ![k] = q]
  /\ known' = [known EXCEPT ![k] = HandlerNow(q)]
  /\ UNCHANGED <<tables, found, reply, outcome>>

\* Dispatcher::dispatch(): find_service() under the lock ...
FindService(k) ==
  /\ stage[k] = "sent" /\ asked[k].server = "cpp"
  /\ stage' = [stage EXCEPT ![k] = "found"]
  /\ found' = [found EXCEPT ![k] = registry[asked[k].service]]
  /\ UNCHANGED <<tables, asked, known, reply, outcome>>

\* ... or IBridgerServer.dispatch(), all in one task up to the handler.
Lookup(k) ==
  /\ stage[k] = "sent" /\ asked[k].server = "ts"
  /\ stage' = [stage EXCEPT ![k] = "found"]
  /\ found' = [found EXCEPT ![k] = services[asked[k].service]]
  /\ UNCHANGED <<tables, asked, known, reply, outcome>>

\* make_error() and errorEnvelope()
Failure(status) == [status |-> status, payload |-> "none"]
Success(payload) == [status |-> "OK", payload |-> payload]

\* A handler that cannot decode its request reports that as an error of its
\* own (bad_message, serialization_error, an exception of decode()).
Result(input) ==
  IF input \in {"fails", "malformed"} THEN Failure("INTERNAL")
  ELSE IF input = "odd_result" THEN Success("odd") ELSE Success("readable")

\* The search for the method, the handler, and the response from its result.
Answer(h, input) == IF h = 0 THEN Failure("NOT_FOUND") ELSE Result(input)

Respond(k) ==
  /\ stage[k] = "found"
  /\ stage' = [stage EXCEPT ![k] = "answered"]
  /\ reply' = [reply EXCEPT ![k] = Answer(found[k][asked[k].method], asked[k].input)]
  /\ UNCHANGED <<tables, asked, known, found, outcome>>

\* ClientStub::status_to_errc()
Errc(status) ==
  CASE status = "NOT_FOUND" -> "no_such_file_or_directory"
    [] status = "INVALID_ARGUMENT" -> "invalid_argument"
    [] status = "TIMEOUT" -> "timed_out"
    [] OTHER -> "io_error"

\* ClientStub::call()
StubResult(r) ==
  IF r.status # "OK" THEN Errc(r.status)
  ELSE IF r.payload = "readable" THEN "value" ELSE "bad_message"

\* IBridgerClient.call()
ClientResult(r) ==
  IF r.status # "OK" THEN r.status
  ELSE IF r.payload = "readable" THEN "value" ELSE "decode_error"

Receive(k) ==
  /\ stage[k] = "answered"
  /\ stage' = [stage EXCEPT ![k] = "done"]
  /\ outcome' = [outcome EXCEPT ![k] =
       IF asked[k].client = "cpp" THEN StubResult(reply[k]) ELSE ClientResult(reply[k])]
  /\ UNCHANGED <<tables, asked, known, found, reply>>
-----------------------------------------------------------------------------
Next ==
  \/ \E s \in Services, ms \in SUBSET Methods \ {{}} : RegisterService(s, ms) \/ Register(s, ms)
  \/ \E k \in Calls : (\E q \in Requests : Send(k, q)) \/ FindService(k) \/ Lookup(k) \/ Respond(k) \/ Receive(k)

Spec == Init /\ [][Next]_vars
-----------------------------------------------------------------------------
(* Properties. *)

\* What a caller of either language is told of a service or method that is not there.
Absent == {"NOT_FOUND", "no_such_file_or_directory"}

\* A method that was registered when the call was made is found, whatever is
\* registered meanwhile, and the caller is told what became of it: its result,
\* or an error that tells a failing handler (INTERNAL, io_error) from a result it
\* cannot read, and both from a method that is not there (WIRE_PROTOCOL.md:139-141,
\* client_stub.h:30).  Of a request the handler cannot decode it asks only that the
\* caller takes it neither for a success nor for an absent method: the status is
\* INVALID_ARGUMENT in WIRE_PROTOCOL.md:142 and another one in the code (Result).
CallerIsTold ==
  \A k \in Calls : stage[k] = "done" =>
    \/ asked[k].input = "good" /\ outcome[k] = "value"
    \/ asked[k].input = "odd_result" /\ outcome[k] \in {"decode_error", "bad_message"}
    \/ asked[k].input = "fails" /\ outcome[k] \in {"INTERNAL", "io_error"}
    \/ asked[k].input = "malformed" /\ outcome[k] \notin {"value", "decode_error", "bad_message"} \cup Absent
    \/ known[k] = 0 /\ outcome[k] \in Absent

\* What clients rely on stays: a C++ service keeps its handlers, the built-in one
\* too, also when its name is registered again (service_registry.h:25); a TypeScript
\* method may get another handler, but never none (server.ts:89).
HandlersStay ==
  [][\A s \in Services, m \in Methods :
       /\ Registered(s) => registry'[s][m] = registry[s][m]
       /\ services[s][m] # 0 => services'[s][m] # 0]_vars
-----------------------------------------------------------------------------
(* The inductive invariant of the proof, in named parts. *)

Envelopes == [status : {"none", "OK", "NOT_FOUND", "INTERNAL"}, payload : {"none", "odd", "readable"}]
Outcomes == {"none", "value", "decode_error", "NOT_FOUND", "INTERNAL", "bad_message",
             "no_such_file_or_directory", "io_error"}

TypeOK ==
  /\ registrations \in Handlers
  /\ registry \in [Services -> [Methods -> Handlers]]
  /\ services \in [Services -> [Methods -> Handlers]]
  /\ stage \in [Calls -> {"none", "sent", "found", "answered", "done"}]
  /\ asked \in [Calls -> Requests]
  /\ known \in [Calls -> Handlers]
  /\ found \in [Calls -> [Methods -> Handlers]]
  /\ reply \in [Calls -> Envelopes]
  /\ outcome \in [Calls -> Outcomes]

\* A handler the server had when the call was made is still there for the search, and found.
StillThere ==
  \A k \in Calls : known[k] # 0 =>
    /\ stage[k] = "sent" => HandlerNow(asked[k]) # 0
    /\ stage[k] = "found" => found[k][asked[k].method] # 0

\* The response on its way says what the handler made of the request, or that there is none.
ReplyInv ==
  \A k \in Calls : stage[k] = "answered" =>
    \/ reply[k] = Result(asked[k].input)
    \/ reply[k] = Failure("NOT_FOUND") /\ known[k] = 0

IndInv == TypeOK /\ StillThere /\ ReplyInv /\ CallerIsTold
=============================================================================
