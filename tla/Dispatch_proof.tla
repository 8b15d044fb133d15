--------------------------- MODULE Dispatch_proof ---------------------------
(***************************************************************************)
(* Theorems about Dispatch, for any services, methods, calls and number of *)
(* registrations, from DispatchAssumption.                                 *)
(***************************************************************************)
EXTENDS Dispatch, TLAPS

\* What a registration writes is a method table again.
LEMMA BringsType ==
  ASSUME NEW ms \in SUBSET Methods, NEW r \in Handlers
  PROVE  /\ Brings(ms, r) \in [Methods -> Handlers]
         /\ \A m \in Methods : Brings(ms, r)[m] = IF m \in ms THEN r ELSE 0
BY DispatchAssumption DEF Brings, Handlers

\* ... and so is the merged one, which keeps every method it had.
LEMMA MergedType ==
  ASSUME TypeOK, NEW s \in Services, NEW ms \in SUBSET Methods, NEW r \in Handlers
  PROVE  /\ Merged(s, ms, r) \in [Methods -> Handlers]
         /\ \A m \in Methods : Merged(s, ms, r)[m] = IF m \in ms THEN r ELSE services[s][m]
BY DispatchAssumption DEF Merged, Handlers, TypeOK

\* The two ways of registering change nothing but their table.
LEMMA RegisterServiceStep ==
  ASSUME TypeOK, NEW s \in Services, NEW ms \in SUBSET Methods \ {{}}, RegisterService(s, ms)
  PROVE  /\ registrations' \in Handlers /\ registrations' # 0
         /\ registry' \in [Services -> [Methods -> Handlers]]
         /\ \A t \in Services, m \in Methods : registry[t][m] # 0 => registry'[t][m] = registry[t][m]
<1>1. registrations' \in Handlers /\ registrations' # 0
  BY DispatchAssumption DEF RegisterService, TypeOK, Handlers
<1>2. Brings(ms, registrations') \in [Methods -> Handlers]
  BY <1>1, BringsType
<1>3. \A m \in Methods : NoMethods[m] = 0
  BY DEF NoMethods
<1>4. CASE MayRegister(s)
  <2>1. registry[s] = NoMethods
    BY <1>4 DEF MayRegister, Registered
  <2>2. registry' = [registry EXCEPT ![s] = Brings(ms, registrations')]
    BY <1>4 DEF RegisterService
  <2>3. QED
    BY <1>1, <1>2, <1>3, <2>1, <2>2 DEF TypeOK
<1>5. CASE ~MayRegister(s)
  BY <1>1, <1>5 DEF RegisterService, TypeOK
<1>6. QED
  BY <1>4, <1>5

\* A TypeScript registration brings methods, and removes none.
LEMMA RegisterStep ==
  ASSUME TypeOK, NEW s \in Services, NEW ms \in SUBSET Methods \ {{}}, Register(s, ms)
  PROVE  /\ registrations' \in Handlers /\ registrations' # 0
         /\ services' \in [Services -> [Methods -> Handlers]]
         /\ \A t \in Services, m \in Methods : services[t][m] # 0 => services'[t][m] # 0
<1>1. registrations' \in Handlers /\ registrations' # 0
  BY DispatchAssumption DEF Register, TypeOK, Handlers
<1>2. /\ Merged(s, ms, registrations') \in [Methods -> Handlers]
      /\ \A m \in Methods : Merged(s, ms, registrations')[m]
                              = IF m \in ms THEN registrations' ELSE services[s][m]
  BY <1>1, MergedType
<1>3. services' = [services EXCEPT ![s] = Merged(s, ms, registrations')]
  BY DEF Register
<1>4. QED
  BY <1>1, <1>2, <1>3 DEF TypeOK

\* Every response is an envelope, and every reading of one a result for the caller.
LEMMA AnswerType ==
  ASSUME NEW h, NEW input
  PROVE  /\ Answer(h, input) \in Envelopes
         /\ Answer(h, input).status # "none"
<1>1. /\ Failure("NOT_FOUND") \in Envelopes /\ Failure("NOT_FOUND").status # "none"
      /\ Failure("INTERNAL") \in Envelopes /\ Failure("INTERNAL").status # "none"
      /\ Success("odd") \in Envelopes /\ Success("odd").status # "none"
      /\ Success("readable") \in Envelopes /\ Success("readable").status # "none"
  BY DEF Failure, Success, Envelopes
<1>2. Result(input) \in {Failure("INTERNAL"), Success("odd"), Success("readable")}
  BY Zenon DEF Result
<1>3. Answer(h, input) \in {Failure("NOT_FOUND"), Failure("INTERNAL"), Success("odd"), Success("readable")}
  BY <1>2, Zenon DEF Answer
<1>4. QED
  BY <1>1, <1>3, Zenon

\* Every response has a meaning to either caller.
LEMMA OutcomeType ==
  ASSUME NEW r \in Envelopes, r.status # "none"
  PROVE  StubResult(r) \in Outcomes /\ ClientResult(r) \in Outcomes
BY DEF StubResult, ClientResult, Errc, Envelopes, Outcomes

\* The invariant holds at the start.
LEMMA InitInv == Init => IndInv
<1>1. SUFFICES ASSUME Init PROVE IndInv
  OBVIOUS
<1>2. TypeOK
  <2>1. NoMethods \in [Methods -> Handlers]
    BY DispatchAssumption DEF NoMethods, Handlers
  <2>2. Brings({PingMethod}, BuiltIn) \in [Methods -> Handlers] /\ BuiltIn \in Handlers
    BY DispatchAssumption DEF Brings, Handlers, BuiltIn
  <2>3. registry \in [Services -> [Methods -> Handlers]] /\ services = registry
    BY <1>1, <2>1, <2>2 DEF Init
  <2>4. asked \in [Calls -> Requests]
    <3>1. [server |-> "cpp", client |-> "cpp", service |-> Ping, method |-> PingMethod,
           input |-> "good"] \in Requests
      BY DispatchAssumption DEF Requests, Inputs
    <3>2. (CHOOSE q \in Requests : TRUE) \in Requests
      BY <3>1
    <3>3. QED
      BY <1>1, <3>2 DEF Init
  <2>5. 0 \in Handlers
    BY DispatchAssumption DEF Handlers
  <2>6. /\ known \in [Calls -> Handlers] /\ found \in [Calls -> [Methods -> Handlers]]
        /\ stage \in [Calls -> {"none", "sent", "found", "answered", "done"}]
    BY <1>1, <2>1, <2>5 DEF Init
  <2>7. reply \in [Calls -> Envelopes]
    BY <1>1 DEF Init, Envelopes
  <2>8. outcome \in [Calls -> Outcomes]
    BY <1>1 DEF Init, Outcomes
  <2>9. registrations \in Handlers
    BY <1>1, <2>2 DEF Init
  <2>10. QED
    BY <2>3, <2>4, <2>6, <2>7, <2>8, <2>9 DEF TypeOK
<1>3. \A k \in Calls : stage[k] = "none" /\ known[k] = 0
  BY <1>1 DEF Init
<1>4. QED
  BY <1>2, <1>3 DEF IndInv, StillThere, ReplyInv, CallerIsTold

\* Registering leaves calls alone, and takes no handler away.
LEMMA RegistrationInv ==
  ASSUME IndInv, NEW s \in Services, NEW ms \in SUBSET Methods \ {{}},
         RegisterService(s, ms) \/ Register(s, ms)
  PROVE  IndInv'
<1>1. TypeOK
  BY DEF IndInv
<1>2. /\ registrations' \in Handlers
      /\ registry' \in [Services -> [Methods -> Handlers]]
      /\ services' \in [Services -> [Methods -> Handlers]]
      /\ \A t \in Services, m \in Methods :
           (registry[t][m] # 0 => registry'[t][m] # 0) /\ (services[t][m] # 0 => services'[t][m] # 0)
  <2>1. CASE RegisterService(s, ms)
    <3>1. UNCHANGED services
      BY <2>1 DEF RegisterService
    <3>2. QED
      BY <1>1, <2>1, <3>1, RegisterServiceStep DEF TypeOK
  <2>2. CASE Register(s, ms)
    <3>1. UNCHANGED registry
      BY <2>2 DEF Register
    <3>2. QED
      BY <1>1, <2>2, <3>1, RegisterStep DEF TypeOK
  <2>3. QED
    BY <2>1, <2>2
<1>3. UNCHANGED <<stage, asked, known, found, reply, outcome>>
  BY DEF RegisterService, Register
<1>4. TypeOK'
  BY <1>1, <1>2, <1>3 DEF TypeOK
<1>5. StillThere'
  <2>1. \A k \in Calls : HandlerNow(asked[k]) # 0 => HandlerNow(asked[k])' # 0
    BY <1>1, <1>2, <1>3 DEF HandlerNow, TypeOK, Requests
  <2>2. QED
    BY <1>3, <2>1 DEF IndInv, StillThere
<1>6. ReplyInv'
  BY <1>3 DEF IndInv, ReplyInv, Result, Success, Failure
<1>7. CallerIsTold'
  BY <1>3 DEF IndInv, CallerIsTold
<1>8. QED
  BY <1>4, <1>5, <1>6, <1>7 DEF IndInv

\* A call starts with the handlers that are there.
LEMMA SendInv ==
  ASSUME IndInv, NEW k \in Calls, NEW q \in Requests, Send(k, q)
  PROVE  IndInv'
<1>1. HandlerNow(q) \in Handlers
  BY DEF IndInv, TypeOK, HandlerNow, Requests
<1>2. TypeOK'
  BY <1>1 DEF IndInv, TypeOK, Send, tables
<1>3. \A j \in Calls \ {k} : /\ stage'[j] = stage[j] /\ asked'[j] = asked[j]
                            /\ known'[j] = known[j]
  BY DEF Send, IndInv, TypeOK
<1>4. stage'[k] = "sent" /\ asked'[k] = q /\ known'[k] = HandlerNow(q)
  BY DEF Send, IndInv, TypeOK
<1>5. UNCHANGED <<registry, services, found, reply, outcome>>
  BY DEF Send, tables
<1>6. StillThere'
  BY <1>3, <1>4, <1>5 DEF IndInv, StillThere, HandlerNow
<1>7. ReplyInv' /\ CallerIsTold'
  BY <1>3, <1>4, <1>5 DEF IndInv, ReplyInv, CallerIsTold
<1>8. QED
  BY <1>2, <1>6, <1>7 DEF IndInv

\* The search finds what was there when the call was made, or something newer.
LEMMA SearchInv ==
  ASSUME IndInv, NEW k \in Calls, FindService(k) \/ Lookup(k)
  PROVE  IndInv'
<1>1. UNCHANGED <<registrations, registry, services, asked, known, reply, outcome>>
  BY DEF FindService, Lookup, tables
<1>2. /\ stage[k] = "sent"
      /\ stage' = [stage EXCEPT ![k] = "found"]
      /\ found' = [found EXCEPT ![k] = IF asked[k].server = "cpp" THEN registry[asked[k].service]
                                                                   ELSE services[asked[k].service]]
  BY DEF FindService, Lookup
<1>3. TypeOK'
  BY <1>1, <1>2 DEF IndInv, TypeOK, Requests
<1>4. found'[k][asked[k].method] = HandlerNow(asked[k])
  BY <1>2 DEF IndInv, TypeOK, HandlerNow
<1>5. /\ stage'[k] = "found"
      /\ \A j \in Calls \ {k} : stage'[j] = stage[j] /\ found'[j] = found[j]
  BY <1>2 DEF IndInv, TypeOK
<1>6. StillThere'
  BY <1>1, <1>2, <1>4, <1>5 DEF IndInv, StillThere, HandlerNow
<1>7. ReplyInv' /\ CallerIsTold'
  BY <1>1, <1>5 DEF IndInv, ReplyInv, CallerIsTold
<1>8. QED
  BY <1>3, <1>6, <1>7 DEF IndInv

\* The response says what the handler that was found made of the request.
LEMMA RespondInv ==
  ASSUME IndInv, NEW k \in Calls, Respond(k)
  PROVE  IndInv'
<1>1. UNCHANGED <<registrations, registry, services, asked, known, found, outcome>>
  BY DEF Respond, tables
<1>2. asked[k].input \in Inputs
  BY DEF IndInv, TypeOK, Requests
<1>3. /\ stage[k] = "found" /\ stage' = [stage EXCEPT ![k] = "answered"]
      /\ reply' = [reply EXCEPT ![k] = Answer(found[k][asked[k].method], asked[k].input)]
  BY DEF Respond
<1>5. Answer(found[k][asked[k].method], asked[k].input) \in Envelopes
  BY AnswerType
<1>6. TypeOK'
  BY <1>1, <1>3, <1>5 DEF IndInv, TypeOK
<1>7. /\ stage'[k] = "answered" /\ reply'[k] = Answer(found[k][asked[k].method], asked[k].input)
      /\ \A j \in Calls \ {k} : stage'[j] = stage[j] /\ reply'[j] = reply[j]
  BY <1>3 DEF IndInv, TypeOK
<1>8. StillThere' /\ CallerIsTold'
  BY <1>1, <1>7 DEF IndInv, StillThere, CallerIsTold, HandlerNow
<1>9. ReplyInv'
  <2>1. \/ reply'[k] = Result(asked[k].input)
        \/ reply'[k] = Failure("NOT_FOUND") /\ known[k] = 0
    BY <1>3, <1>7 DEF Answer, IndInv, StillThere
  <2>2. QED
    BY <1>1, <1>7, <2>1 DEF IndInv, ReplyInv, Result, Success, Failure
<1>10. QED
  BY <1>6, <1>8, <1>9 DEF IndInv

\* What the caller gets is what the response says.
LEMMA ReceiveInv ==
  ASSUME IndInv, NEW k \in Calls, Receive(k)
  PROVE  IndInv'
<1> DEFINE o == IF asked[k].client = "cpp" THEN StubResult(reply[k]) ELSE ClientResult(reply[k])
<1>1. UNCHANGED <<registrations, registry, services, asked, known, found, reply>>
  BY DEF Receive, tables
<1>2. /\ stage[k] = "answered" /\ stage' = [stage EXCEPT ![k] = "done"]
      /\ outcome' = [outcome EXCEPT ![k] = o]
  BY DEF Receive
<1>3. asked[k].input \in Inputs /\ reply[k] \in Envelopes
  BY DEF IndInv, TypeOK, Requests
<1>4. o \in Outcomes
  <2>1. \/ reply[k] = Result(asked[k].input)
        \/ reply[k] = Failure("NOT_FOUND")
    BY <1>2 DEF IndInv, ReplyInv
  <2>2. reply[k].status # "none"
    BY <2>1 DEF Result, Failure, Success
  <2>3. QED
    BY <1>3, <2>2, OutcomeType
<1>5. TypeOK'
  BY <1>1, <1>2, <1>4 DEF IndInv, TypeOK
<1>6. /\ stage'[k] = "done" /\ outcome'[k] = o
      /\ \A j \in Calls \ {k} : stage'[j] = stage[j] /\ outcome'[j] = outcome[j]
  BY <1>2, <1>4 DEF IndInv, TypeOK
<1>7. StillThere' /\ ReplyInv'
  BY <1>1, <1>6 DEF IndInv, StillThere, ReplyInv, HandlerNow, Result, Success, Failure
<1>8. CallerIsTold'
  <2>1. \/ reply[k] = Result(asked[k].input)
        \/ reply[k] = Failure("NOT_FOUND") /\ known[k] = 0
    BY <1>2 DEF IndInv, ReplyInv
  <2>2. CASE reply[k] = Failure("NOT_FOUND") /\ known[k] = 0
    <3>1. o \in Absent
      BY <2>2 DEF Absent, Failure, StubResult, ClientResult, Errc
    <3>2. QED
      BY <1>1, <1>6, <2>2, <3>1 DEF IndInv, CallerIsTold
  <2>3. CASE reply[k] = Result(asked[k].input) /\ asked[k].input = "good"
    <3>1. o = "value"
      BY <2>3 DEF Result, Success, StubResult, ClientResult
    <3>2. QED
      BY <1>1, <1>6, <2>3, <3>1 DEF IndInv, CallerIsTold
  <2>4. CASE reply[k] = Result(asked[k].input) /\ asked[k].input = "odd_result"
    <3>1. o \in {"decode_error", "bad_message"}
      BY <2>4 DEF Result, Success, StubResult, ClientResult
    <3>2. QED
      BY <1>1, <1>6, <2>4, <3>1 DEF IndInv, CallerIsTold
  <2>5. CASE reply[k] = Result(asked[k].input) /\ asked[k].input \in {"fails", "malformed"}
    <3>1. o \in {"INTERNAL", "io_error"}
      BY <2>5 DEF Result, Failure, StubResult, ClientResult, Errc
    <3>2. QED
      BY <1>1, <1>6, <2>5, <3>1 DEF IndInv, CallerIsTold, Absent
  <2>6. QED
    BY <1>3, <2>1, <2>2, <2>3, <2>4, <2>5 DEF Inputs
<1>9. QED
  BY <1>5, <1>7, <1>8 DEF IndInv

\* Every step keeps the invariant.
LEMMA StepInv == IndInv /\ [Next]_vars => IndInv'
<1>1. SUFFICES ASSUME IndInv, [Next]_vars PROVE IndInv'
  OBVIOUS
<1>2. CASE UNCHANGED vars
  BY <1>1, <1>2 DEF vars, tables, IndInv, TypeOK, StillThere, HandlerNow, ReplyInv, CallerIsTold,
     Result, Success, Failure
<1>3. ASSUME NEW s \in Services, NEW ms \in SUBSET Methods \ {{}},
             RegisterService(s, ms) \/ Register(s, ms)
      PROVE  IndInv'
  BY <1>1, <1>3, RegistrationInv
<1>4. ASSUME NEW k \in Calls, NEW q \in Requests, Send(k, q)
      PROVE  IndInv'
  BY <1>1, <1>4, SendInv
<1>5. ASSUME NEW k \in Calls, FindService(k) \/ Lookup(k)
      PROVE  IndInv'
  BY <1>1, <1>5, SearchInv
<1>6. ASSUME NEW k \in Calls, Respond(k)
      PROVE  IndInv'
  BY <1>1, <1>6, RespondInv
<1>7. ASSUME NEW k \in Calls, Receive(k)
      PROVE  IndInv'
  BY <1>1, <1>7, ReceiveInv
<1>8. QED
  BY <1>1, <1>2, <1>3, <1>4, <1>5, <1>6, <1>7 DEF Next

\* The inductive invariant.
THEOREM Invariant == Spec => []IndInv
<1>1. Init => IndInv
  BY InitInv
<1>2. IndInv /\ [Next]_vars => IndInv'
  BY StepInv
<1>3. QED
  BY <1>1, <1>2, PTL DEF Spec

\* Whatever is registered meanwhile: a method that was there when the call was
\* made answers it, and the caller is told its result or what went wrong.
THEOREM CallersAreTold == Spec => []CallerIsTold
<1>1. IndInv => CallerIsTold
  BY DEF IndInv
<1>2. QED
  BY <1>1, Invariant, PTL

\* No step takes the handler of a registered C++ service, or the last handler of a
\* TypeScript method, away.
THEOREM HandlersAreKept == Spec => HandlersStay
<1> DEFINE Kept == \A s \in Services, m \in Methods :
                     /\ Registered(s) => registry'[s][m] = registry[s][m]
                     /\ services[s][m] # 0 => services'[s][m] # 0
<1>1. IndInv /\ [Next]_vars => [Kept]_vars
  <2>1. SUFFICES ASSUME IndInv, [Next]_vars, ~UNCHANGED vars PROVE Kept
    OBVIOUS
  <2>2. TypeOK
    BY <2>1 DEF IndInv
  <2>3. ASSUME NEW s \in Services, NEW ms \in SUBSET Methods \ {{}}, RegisterService(s, ms)
        PROVE  Kept
    <3>1. UNCHANGED services
      BY <2>3 DEF RegisterService
    <3>2. CASE MayRegister(s)
      BY <2>2, <2>3, <3>1, <3>2 DEF RegisterService, MayRegister, TypeOK
    <3>3. CASE ~MayRegister(s)
      BY <2>3, <3>1, <3>3 DEF RegisterService
    <3>4. QED
      BY <3>2, <3>3
  <2>4. ASSUME NEW s \in Services, NEW ms \in SUBSET Methods \ {{}}, Register(s, ms)
        PROVE  Kept
    <3>1. UNCHANGED registry
      BY <2>4 DEF Register
    <3>2. QED
      BY <2>2, <2>4, <3>1, RegisterStep
  <2>5. ASSUME NEW k \in Calls,
               (\E q \in Requests : Send(k, q)) \/ FindService(k) \/ Lookup(k) \/ Respond(k) \/ Receive(k)
        PROVE  Kept
    <3>1. UNCHANGED <<registry, services>>
      BY <2>5 DEF Send, FindService, Lookup, Respond, Receive, tables
    <3>2. QED
      BY <3>1
  <2>6. QED
    BY <2>1, <2>3, <2>4, <2>5 DEF Next, vars
<1>2. QED
  BY <1>1, Invariant, PTL DEF Spec, HandlersStay
=============================================================================
