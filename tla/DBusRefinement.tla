--------------------------- MODULE DBusRefinement ---------------------------
(***************************************************************************)
(* DBusClient implements PhaseTwo: every step of the conversation, of the  *)
(* handlers and of the services is a step of the one call that its caller  *)
(* sees, or none.  Fairness is left to TLC.                                *)
(***************************************************************************)
EXTENDS DBusClientProofs

Asking == {"Import", "NewTunnel", "NewTunnel_reply", "Introspect", "Ready",
           "Subscribe", "Connect", "Connect_reply"}

\* What the session has been through, by where the conversation stands.
Staged ==
  /\ pc = "NewTunnel_reply" \/ session_path = "session" => service.sessions > 0
  /\ service.sessions = 0 => service.state = "absent" /\ ~service.disconnect_asked
  /\ service.state \in {"absent", "new", "started", "failed"} => ~service.been_up
  /\ service.cut => service.state \in {"down", "gone"} /\ ~service.been_up
  /\ pc = "Connect_reply" => service.state \notin {"absent", "new"}

clean == service.disconnect_asked \/ service.state = "gone"

Call(p) ==
  CASE p \in {"returned", "threw"} -> p
    [] p \in {"crashed", "interrupted"} -> "stopped"
    [] p \in Loop -> "waiting"
    [] OTHER -> "asking"

LEMMA Calls ==
  /\ \A p \in Asking : Call(p) = "asking"
  /\ \A p \in Loop : Call(p) = "waiting"
  /\ Call("threw") = "threw" /\ Call("returned") = "returned"
  /\ Call("crashed") = "stopped" /\ Call("interrupted") = "stopped"
BY DEF Call, Asking, Loop

LEMMA CallOf == phase_call = Call(pc) /\ phase_call' = Call(pc')
BY DEF phase_call, Call, Loop

Session(s) ==
  IF s.been_up THEN IF s.state = "up" THEN "up" ELSE "down"
  ELSE IF s.cut THEN "cut"
  ELSE CASE s.state \in {"absent", "new"} -> "none"
         [] s.state = "started" -> "started"
         [] OTHER -> "failed"

LEMMA SessionOf ==
  phase_session = Session(service) /\ phase_session' = Session(service')
BY DEF phase_session, Session

LEMMA Sessions ==
  ASSUME NEW s \in ServiceType
  PROVE  /\ s.been_up => Session(s) = IF s.state = "up" THEN "up" ELSE "down"
         /\ ~s.been_up /\ s.cut => Session(s) = "cut"
         /\ ~s.been_up /\ ~s.cut =>
              /\ s.state \in {"absent", "new"} => Session(s) = "none"
              /\ s.state = "started" => Session(s) = "started"
              /\ s.state \notin {"absent", "new", "started"} =>
                   Session(s) = "failed"
<1>1. s.been_up \in BOOLEAN /\ s.cut \in BOOLEAN
  BY DEF ServiceType
<1>2. s.been_up => Session(s) = IF s.state = "up" THEN "up" ELSE "down"
  BY DEF Session
<1>3. ~s.been_up /\ s.cut => Session(s) = "cut"
  BY DEF Session
<1>4. ~s.been_up /\ ~s.cut =>
        /\ s.state \in {"absent", "new"} => Session(s) = "none"
        /\ s.state = "started" => Session(s) = "started"
        /\ s.state \notin {"absent", "new", "started"} => Session(s) = "failed"
  BY DEF Session
<1> QED
  BY <1>2, <1>3, <1>4

LEMMA Places == Points = Asking \cup Loop \cup Ends
BY DEF Points, Asking, Loop

-----------------------------------------------------------------------------
(* Staged.                                                                 *)

LEMMA InitStaged == Init => Staged
<1> SUFFICES ASSUME Init PROVE Staged
  OBVIOUS
<1>1. /\ pc = "Import" /\ session_path = ""
      /\ service.sessions = 0 /\ service.state = "absent"
      /\ service.disconnect_asked = FALSE /\ service.been_up = FALSE
      /\ service.cut = FALSE
  BY DEF Init
<1> QED
  BY <1>1 DEF Staged

\* What disconnect() does.
LEMMA DisconnectedFields ==
  ASSUME service \in ServiceType, NEW s \in Disconnected
  PROVE  /\ s \in ServiceType
         /\ s.sessions = service.sessions /\ s.been_up = service.been_up
         /\ s.cut = service.cut
         /\ s.state \in {service.state, "gone"}
         /\ session_path = "session" => s.disconnect_asked \/ s.state = "gone"
         /\ s # service => session_path = "session" /\ s.disconnect_asked
         /\ s.disconnect_asked \in {service.disconnect_asked, TRUE}
BY DisconnectedType DEF Disconnected, ServiceType

LEMMA NextStaged ==
  ASSUME TypeOK, IInv, Staged, [Next]_vars
  PROVE  Staged'
<1>a. service \in ServiceType
  BY DEF TypeOK, ServiceType
<1>1. ASSUME /\ service'.sessions = service.sessions
             /\ service'.state = service.state
             /\ service'.disconnect_asked = service.disconnect_asked
             /\ service'.been_up = service.been_up
             /\ service'.cut = service.cut,
             pc' \notin {"NewTunnel_reply", "Connect_reply"} \/ pc' = pc,
             session_path' = "session" =>
               session_path = "session" \/ pc = "NewTunnel_reply"
      PROVE  Staged'
  BY <1>1 DEF Staged
<1>2. CASE \/ Import \/ ImportNotReady \/ ImportFails
           \/ NewTunnelReplies \/ NewTunnelFails \/ NewTunnelNotReady
           \/ Introspect \/ IntrospectFails
           \/ \E provided \in SUBSET {"username", "password"} : ReadyPass(provided)
           \/ Subscribe \/ ConnectReplies \/ ConnectFails
  <2>1. /\ service'.sessions = service.sessions
        /\ service'.state = service.state
        /\ service'.disconnect_asked = service.disconnect_asked
        /\ service'.been_up = service.been_up
        /\ service'.cut = service.cut
    BY <1>2, <1>a DEF Import, ImportNotReady, ImportFails, NewTunnelReplies,
       NewTunnelFails, NewTunnelNotReady, Introspect, IntrospectFails, ReadyPass,
       Subscribe, ConnectReplies, ConnectFails, ServiceType
  <2>2. /\ pc' \notin {"NewTunnel_reply", "Connect_reply"}
        /\ session_path' = "session" =>
             session_path = "session" \/ pc = "NewTunnel_reply"
    BY <1>2 DEF Import, ImportNotReady, ImportFails, NewTunnelReplies,
       NewTunnelFails, NewTunnelNotReady, Introspect, IntrospectFails, ReadyPass,
       Subscribe, ConnectReplies, ConnectFails, Again, Proceed
  <2> QED BY <1>1, <2>1, <2>2
<1>3. CASE NewTunnel
  <2>1. /\ service'.sessions = service.sessions + 1 /\ service'.state = "new"
        /\ service'.been_up = service.been_up /\ service'.cut = service.cut
        /\ pc' = "NewTunnel_reply" /\ session_path' = session_path
        /\ service.sessions = 0
    BY <1>3, <1>a DEF NewTunnel, ServiceType, IInv, Created
  <2> QED BY <1>a, <2>1 DEF Staged, ServiceType
<1>4. CASE Connect
  <2>1. /\ service'.sessions = service.sessions /\ service'.state = "started"
        /\ service'.been_up = service.been_up /\ service.state = "new"
        /\ service'.cut = service.cut
        /\ pc' = "Connect_reply" /\ session_path' = session_path
    BY <1>4, <1>a DEF Connect, ServiceType
  <2> QED BY <1>a, <2>1 DEF Staged, ServiceType
<1>5. CASE Dispatch \/ WaitFor \/ PollStatus \/ PollConnectedTo \/ NotYetElapsed
           \/ on_status_change
  <2>1. UNCHANGED <<service, session_path>>
    BY <1>5 DEF Dispatch, WaitFor, PollStatus, PollConnectedTo, NotYetElapsed,
       on_status_change, ToNext
  <2>2. pc' \notin {"NewTunnel_reply", "Connect_reply"} \/ pc' = pc
    BY <1>5 DEF Dispatch, WaitFor, PollStatus, PollConnectedTo, NotYetElapsed,
       on_status_change, ToNext
  <2> QED BY <1>1, <2>1, <2>2
<1>6. CASE Elapsed \/ Outcome \/ Interrupt
  <2>1. service' \in Disconnected \/ service' = service
    BY <1>6 DEF Elapsed, Outcome, Interrupt
  <2>2. UNCHANGED session_path /\ pc' \notin {"NewTunnel_reply", "Connect_reply"}
    BY <1>6 DEF Elapsed, Outcome, Interrupt, ToNext
  <2>3. CASE service' = service
    BY <1>1, <2>2, <2>3
  <2>4. CASE service' # service
    <3>1. service' \in Disconnected
      BY <2>1, <2>4
    <3>2. /\ service'.sessions = service.sessions
          /\ service'.been_up = service.been_up /\ service'.cut = service.cut
          /\ service'.state \in {service.state, "gone"}
          /\ session_path = "session"
      BY <1>a, <2>4, <3>1, DisconnectedFields
    <3>3. service.sessions > 0 /\ service.sessions \in Nat
      BY <1>a, <3>2 DEF Staged, ServiceType
    <3> QED BY <2>2, <3>2, <3>3 DEF Staged
  <2> QED BY <2>3, <2>4
<1>7. CASE BackendStep
  <2>1. PICK k \in BackendKinds : BackendGoes(k[1], k[2], k[3])
    BY <1>7, BackendStepKinds
  <2>2. /\ service'.sessions = service.sessions
        /\ service'.state = k[2] /\ service.state \in k[1]
        /\ service'.disconnect_asked = service.disconnect_asked
        /\ service'.been_up <=> service.been_up \/ k[2] = "up"
        /\ service'.cut <=> service.cut \/ (k[2] = "down" /\ ~service.been_up)
    BY <1>a, <2>1, BackendWrites
  <2>3. UNCHANGED <<pc, session_path>>
    BY <2>1 DEF BackendGoes
  <2>4. /\ "absent" \notin k[1] /\ "gone" \notin k[1]
        /\ k[2] \in {"up", "failed", "down", "gone"}
        /\ k[2] \in {"up", "failed"} => k[1] = {"started"}
    BY DEF BackendKinds
  <2>5. service'.cut => service'.state \in {"down", "gone"} /\ ~service'.been_up
    BY <2>2, <2>4 DEF Staged
  <2>6. /\ service'.state \in {"absent", "new", "started", "failed"} =>
             ~service'.been_up
        /\ service'.state \notin {"absent", "new"}
    BY <2>2, <2>4 DEF Staged
  <2>7. service.sessions = 0 => service.state = "absent"
    BY DEF Staged
  <2>8. service'.sessions # 0
    BY <2>2, <2>4, <2>7
  <2> QED BY <2>2, <2>3, <2>5, <2>6, <2>8 DEF Staged
<1>8. CASE Finished \/ UNCHANGED vars
  BY <1>1, <1>8 DEF Finished, vars
<1> QED
  BY <1>2, <1>3, <1>4, <1>5, <1>6, <1>7, <1>8 DEF Next, ClientStep

-----------------------------------------------------------------------------
(* The steps.                                                              *)

\* Steps of PhaseTwo, in terms of the state of DBusClient.
PhaseStep ==
  LET to(p)  == Call(pc') = p
      stays  == Session(service') = Session(service) /\ clean' = clean
      over   == Session(service') \in {Session(service), Phase!Over(Session(service))}
  IN  \/ Call(pc) = "asking" /\ to("asking") /\ Session(service) = "none"
           /\ Session(service') = "started" /\ clean' = clean
      \/ Call(pc) = "asking" /\ to("waiting") /\ Session(service) # "none" /\ stays
      \/ Call(pc) = "asking" /\ to("threw") /\ stays
      \/ Call(pc) = "waiting" /\ to("returned") /\ stays
           /\ Session(service) \in Phase!Tunnels
      \/ Call(pc) = "waiting" /\ to("threw") /\ over /\ clean' = TRUE
      \/ Call(pc) \in {"asking", "waiting"} /\ to("stopped") /\ over
           /\ clean' \in {clean, TRUE} /\ (Call(pc) = "waiting" => clean')
      \/ Call(pc) = Call(pc') /\ Session(service) = "started"
           /\ Session(service') \in {"up", "cut"} /\ clean' = clean
      \/ Call(pc) = Call(pc') /\ Session(service') = Phase!Over(Session(service))
           /\ clean' \in {clean, TRUE}
      \/ Call(pc) = Call(pc') /\ stays

LEMMA PhaseSteps == PhaseStep => [Phase!Next]_(Phase!vars)
<1>1. clean \in BOOLEAN /\ clean' \in BOOLEAN
  BY DEF clean
<1> QED
  BY <1>1, CallOf, SessionOf DEF PhaseStep, clean, Phase!Next, Phase!vars,
     Phase!Connect, Phase!Accepted, Phase!Refused, Phase!Succeeds, Phase!Fails,
     Phase!Stops, Phase!Backend

\* A session that is gone is over.
LEMMA GoneIsOver ==
  ASSUME NEW s \in ServiceType, NEW t \in ServiceType,
         t.been_up = s.been_up, t.cut = s.cut, t.state \in {s.state, "gone"}
  PROVE  /\ t.state = "gone" => Session(t) = Phase!Over(Session(s))
         /\ t.state = s.state => Session(t) = Session(s)
<1>1. s.been_up \in BOOLEAN /\ s.cut \in BOOLEAN
  BY DEF ServiceType
<1>2. ASSUME t.state = "gone" PROVE Session(t) = Phase!Over(Session(s))
  <2>1. CASE s.been_up
    BY <1>2, <2>1 DEF Session, Phase!Over
  <2>2. CASE ~s.been_up /\ s.cut
    <3>1. Session(s) = "cut" /\ Session(t) = "cut"
      BY <2>2, Sessions
    <3> QED BY <3>1 DEF Phase!Over
  <2>3. CASE ~s.been_up /\ ~s.cut
    <3>1. Session(t) = "failed"
      BY <1>2, <2>3, Sessions
    <3>2. Session(s) \notin {"up", "down", "cut"}
      BY <2>3, Sessions
    <3> QED BY <3>1, <3>2 DEF Phase!Over
  <2> QED BY <1>1, <2>1, <2>2, <2>3
<1>3. t.state = s.state => Session(t) = Session(s)
  BY DEF Session
<1> QED
  BY <1>2, <1>3

\* Up to the reply of Connect, Connect and its reply apart: nothing, or the
\* call fails.
LEMMA MapsConversation ==
  ASSUME TypeOK, IInv, Staged,
         \/ Import \/ ImportNotReady \/ ImportFails
         \/ NewTunnel \/ NewTunnelReplies \/ NewTunnelFails \/ NewTunnelNotReady
         \/ Introspect \/ IntrospectFails
         \/ \E provided \in SUBSET {"username", "password"} : ReadyPass(provided)
         \/ Subscribe \/ ConnectFails
  PROVE  PhaseStep
<1>a. service \in ServiceType
  BY DEF TypeOK, ServiceType
<1>1. pc \in Asking /\ pc' \in Asking \cup {"threw", "crashed"}
  BY DEF Import, ImportNotReady, ImportFails, NewTunnel, NewTunnelReplies,
     NewTunnelFails, NewTunnelNotReady, Introspect, IntrospectFails, ReadyPass,
     Subscribe, ConnectFails, Again, Proceed, Asking
<1>2. /\ service'.been_up = service.been_up /\ service'.cut = service.cut
      /\ service'.disconnect_asked = service.disconnect_asked
      /\ \/ service'.state = service.state
         \/ service.state = "absent" /\ service'.state = "new"
  <2>1. CASE NewTunnel
    <3>1. service.sessions = 0
      BY <2>1 DEF NewTunnel, IInv, Created
    <3> QED BY <1>a, <2>1, <3>1 DEF NewTunnel, Staged, ServiceType
  <2> QED
    BY <1>a, <2>1 DEF Import, ImportNotReady, ImportFails, NewTunnelReplies,
       NewTunnelFails, NewTunnelNotReady, Introspect, IntrospectFails, ReadyPass,
       Subscribe, ConnectFails, ServiceType
<1>3. Session(service') = Session(service) /\ clean' = clean
  <2>1. CASE service'.state = service.state
    BY <1>2, <2>1 DEF Session, clean
  <2>2. CASE service.state = "absent" /\ service'.state = "new"
    <3>1. ~service.been_up /\ ~service.cut
      BY <2>2 DEF Staged
    <3> QED BY <1>2, <2>2, <3>1 DEF Session, clean
  <2> QED BY <1>2, <2>1, <2>2
<1>4. Call(pc) = "asking" /\ Call(pc') \in {"asking", "threw", "stopped"}
  BY <1>1, Calls
<1>5. clean' \in {clean, TRUE}
  BY <1>3
<1> QED
  BY <1>3, <1>4, <1>5 DEF PhaseStep

\* Connect and its reply.
LEMMA MapsConnect ==
  ASSUME TypeOK, Staged, Connect \/ ConnectReplies
  PROVE  PhaseStep
<1>a. service \in ServiceType
  BY DEF TypeOK, ServiceType
<1>1. CASE Connect
  <2>1. /\ pc = "Connect" /\ pc' = "Connect_reply"
        /\ service.state = "new" /\ service'.state = "started"
        /\ service'.been_up = service.been_up /\ service'.cut = service.cut
        /\ service'.disconnect_asked = service.disconnect_asked
    BY <1>a, <1>1 DEF Connect, ServiceType
  <2>2. ~service.been_up /\ ~service.cut
    BY <2>1 DEF Staged
  <2>3. /\ Session(service) = "none" /\ Session(service') = "started"
        /\ clean' = clean
    BY <2>1, <2>2 DEF Session, clean
  <2>4. Call(pc) = "asking" /\ Call(pc') = "asking"
    BY <2>1, Calls DEF Asking
  <2> QED BY <2>3, <2>4 DEF PhaseStep
<1>2. CASE ConnectReplies
  <2>1. /\ pc = "Connect_reply" /\ pc' = "dispatch"
        /\ service'.state = service.state
        /\ service'.been_up = service.been_up /\ service'.cut = service.cut
        /\ service'.disconnect_asked = service.disconnect_asked
    BY <1>a, <1>2 DEF ConnectReplies, Proceed, ServiceType
  <2>2. service.state \notin {"absent", "new"} /\ service.been_up \in BOOLEAN
    BY <1>a, <2>1 DEF Staged, ServiceType
  <2>3. /\ Session(service) # "none" /\ Session(service') = Session(service)
        /\ clean' = clean
    BY <2>1, <2>2 DEF Session, clean
  <2>4. Call(pc) = "asking" /\ Call(pc') = "waiting"
    BY <2>1, Calls DEF Asking, Loop
  <2> QED BY <2>3, <2>4 DEF PhaseStep
<1> QED
  BY <1>1, <1>2

\* The wait loop until its end, and the handlers: nothing.
LEMMA MapsWaiting ==
  ASSUME TypeOK,
         \/ Dispatch \/ WaitFor \/ PollStatus \/ PollConnectedTo
         \/ NotYetElapsed \/ on_status_change
  PROVE  PhaseStep
<1>1. service' = service
  BY DEF Dispatch, WaitFor, PollStatus, PollConnectedTo, NotYetElapsed,
     on_status_change
<1>2. pc' = pc \/ (pc \in Loop /\ pc' \in Loop)
  BY DEF Dispatch, WaitFor, PollStatus, PollConnectedTo, NotYetElapsed,
     on_status_change, ToNext, Loop
<1>3. Call(pc') = Call(pc)
  BY <1>2, Calls
<1>4. Session(service') = Session(service) /\ clean' = clean
  BY <1>1 DEF clean
<1> QED
  BY <1>3, <1>4 DEF PhaseStep

\* The ends of the wait loop, and the signal handler.
LEMMA MapsEnds ==
  ASSUME TypeOK, IInv, Confirmed, Elapsed \/ Outcome \/ Interrupt
  PROVE  PhaseStep
<1>a. service \in ServiceType
  BY DEF TypeOK, ServiceType
<1>1. ASSUME service' \in Disconnected
      PROVE  /\ Session(service') \in
                  {Session(service), Phase!Over(Session(service))}
             /\ clean' \in {clean, TRUE}
             /\ session_path = "session" => clean' = TRUE
  <2>1. /\ service' \in ServiceType
        /\ service'.been_up = service.been_up /\ service'.cut = service.cut
        /\ service'.state \in {service.state, "gone"}
        /\ session_path = "session" =>
             service'.disconnect_asked \/ service'.state = "gone"
        /\ service' # service => session_path = "session"
    BY <1>a, <1>1, DisconnectedFields
  <2>2. Session(service') \in {Session(service), Phase!Over(Session(service))}
    BY <1>a, <2>1, GoneIsOver
  <2>3. session_path = "session" => clean' = TRUE
    BY <2>1 DEF clean
  <2>4. service' = service => clean' = clean
    BY DEF clean
  <2> QED BY <2>1, <2>2, <2>3, <2>4
<1>2. CASE Elapsed \/ (Outcome /\ failed)
  <2>1. /\ pc \in Loop /\ pc' = "threw" /\ service' \in Disconnected
    BY <1>2 DEF Elapsed, Outcome, ToNext, Loop
  <2>2. session_path = "session"
    BY <2>1 DEF IInv, PathKnown
  <2>3. Call(pc) = "waiting" /\ Call(pc') = "threw"
    BY <2>1, Calls
  <2> QED BY <1>1, <2>1, <2>2, <2>3 DEF PhaseStep
<1>3. CASE Outcome /\ ~failed
  <2>1. /\ pc = "outcome" /\ pc' = "returned" /\ service' = service
    BY <1>3 DEF Outcome, ToNext
  <2>2. Deserved
    BY <1>3, <2>1 DEF Confirmed
  <2>3. Session(service) \in Phase!Tunnels
    <3>1. CASE service.been_up
      <4>1. Session(service) \in {"up", "down"}
        BY <1>a, <3>1, Sessions
      <4> QED BY <4>1 DEF Phase!Tunnels
    <3>2. CASE ~service.been_up
      <4>1. service.cut /\ "UPPERCASE" \in Wordings
        BY <2>2, <3>2 DEF Deserved, Misread, TypeOK
      <4>2. Session(service) = "cut"
        BY <1>a, <3>2, <4>1, Sessions
      <4> QED BY <4>1, <4>2 DEF Phase!Tunnels
    <3> QED BY <3>1, <3>2
  <2>4. Call(pc) = "waiting" /\ Call(pc') = "returned"
    BY <2>1, Calls DEF Loop
  <2>5. Session(service') = Session(service) /\ clean' = clean
    BY <2>1 DEF clean
  <2> QED BY <2>3, <2>4, <2>5 DEF PhaseStep
<1>4. CASE Interrupt
  <2>1. /\ pc \in Asking \cup Loop /\ pc' = "interrupted"
        /\ service' \in Disconnected
    BY <1>4, Places DEF Interrupt, TypeOK
  <2>2. /\ Call(pc) \in {"asking", "waiting"} /\ Call(pc') = "stopped"
        /\ Call(pc) = "waiting" => pc \in Loop
    BY <2>1, Calls
  <2>3. pc \in Loop => session_path = "session"
    BY DEF IInv, PathKnown
  <2>4. Call(pc) = "waiting" => clean'
    BY <1>1, <2>1, <2>2, <2>3
  <2>5. /\ Session(service') \in {Session(service), Phase!Over(Session(service))}
        /\ clean' \in {clean, TRUE}
    BY <1>1, <2>1
  <2> QED BY <2>2, <2>4, <2>5 DEF PhaseStep
<1>5. failed \in BOOLEAN
  BY DEF TypeOK
<1> QED
  BY <1>2, <1>3, <1>4, <1>5

\* The services.
LEMMA MapsBackend ==
  ASSUME TypeOK, Confirmed, Staged, BackendStep
  PROVE  PhaseStep
<1>a. service \in ServiceType
  BY DEF TypeOK, ServiceType
<1>1. PICK k \in BackendKinds : BackendGoes(k[1], k[2], k[3])
  BY BackendStepKinds
<1>2. /\ service.state \in k[1] /\ service'.state = k[2]
      /\ service'.disconnect_asked = service.disconnect_asked
      /\ service'.been_up <=> service.been_up \/ k[2] = "up"
      /\ service'.cut <=> service.cut \/ (k[2] = "down" /\ ~service.been_up)
      /\ {service'.been_up, service'.cut} \subseteq BOOLEAN
  BY <1>a, <1>1, BackendWrites
<1>3. /\ {service.been_up, service.cut} \subseteq BOOLEAN
      /\ service.state = "up" => service.been_up
      /\ service.cut => service.state \in {"down", "gone"} /\ ~service.been_up
  BY <1>a DEF ServiceType, Confirmed, Staged
<1>4. Call(pc') = Call(pc)
  BY <1>1 DEF BackendGoes
<1>5. CASE k[2] = "up"
  <2>1. k[1] = {"started"}
    BY <1>5 DEF BackendKinds
  <2>2. clean' = clean
    BY <1>2, <1>5, <2>1 DEF clean
  <2>3. ~service.been_up /\ ~service.cut
    BY <1>2, <2>1 DEF Staged
  <2>4. Session(service) = "started" /\ Session(service') = "up"
    BY <1>2, <1>5, <2>1, <2>3 DEF Session
  <2> QED BY <1>4, <2>2, <2>4 DEF PhaseStep
<1>6. CASE k[2] = "down" /\ ~service.been_up
  <2>1. k[1] = {"up", "started"} /\ service.state = "started"
    BY <1>2, <1>3, <1>6 DEF BackendKinds
  <2>2. Session(service) = "started" /\ Session(service') = "cut"
    BY <1>2, <1>3, <1>6, <2>1 DEF Session
  <2>3. clean' = clean
    BY <1>2, <1>6, <2>1 DEF clean
  <2> QED BY <1>4, <2>2, <2>3 DEF PhaseStep
<1>7. CASE k[2] # "up" /\ ~(k[2] = "down" /\ ~service.been_up)
  <2>1. /\ k[2] \in {"failed", "down", "gone"}
        /\ k[2] = "failed" => k[1] = {"started"}
        /\ "absent" \notin k[1] /\ "gone" \notin k[1]
        /\ k[2] = "down" => "new" \notin k[1]
    BY <1>7 DEF BackendKinds
  <2>2. /\ service'.been_up <=> service.been_up
        /\ service'.cut <=> service.cut
    BY <1>2, <1>7
  <2>3. Session(service') = Phase!Over(Session(service))
    <3>1. CASE service.been_up
      BY <1>2, <1>7, <2>2, <3>1 DEF Session, Phase!Over
    <3>2. CASE ~service.been_up /\ service.cut
      <4>1. Session(service) = "cut"
        BY <3>2 DEF Session
      <4>2. ~service'.been_up /\ service'.cut
        BY <2>2, <3>2
      <4>3. Session(service') = "cut"
        BY <4>2 DEF Session
      <4> QED BY <4>1, <4>3 DEF Phase!Over
    <3>3. CASE ~service.been_up /\ ~service.cut
      BY <1>2, <1>3, <1>7, <2>1, <2>2, <3>3 DEF Session, Phase!Over
    <3> QED BY <1>3, <3>1, <3>2, <3>3
  <2>4. clean' \in {clean, TRUE}
    BY <1>2, <2>1 DEF clean
  <2> QED BY <1>4, <2>3, <2>4 DEF PhaseStep
<1> QED
  BY <1>5, <1>6, <1>7

\* A step in which nothing changes, or the conversation is over.
LEMMA MapsStutter ==
  ASSUME Finished \/ UNCHANGED vars
  PROVE  PhaseStep
<1>1. pc' = pc /\ service' = service
  BY DEF Finished, vars
<1>2. /\ Call(pc') = Call(pc) /\ Session(service') = Session(service)
      /\ clean' = clean
  BY <1>1 DEF clean
<1> QED
  BY <1>2 DEF PhaseStep

LEMMA MapsSteps ==
  ASSUME TypeOK, IInv, Confirmed, Staged, [Next]_vars
  PROVE  [Phase!Next]_(Phase!vars)
<1>1. PhaseStep
  BY MapsConversation, MapsConnect, MapsWaiting, MapsEnds, MapsBackend, MapsStutter
     DEF Next, ClientStep
<1> QED
  BY <1>1, PhaseSteps

LEMMA MapsInit == Init => Phase!Init
<1> SUFFICES ASSUME Init PROVE Phase!Init
  OBVIOUS
<1>1. /\ pc = "Import" /\ service.state = "absent"
      /\ service.disconnect_asked = FALSE /\ service.been_up = FALSE
      /\ service.cut = FALSE
  BY DEF Init
<1>2. phase_call = "asking"
  BY <1>1, CallOf, Calls DEF Asking
<1>3. phase_session = "none"
  BY <1>1, SessionOf DEF Session
<1> QED
  BY <1>1, <1>2, <1>3 DEF Phase!Init

-----------------------------------------------------------------------------

\* The conversation is the one call of PhaseTwo, its safety part: any number of
\* tries, passes and signals, any order of them, and any wording.
THEOREM PhaseTwoRefinement == Spec => Phase!Safety
<1>1. IInv /\ Staged /\ [Next]_vars => Staged'
  BY NextStaged DEF IInv
<1>2. IInv /\ TypeOK /\ Confirmed /\ Staged /\ [Next]_vars
        => [Phase!Next]_(Phase!vars)
  BY MapsSteps
<1> QED
  BY <1>1, <1>2, InitStaged, MapsInit, Invariance, OnlyConfirmed, PTL
     DEF Spec, Phase!Safety

=============================================================================
