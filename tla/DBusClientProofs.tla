--------------------------- MODULE DBusClientProofs ---------------------------
(***************************************************************************)
(* Proofs about Phase 2 through the D-Bus services, for any number of      *)
(* tries and passes and whoever dispatches the signals.                    *)
(***************************************************************************)
EXTENDS DBusClient, TLAPS

-----------------------------------------------------------------------------
(* The inductive invariant.                                                *)

\* The wait loop.
Loop == {"dispatch", "wait_for", "poll_status", "poll_connected_to",
         "elapsed", "outcome"}

\* What is imported and created, by where the conversation stands.
Created ==
  /\ pc = "Import" => service.configs = 0
  /\ pc \in {"Import", "NewTunnel"} => service.sessions = 0
  /\ RetriesAreSafe

\* From Ready on, the path is that of the session.
PathKnown ==
  pc \in {"Ready", "Subscribe", "Connect", "Connect_reply"} \cup Loop =>
    session_path = "session"

\* An accepted attempt waits for its outcome or has come to its end.
Accepted ==
  /\ service.accepted => pc \in Loop \cup Ends /\ session_path = "session"
  /\ AcceptedAttemptIsCleanedUp

\* Before Connect the backend has nothing to report but the end.
Reported ==
  /\ pc \in {"Import", "NewTunnel", "NewTunnel_reply", "Introspect", "Ready",
             "Subscribe"} =>
       ~service.forwarding /\ service.state \in {"absent", "new", "gone"}
  /\ pc = "Connect" => service.state \in {"absent", "new", "gone"}
  /\ service.forwarding => subscribed
  /\ NoMissedOutcome

IInv == TypeOK /\ Created /\ PathKnown /\ Accepted /\ Reported

\* What is taken for connected has been up, or is the cut that services which
\* write in capitals announce; so has everything that will be taken for it.
Deserved == service.been_up \/ Misread

Confirmed ==
  /\ service.state = "up" => service.been_up
  /\ service.state = "down" => service.been_up \/ service.cut
  /\ connected => Deserved
  /\ \A i \in DOMAIN inbox :
       /\ inbox[i].status = "connected" => service.been_up
       /\ inbox[i].status = "disconnected" => service.been_up \/ service.cut
  /\ pc = "outcome" => connected \/ failed
  /\ ConfirmedByBackend

-----------------------------------------------------------------------------
(* Type correctness.                                                       *)

ServiceType ==
  [configs : Nat, sessions : Nat, creds : SUBSET {"username", "password"},
   state : {"absent", "new", "started", "up", "failed", "down", "gone"},
   forwarding : BOOLEAN, accepted : BOOLEAN, been_up : BOOLEAN,
   cut : BOOLEAN, disconnect_asked : BOOLEAN]

\* What the services do to themselves.
LEMMA ServiceFields ==
  ASSUME NEW r \in ServiceType
  PROVE  /\ [r EXCEPT !.configs = @ + 1] \in ServiceType
         /\ [r EXCEPT !.sessions = @ + 1, !.state = "new"] \in ServiceType
         /\ \A c \in SUBSET {"username", "password"} :
              [r EXCEPT !.creds = c] \in ServiceType
         /\ [r EXCEPT !.forwarding = TRUE] \in ServiceType
         /\ [r EXCEPT !.state = "started"] \in ServiceType
         /\ [r EXCEPT !.accepted = TRUE] \in ServiceType
         /\ [r EXCEPT !.disconnect_asked = TRUE] \in ServiceType
         /\ [r EXCEPT !.disconnect_asked = TRUE, !.state = "gone"] \in ServiceType
<1>1. [r EXCEPT !.configs = @ + 1] \in ServiceType
  BY DEF ServiceType
<1>2. [r EXCEPT !.sessions = @ + 1, !.state = "new"] \in ServiceType
  <2>1. \A n \in Nat : [r EXCEPT !.sessions = n, !.state = "new"] \in ServiceType
    BY DEF ServiceType
  <2>2. r.sessions + 1 \in Nat
    BY DEF ServiceType
  <2> QED BY <2>1, <2>2
<1>3. \A c \in SUBSET {"username", "password"} :
        [r EXCEPT !.creds = c] \in ServiceType
  BY DEF ServiceType
<1>4. /\ [r EXCEPT !.forwarding = TRUE] \in ServiceType
      /\ [r EXCEPT !.state = "started"] \in ServiceType
      /\ [r EXCEPT !.accepted = TRUE] \in ServiceType
  BY DEF ServiceType
<1>5. /\ [r EXCEPT !.disconnect_asked = TRUE] \in ServiceType
      /\ [r EXCEPT !.disconnect_asked = TRUE, !.state = "gone"] \in ServiceType
  BY DEF ServiceType
<1> QED
  BY <1>1, <1>2, <1>3, <1>4, <1>5

LEMMA BackendFields ==
  ASSUME NEW r \in ServiceType, NEW to \in {"up", "failed", "down", "gone"},
         NEW up \in BOOLEAN, NEW cut \in BOOLEAN
  PROVE  [r EXCEPT !.state = to, !.been_up = up, !.cut = cut] \in ServiceType
BY DEF ServiceType

\* The fields the services write, and those they leave alone.
LEMMA BackendWrites ==
  ASSUME service \in ServiceType, NEW from, NEW to, NEW status,
         BackendGoes(from, to, status)
  PROVE  /\ service.state \in from /\ service'.state = to
         /\ service'.been_up <=> service.been_up \/ to = "up"
         /\ service'.cut <=> service.cut \/ (to = "down" /\ ~service.been_up)
         /\ {service'.been_up, service'.cut} \subseteq BOOLEAN
         /\ service'.sessions = service.sessions
         /\ service'.disconnect_asked = service.disconnect_asked
         /\ service'.accepted = service.accepted
         /\ service'.forwarding = service.forwarding
         /\ service'.configs = service.configs
         /\ service'.creds = service.creds
<1>1. /\ service.state \in from
      /\ service' = [service EXCEPT
                      !.state = to,
                      !.been_up = service.been_up \/ to = "up",
                      !.cut = service.cut \/ (to = "down" /\ ~service.been_up)]
  BY DEF BackendGoes
<1> QED
  BY <1>1 DEF ServiceType

LEMMA DisconnectedType ==
  ASSUME service \in ServiceType, NEW s \in Disconnected
  PROVE  s \in ServiceType
BY ServiceFields DEF Disconnected

LEMMA InitType == Init => TypeOK
<1> SUFFICES ASSUME Init PROVE TypeOK
  OBVIOUS
<1>1. 0 \in 0..WaitPasses
  BY DBusClientAssumption
<1>2. inbox \in Seq(Signals)
  <2>1. <<>> \in Seq(Signals)
    OBVIOUS
  <2> QED BY <2>1 DEF Init
<1> QED
  BY <1>1, <1>2 DEF Init, TypeOK, Points

\* Up to the call of Connect.
LEMMA SetupType ==
  ASSUME TypeOK, UNCHANGED site,
         \/ Import \/ ImportNotReady \/ ImportFails
         \/ NewTunnel \/ NewTunnelReplies \/ NewTunnelFails \/ NewTunnelNotReady
         \/ Introspect \/ IntrospectFails
         \/ \E provided \in SUBSET {"username", "password"} : ReadyPass(provided)
         \/ Subscribe \/ Connect \/ ConnectReplies \/ ConnectFails
  PROVE  TypeOK'
<1>a. service \in ServiceType
  BY DEF TypeOK, ServiceType
<1>0. service \in ServiceType => service' \in ServiceType
  <2>1. CASE UNCHANGED service
    BY <2>1
  <2>2. CASE Import \/ ImportFails \/ NewTunnel
    BY <2>2, ServiceFields DEF Import, ImportFails, NewTunnel
  <2>3. ASSUME NEW provided \in SUBSET {"username", "password"},
               ReadyPass(provided), service \in ServiceType
        PROVE  service' \in ServiceType
    <3>1. service.creds \cup provided \in SUBSET {"username", "password"}
      BY <2>3 DEF ServiceType
    <3> QED
      BY <2>3, <3>1, ServiceFields DEF ReadyPass
  <2>4. CASE Subscribe \/ Connect \/ ConnectReplies
    BY <2>4, ServiceFields DEF Subscribe, Connect, ConnectReplies
  <2> QED
    BY <2>1, <2>2, <2>3, <2>4
       DEF ImportNotReady, NewTunnelReplies, NewTunnelFails,
           NewTunnelNotReady, Introspect, IntrospectFails, ConnectFails
<1>1. service' \in ServiceType
  BY <1>a, <1>0
<1>2. pc' \in Points
  BY DEF Import, ImportNotReady, ImportFails, NewTunnel,
         NewTunnelReplies, NewTunnelFails, NewTunnelNotReady, Introspect,
         IntrospectFails, ReadyPass, Subscribe, Connect, ConnectReplies,
         ConnectFails, Again, Proceed, TypeOK, Points, Ends
<1>4. tries' \in Nat
  <2>1. tries \in Nat
    BY DEF TypeOK
  <2>2. \A n, after : Again(n, after) => tries' \in Nat
    BY <2>1 DEF Again
  <2>3. \A next : Proceed(next) => tries' \in Nat
    BY DEF Proceed
  <2> QED
    BY <2>1, <2>2, <2>3
       DEF Import, ImportNotReady, ImportFails, NewTunnel,
           NewTunnelReplies, NewTunnelFails, NewTunnelNotReady, Introspect,
           IntrospectFails, ReadyPass, Subscribe, Connect, ConnectReplies,
           ConnectFails
<1>5. session_path' \in {"", "session", "garbage"}
  BY DEF Import, ImportNotReady, ImportFails, NewTunnel,
         NewTunnelReplies, NewTunnelFails, NewTunnelNotReady, Introspect,
         IntrospectFails, ReadyPass, Subscribe, Connect, ConnectReplies,
         ConnectFails, TypeOK
<1>3. /\ passes' = passes /\ inbox' = inbox
      /\ connected' = connected /\ failed' = failed
      /\ subscribed' \in BOOLEAN
  BY DEF Import, ImportNotReady, ImportFails, NewTunnel,
     NewTunnelReplies, NewTunnelFails, NewTunnelNotReady, Introspect,
     IntrospectFails, ReadyPass, Subscribe, Connect, ConnectReplies,
     ConnectFails, conversation, TypeOK
<1> QED
  BY <1>1, <1>2, <1>3, <1>4, <1>5 DEF TypeOK, ServiceType

\* The wait loop and the handlers.
LEMMA WaitType ==
  ASSUME TypeOK, UNCHANGED site,
         \/ Dispatch \/ WaitFor \/ PollStatus \/ PollConnectedTo
         \/ NotYetElapsed \/ Elapsed \/ Outcome
         \/ on_status_change \/ Interrupt
  PROVE  TypeOK'
<1>a. service \in ServiceType
  BY DEF TypeOK, ServiceType
<1>1. service' \in ServiceType
  BY <1>a, DisconnectedType
     DEF Dispatch, WaitFor, PollStatus, PollConnectedTo, NotYetElapsed,
         Elapsed, Outcome, on_status_change, Interrupt
<1>2. /\ pc' \in Points
      /\ tries' = tries /\ session_path' = session_path
      /\ subscribed' = subscribed
  BY DEF Dispatch, WaitFor, PollStatus, PollConnectedTo, NotYetElapsed,
         Elapsed, Outcome, on_status_change, Interrupt, ToNext, conversation,
         Points, Ends, TypeOK
<1>3. connected' \in BOOLEAN /\ failed' \in BOOLEAN
  BY DEF Dispatch, WaitFor, PollStatus, PollConnectedTo, NotYetElapsed,
         Elapsed, Outcome, on_status_change, Interrupt, conversation, TypeOK
<1>4. passes' \in 0..WaitPasses
  <2>1. passes \in 0..WaitPasses /\ WaitPasses \in Nat
    BY DBusClientAssumption DEF TypeOK
  <2>2. CASE NotYetElapsed
    BY <2>1, <2>2 DEF NotYetElapsed
  <2> QED
    BY <2>1, <2>2
       DEF Dispatch, WaitFor, PollStatus, PollConnectedTo, Elapsed, Outcome,
           on_status_change, Interrupt, conversation
<1>5. inbox' \in Seq(Signals)
  <2>1. inbox \in Seq(Signals)
    BY DEF TypeOK
  <2>2. CASE on_status_change
    BY <2>1, <2>2 DEF on_status_change
  <2> QED
    BY <2>1, <2>2
       DEF Dispatch, WaitFor, PollStatus, PollConnectedTo, NotYetElapsed,
           Elapsed, Outcome, Interrupt, conversation
<1> QED
  BY <1>1, <1>2, <1>3, <1>4, <1>5 DEF TypeOK, ServiceType

\* The services: the state before, the one after, and its signals.
BackendKinds ==
  {<<{"started"}, "up", "connected">>, <<{"started"}, "failed", "failed">>,
   <<{"up", "started"}, "down", "disconnected">>,
   <<{"new", "started", "failed", "down"}, "gone", "completed">>}

LEMMA BackendStepKinds ==
  ASSUME BackendStep
  PROVE  \E k \in BackendKinds : BackendGoes(k[1], k[2], k[3])
BY DEF BackendStep, BackendKinds, BackendConnects, BackendFails,
       BackendDisconnects, BackendEnds

\* Only a session that comes up is called connected.
LEMMA OnlyUpIsConnected ==
  ASSUME NEW k \in BackendKinds, k[3] = "connected"
  PROVE  k[2] = "up"
<1>1. CASE k = <<{"started"}, "up", "connected">>
  BY <1>1
<1>2. CASE k = <<{"started"}, "failed", "failed">>
  BY <1>2
<1>3. CASE k = <<{"up", "started"}, "down", "disconnected">>
  BY <1>3
<1>4. CASE k = <<{"new", "started", "failed", "down"}, "gone", "completed">>
  BY <1>4
<1> QED
  BY <1>1, <1>2, <1>3, <1>4 DEF BackendKinds

\* What a subscriber gets for a status: lines and changes of that status.
LEMMA Emitted ==
  ASSUME TypeOK, NEW status \in Statuses, Emit(status)
  PROVE  \E out \in Seq(Signals) :
           /\ inbox' = inbox \o out
           /\ \A i \in DOMAIN out : out[i].status = status
           /\ subscribed /\ service.forwarding =>
                \E i \in DOMAIN out : out[i] = [name |-> "StatusChange", status |-> status]
<1> DEFINE change == [name |-> "StatusChange", status |-> status]
           line == [name |-> "Log", status |-> status]
<1>1. change \in Signals /\ line \in Signals
  BY DEF Signals
<1> HIDE DEF change, line
<1>2. /\ <<change>> \in Seq(Signals) /\ <<line>> \in Seq(Signals)
      /\ <<change, line>> \in Seq(Signals) /\ <<line, change>> \in Seq(Signals)
      /\ <<>> \in Seq(Signals)
  BY <1>1
<1>3. change.status = status /\ line.status = status
  BY DEF change, line
<1>4. CASE ~subscribed
  <2>1. inbox' = inbox /\ inbox \in Seq(Signals)
    BY <1>4 DEF Emit, TypeOK
  <2>2. inbox = inbox \o <<>>
    BY <2>1
  <2>3. DOMAIN <<>> = {}
    OBVIOUS
  <2> WITNESS <<>> \in Seq(Signals)
  <2> QED
    BY <1>4, <2>1, <2>2, <2>3
<1>5. CASE subscribed
  <2>1. PICK out \in {<<change>>, <<change, line>>, <<line, change>>}
                     \cup (IF service.forwarding THEN {} ELSE {<<>>, <<line>>}) :
          inbox' = inbox \o out
    BY <1>5 DEF Emit, change, line
  <2>2. CASE out = <<change>>
    <3>1. \A i \in DOMAIN out : out[i].status = status
      BY <1>3, <2>2
    <3>2. 1 \in DOMAIN out /\ out[1] = change
      BY <2>2
    <3> QED
      BY <1>2, <2>1, <2>2, <3>1, <3>2 DEF change
  <2>3. CASE out = <<change, line>>
    <3>1. \A i \in DOMAIN out : out[i].status = status
      BY <1>3, <2>3
    <3>2. 1 \in DOMAIN out /\ out[1] = change
      BY <2>3
    <3> QED
      BY <1>2, <2>1, <2>3, <3>1, <3>2 DEF change
  <2>4. CASE out = <<line, change>>
    <3>1. \A i \in DOMAIN out : out[i].status = status
      BY <1>3, <2>4
    <3>2. 2 \in DOMAIN out /\ out[2] = change
      BY <2>4
    <3> QED
      BY <1>2, <2>1, <2>4, <3>1, <3>2 DEF change
  <2>5. CASE ~service.forwarding /\ out \in {<<>>, <<line>>}
    <3>1. \A i \in DOMAIN out : out[i].status = status
      BY <1>3, <2>5
    <3> QED
      BY <1>2, <2>1, <2>5, <3>1
  <2> QED
    BY <2>1, <2>2, <2>3, <2>4, <2>5
<1> QED
  BY <1>4, <1>5

LEMMA BackendType ==
  ASSUME TypeOK, UNCHANGED site, BackendStep
  PROVE  TypeOK'
<1>1. PICK k \in BackendKinds : BackendGoes(k[1], k[2], k[3])
  BY BackendStepKinds
<1>2. k[2] \in {"up", "failed", "down", "gone"} /\ k[3] \in Statuses
  BY DEF BackendKinds, Statuses
<1>3. service' \in ServiceType
  <2>1. service \in ServiceType
    BY DEF TypeOK, ServiceType
  <2> QED
    <3>1. (service.been_up \/ k[2] = "up") \in BOOLEAN
      OBVIOUS
    <3>2. (service.cut \/ (k[2] = "down" /\ ~service.been_up)) \in BOOLEAN
      OBVIOUS
    <3> QED
      BY <1>1, <1>2, <2>1, <3>1, <3>2, BackendFields DEF BackendGoes
<1>4. inbox' \in Seq(Signals)
  <2>1. PICK out \in Seq(Signals) : inbox' = inbox \o out
    BY <1>1, <1>2, Emitted DEF BackendGoes
  <2>2. inbox \in Seq(Signals)
    BY DEF TypeOK
  <2> QED
    BY <2>1, <2>2
<1> QED
  BY <1>1, <1>3, <1>4 DEF BackendGoes, TypeOK, ServiceType

LEMMA NextType ==
  ASSUME TypeOK, [Next]_vars
  PROVE  TypeOK'
<1>1. CASE UNCHANGED vars
  BY <1>1 DEF vars, TypeOK
<1> QED
  BY <1>1, SetupType, WaitType, BackendType DEF Next, ClientStep, Finished

-----------------------------------------------------------------------------
(* The conversation.                                                       *)

LEMMA InitIInv == Init => IInv
<1> SUFFICES ASSUME Init PROVE IInv
  OBVIOUS
<1>1. TypeOK
  BY InitType
<1>2. PathKnown
  BY DEF Init, PathKnown, Loop
<1>5. Created
  <2>1. service.configs = 0 /\ service.sessions = 0
    BY DEF Init
  <2> QED BY <2>1 DEF Created, RetriesAreSafe
<1>3. Accepted
  BY DEF Init, Accepted, AcceptedAttemptIsCleanedUp
<1>4. Reported
  BY DEF Init, Reported, NoMissedOutcome
<1> QED
  BY <1>1, <1>2, <1>3, <1>4, <1>5 DEF IInv

\* A retry starts where nothing was executed.
LEMMA NextCreated ==
  ASSUME TypeOK, Created, [Next]_vars
  PROVE  Created'
<1> USE DEF Created, RetriesAreSafe
<1>a. service \in ServiceType
  BY DEF TypeOK, ServiceType
<1>1. CASE Import \/ ImportFails \/ NewTunnel
  <2>1. CASE Import
    BY <1>a, <2>1 DEF Import, Proceed, ServiceType
  <2>2. CASE ImportFails
    BY <1>a, <2>2 DEF ImportFails, Proceed, ServiceType
  <2>3. CASE NewTunnel
    BY <1>a, <2>3 DEF NewTunnel, ServiceType
  <2> QED BY <1>1, <2>1, <2>2, <2>3
<1>2. ASSUME service'.configs = service.configs,
             service'.sessions = service.sessions,
             pc' \in {"Import", "NewTunnel"} => pc = pc' \/ pc = "Import"
      PROVE  Created'
  BY <1>2
<1>3. CASE ImportNotReady \/ NewTunnelNotReady
  <2>1. service' = service
    BY <1>3 DEF ImportNotReady, NewTunnelNotReady
  <2>2. pc' \in {"Import", "NewTunnel"} => pc = pc' \/ pc = "Import"
    BY <1>3 DEF ImportNotReady, NewTunnelNotReady, Again, Proceed
  <2> QED BY <1>2, <2>1, <2>2
<1>4. CASE \/ NewTunnelReplies \/ NewTunnelFails \/ Introspect \/ IntrospectFails
           \/ Subscribe \/ Connect \/ ConnectReplies \/ ConnectFails
           \/ \E provided \in SUBSET {"username", "password"} : ReadyPass(provided)
  <2>1. pc' \notin {"Import", "NewTunnel"}
    BY <1>4 DEF NewTunnelReplies, NewTunnelFails, Introspect, IntrospectFails,
       ReadyPass, Subscribe, Connect, ConnectReplies, ConnectFails, Again,
       Proceed
  <2>2. service'.configs = service.configs /\ service'.sessions = service.sessions
    BY <1>a, <1>4 DEF NewTunnelReplies, NewTunnelFails, Introspect,
       IntrospectFails, ReadyPass, Subscribe, Connect, ConnectReplies,
       ConnectFails, ServiceType
  <2> QED BY <1>2, <2>1, <2>2
<1>5. CASE \/ Dispatch \/ WaitFor \/ PollStatus \/ PollConnectedTo
           \/ NotYetElapsed \/ Elapsed \/ Outcome \/ Interrupt
  <2>1. pc' \notin {"Import", "NewTunnel"}
    BY <1>5 DEF Dispatch, WaitFor, PollStatus, PollConnectedTo, NotYetElapsed,
       Elapsed, Outcome, Interrupt, ToNext
  <2>2. service'.configs = service.configs /\ service'.sessions = service.sessions
    BY <1>a, <1>5 DEF Dispatch, WaitFor, PollStatus, PollConnectedTo,
       NotYetElapsed, Elapsed, Outcome, Interrupt, Disconnected, ServiceType
  <2> QED BY <1>2, <2>1, <2>2
<1>6. CASE on_status_change \/ Finished \/ UNCHANGED vars
  BY <1>2, <1>6 DEF on_status_change, Finished, vars
<1>7. CASE BackendStep
  <2>1. PICK k \in BackendKinds : BackendGoes(k[1], k[2], k[3])
    BY <1>7, BackendStepKinds
  <2> QED BY <1>2, <1>a, <2>1 DEF BackendGoes, ServiceType
<1> QED
  BY <1>1, <1>3, <1>4, <1>5, <1>6, <1>7 DEF Next, ClientStep

\* The path becomes known before anything is done with the session.
LEMMA NextPathKnown ==
  ASSUME TypeOK, PathKnown, [Next]_vars
  PROVE  PathKnown'
<1> USE DEF PathKnown, Loop
<1>1. CASE Import \/ ImportNotReady \/ ImportFails
  BY <1>1 DEF Import, ImportNotReady, ImportFails, Proceed, Again
<1>2. CASE NewTunnel \/ NewTunnelReplies \/ NewTunnelFails \/ NewTunnelNotReady
  BY <1>2 DEF NewTunnel, NewTunnelReplies, NewTunnelFails, NewTunnelNotReady,
     Proceed, Again
<1>3. CASE Introspect \/ IntrospectFails
  BY <1>3 DEF Introspect, IntrospectFails, Proceed, Again
<1>4. CASE \/ \E provided \in SUBSET {"username", "password"} : ReadyPass(provided)
           \/ Subscribe \/ Connect \/ ConnectReplies \/ ConnectFails
  BY <1>4 DEF ReadyPass, Subscribe, Connect, ConnectReplies, ConnectFails,
     Proceed, Again
<1>5. CASE \/ Dispatch \/ WaitFor \/ PollStatus \/ PollConnectedTo
           \/ NotYetElapsed \/ Elapsed \/ Outcome \/ Interrupt
  BY <1>5 DEF Dispatch, WaitFor, PollStatus, PollConnectedTo, NotYetElapsed,
     Elapsed, Outcome, Interrupt, ToNext
<1>6. CASE on_status_change \/ Finished \/ UNCHANGED vars
  BY <1>6 DEF on_status_change, Finished, vars
<1>7. CASE BackendStep
  <2>1. PICK k \in BackendKinds : BackendGoes(k[1], k[2], k[3])
    BY <1>7, BackendStepKinds
  <2> QED BY <2>1 DEF BackendGoes
<1> QED
  BY <1>1, <1>2, <1>3, <1>4, <1>5, <1>6, <1>7 DEF Next, ClientStep

\* The request to end the session reaches a session whose path is known.
LEMMA Asked ==
  ASSUME service \in ServiceType, session_path = "session",
         NEW s \in Disconnected
  PROVE  /\ s.disconnect_asked \/ s.state = "gone"
         /\ s.accepted = service.accepted
BY DEF Disconnected, ServiceType

\* Once an attempt was accepted, its end goes through that request.
LEMMA NextAccepted ==
  ASSUME TypeOK, PathKnown, Accepted, [Next]_vars
  PROVE  Accepted'
<1> USE DEF Accepted, AcceptedAttemptIsCleanedUp
<1>a. service \in ServiceType
  BY DEF TypeOK, ServiceType
<1>1. ASSUME pc \notin Loop \cup Ends,
             service'.accepted = service.accepted,
             pc' # "interrupted"
      PROVE  Accepted'
  BY <1>1
<1>2. CASE \/ Import \/ ImportNotReady \/ ImportFails
           \/ NewTunnel \/ NewTunnelReplies \/ NewTunnelFails
           \/ NewTunnelNotReady \/ Introspect \/ IntrospectFails
           \/ \E provided \in SUBSET {"username", "password"} : ReadyPass(provided)
           \/ Subscribe \/ Connect \/ ConnectFails
  <2>1. pc \notin Loop \cup Ends
    BY <1>2 DEF Import, ImportNotReady, ImportFails, NewTunnel,
       NewTunnelReplies, NewTunnelFails, NewTunnelNotReady, Introspect,
       IntrospectFails, ReadyPass, Subscribe, Connect, ConnectFails, Loop, Ends
  <2>2. pc' # "interrupted"
    BY <1>2 DEF Import, ImportNotReady, ImportFails, NewTunnel,
       NewTunnelReplies, NewTunnelFails, NewTunnelNotReady, Introspect,
       IntrospectFails, ReadyPass, Subscribe, Connect, ConnectFails, Again,
       Proceed
  <2>3. service'.accepted = service.accepted
    BY <1>2, <1>a DEF Import, ImportNotReady, ImportFails, NewTunnel,
       NewTunnelReplies, NewTunnelFails, NewTunnelNotReady, Introspect,
       IntrospectFails, ReadyPass, Subscribe, Connect, ConnectFails, ServiceType
  <2> QED BY <1>1, <2>1, <2>2, <2>3
<1>3. CASE ConnectReplies
  BY <1>3 DEF ConnectReplies, Proceed, PathKnown, Loop
<1>4. CASE Dispatch \/ WaitFor \/ PollStatus \/ PollConnectedTo \/ NotYetElapsed
  BY <1>4 DEF Dispatch, WaitFor, PollStatus, PollConnectedTo, NotYetElapsed,
     ToNext, Loop, Ends
<1>5. CASE Elapsed \/ Outcome
  <2>1. session_path = "session" /\ session_path' = session_path
    BY <1>5 DEF Elapsed, Outcome, ToNext, PathKnown, Loop
  <2>2. CASE service' \in Disconnected /\ pc' = "threw"
    <3>1. service'.disconnect_asked \/ service'.state = "gone"
      BY <1>a, <2>1, <2>2, Asked
    <3> QED BY <2>1, <2>2, <3>1 DEF Ends
  <2>3. CASE service' = service /\ pc' = "returned"
    BY <2>1, <2>3 DEF Ends
  <2> QED BY <1>5, <2>2, <2>3 DEF Elapsed, Outcome, ToNext
<1>6. CASE Interrupt
  <2>1. service' \in Disconnected /\ pc' = "interrupted"
        /\ session_path' = session_path
    BY <1>6 DEF Interrupt
  <2>2. service'.accepted = service.accepted
    BY <1>a, <2>1 DEF Disconnected, ServiceType
  <2>3. session_path = "session" =>
          service'.disconnect_asked \/ service'.state = "gone"
    BY <1>a, <2>1, Asked
  <2> QED BY <2>1, <2>2, <2>3 DEF Ends
<1>7. CASE on_status_change \/ Finished \/ UNCHANGED vars
  BY <1>7 DEF on_status_change, Finished, vars
<1>8. CASE BackendStep
  <2>1. PICK k \in BackendKinds : BackendGoes(k[1], k[2], k[3])
    BY <1>8, BackendStepKinds
  <2>2. /\ service'.accepted = service.accepted
        /\ service'.disconnect_asked = service.disconnect_asked
        /\ service.state # "gone"
    BY <1>a, <2>1 DEF BackendGoes, BackendKinds, ServiceType
  <2> QED BY <2>1, <2>2 DEF BackendGoes
<1> QED
  BY <1>2, <1>3, <1>4, <1>5, <1>6, <1>7, <1>8 DEF Next, ClientStep

-----------------------------------------------------------------------------
(* The outcome.                                                            *)

OutcomeKnown ==
  \/ connected \/ failed
  \/ \E i \in DOMAIN inbox : Confirms(inbox[i]) \/ Denies(inbox[i])

\* The words of the services do not change, and what denies still does as
\* long as nothing was confirmed.
LEMMA SameWords ==
  ASSUME UNCHANGED site, NEW sig
  PROVE  /\ Confirms(sig)' <=> Confirms(sig)
         /\ Denies(sig) /\ ~connected' => Denies(sig)'
         /\ says_connected(sig.status)' <=> says_connected(sig.status)
BY DEF Confirms, Denies, says_connected

\* Signals that wait remain what they are.
LEMMA OutcomeStays ==
  ASSUME UNCHANGED <<site, inbox>>, OutcomeKnown,
         connected => connected', failed => failed'
  PROVE  OutcomeKnown'
<1>1. CASE connected' \/ failed'
  BY <1>1 DEF OutcomeKnown
<1>2. CASE ~connected' /\ ~failed'
  <2>1. PICK i \in DOMAIN inbox : Confirms(inbox[i]) \/ Denies(inbox[i])
    BY <1>2 DEF OutcomeKnown
  <2>2. Confirms(inbox[i])' \/ Denies(inbox[i])'
    BY <1>2, <2>1 DEF Confirms, Denies, says_connected
  <2>3. i \in DOMAIN inbox'
    BY <2>1
  <2> QED BY <2>2, <2>3 DEF OutcomeKnown
<1> QED BY <1>1, <1>2

\* A handler turns the oldest signal into the flag it calls for.
LEMMA OutcomeHandled ==
  ASSUME TypeOK, UNCHANGED site, on_status_change, OutcomeKnown
  PROVE  OutcomeKnown'
<1>1. inbox \in Seq(Signals) /\ inbox # <<>> /\ inbox' = Tail(inbox)
  BY DEF TypeOK, on_status_change
<1>2. CASE connected' \/ failed'
  BY <1>2 DEF OutcomeKnown
<1>3. CASE ~connected' /\ ~failed'
  <2>1. ~connected /\ ~failed /\ ~Confirms(Head(inbox)) /\ ~Denies(Head(inbox))
    BY <1>3 DEF on_status_change
  <2>2. PICK i \in DOMAIN inbox, sig \in Signals :
          sig = inbox[i] /\ (Confirms(sig) \/ Denies(sig))
    <3>1. \A i \in DOMAIN inbox : inbox[i] \in Signals
      <4>1. inbox \in Seq(Signals)
        BY DEF TypeOK
      <4> QED BY <4>1
    <3> QED BY <2>1, <3>1 DEF OutcomeKnown
  <2>3. i # 1
    BY <1>1, <2>1, <2>2
  <2>4. i - 1 \in DOMAIN Tail(inbox) /\ Tail(inbox)[i - 1] = sig
    BY <1>1, <2>2, <2>3
  <2>5. Confirms(sig)' \/ Denies(sig)'
    BY <1>3, <2>2, SameWords
  <2>6. \E j \in DOMAIN inbox' : inbox'[j] = sig
    BY <1>1, <2>4
  <2> QED BY <2>5, <2>6 DEF OutcomeKnown
<1> QED BY <1>2, <1>3

\* What the backend sends is known or denies or confirms.
LEMMA OutcomeSent ==
  ASSUME TypeOK, UNCHANGED <<site, connected, failed>>,
         NEW k \in BackendKinds, BackendGoes(k[1], k[2], k[3]),
         subscribed, service.forwarding
  PROVE  OutcomeKnown'
<1>1. PICK status \in Statuses : status = k[3]
  BY DEF BackendKinds, Statuses
<1>2. Emit(status)
  BY <1>1 DEF BackendGoes
<1>3. PICK out \in Seq(Signals) :
        /\ inbox' = inbox \o out
        /\ \A i \in DOMAIN out : out[i].status = status
        /\ subscribed /\ service.forwarding =>
             \E i \in DOMAIN out : out[i] = [name |-> "StatusChange", status |-> status]
  BY <1>2, Emitted
<1>4. PICK sig : sig = [name |-> "StatusChange", status |-> status]
  OBVIOUS
<1>5. connected \/ Confirms(sig) \/ Denies(sig)
  BY <1>1, <1>4 DEF Confirms, Denies, Statuses
<1>6. \E j \in DOMAIN inbox' : inbox'[j] = sig
  <2>1. inbox \in Seq(Signals)
    BY DEF TypeOK
  <2>2. PICK i \in DOMAIN out : out[i] = sig
    BY <1>3, <1>4
  <2>3. /\ Len(inbox) + i \in DOMAIN (inbox \o out)
        /\ (inbox \o out)[Len(inbox) + i] = out[i]
    BY <2>1, <2>2
  <2> QED BY <1>3, <2>2, <2>3
<1>7. connected' \/ Confirms(sig)' \/ Denies(sig)'
  BY <1>5, SameWords
<1> QED
  BY <1>6, <1>7 DEF OutcomeKnown

LEMMA NextReported ==
  ASSUME TypeOK, Reported, [Next]_vars
  PROVE  Reported'
<1> DEFINE Before == {"Import", "NewTunnel", "NewTunnel_reply", "Introspect",
                      "Ready", "Subscribe"}
           Over == {"up", "failed", "down", "gone"}
<1>a. service \in ServiceType
  BY DEF TypeOK, ServiceType
<1>b. TypeOK'
  BY NextType
<1>c. NoMissedOutcome <=> (pc \notin Ends /\ service.forwarding
                             /\ service.state \in Over => OutcomeKnown)
  BY DEF NoMissedOutcome, OutcomeKnown
<1>d. NoMissedOutcome' <=> (pc' \notin Ends /\ service'.forwarding
                              /\ service'.state \in Over => OutcomeKnown')
  BY DEF NoMissedOutcome, OutcomeKnown
<1>e. UNCHANGED site
  BY DEF Next, Finished, vars
<1>1. CASE \/ Import \/ ImportNotReady \/ ImportFails
           \/ NewTunnel \/ NewTunnelReplies \/ NewTunnelFails
           \/ NewTunnelNotReady \/ Introspect \/ IntrospectFails
           \/ \E provided \in SUBSET {"username", "password"} : ReadyPass(provided)
  <2>1. pc \in Before
    BY <1>1 DEF Import, ImportNotReady, ImportFails, NewTunnel,
       NewTunnelReplies, NewTunnelFails, NewTunnelNotReady, Introspect,
       IntrospectFails, ReadyPass
  <2>2. pc' \in Before \cup Ends
    BY <1>1 DEF Import, ImportNotReady, ImportFails, NewTunnel,
       NewTunnelReplies, NewTunnelFails, NewTunnelNotReady, Introspect,
       IntrospectFails, ReadyPass, Again, Proceed, Ends
  <2>3. /\ service'.forwarding = service.forwarding
        /\ service'.state \in {service.state, "new"}
    BY <1>1, <1>a DEF Import, ImportNotReady, ImportFails, NewTunnel,
       NewTunnelReplies, NewTunnelFails, NewTunnelNotReady, Introspect,
       IntrospectFails, ReadyPass, ServiceType
  <2>4. ~service.forwarding /\ service.state \in {"absent", "new", "gone"}
    BY <2>1 DEF Reported
  <2> QED
    BY <1>d, <2>2, <2>3, <2>4 DEF Reported, Ends
<1>2. CASE Subscribe
  <2>1. /\ service.state \in {"absent", "new", "gone"} /\ ~service.forwarding
        /\ subscribed' /\ pc' = "Connect"
    BY <1>2 DEF Subscribe, Proceed, Reported
  <2>2. \/ service' = service
        \/ /\ service.state # "gone"
           /\ service' = [service EXCEPT !.forwarding = TRUE]
    BY <1>2 DEF Subscribe
  <2> QED
    BY <1>a, <1>d, <2>1, <2>2 DEF Reported, ServiceType
<1>3. CASE Connect \/ ConnectReplies \/ ConnectFails
  <2>1. /\ pc' \in {"Connect_reply", "dispatch"} \cup Ends
        /\ UNCHANGED <<connected, failed, inbox, subscribed>>
    BY <1>3 DEF Connect, ConnectReplies, ConnectFails, Proceed, conversation,
       Ends
  <2>2. /\ service'.forwarding = service.forwarding
        /\ service'.state \in {service.state, "started"}
        /\ pc \notin Ends
    BY <1>3, <1>a DEF Connect, ConnectReplies, ConnectFails, ServiceType, Ends
  <2>3. OutcomeKnown => OutcomeKnown'
    BY <1>e, <2>1, OutcomeStays
  <2> QED
    BY <1>c, <1>d, <2>1, <2>2, <2>3 DEF Reported, Ends
<1>4. CASE \/ Dispatch \/ WaitFor \/ PollStatus \/ PollConnectedTo
           \/ NotYetElapsed \/ Elapsed \/ Outcome \/ Interrupt
  <2>1. /\ pc \notin Ends
        /\ pc' \in Loop \cup Ends
        /\ connected => connected'
        /\ failed => failed'
        /\ UNCHANGED <<inbox, subscribed>>
    BY <1>4 DEF Dispatch, WaitFor, PollStatus, PollConnectedTo, NotYetElapsed,
       Elapsed, Outcome, Interrupt, ToNext, conversation, Loop, Ends
  <2>2. pc' \in Ends \/ service' = service
    BY <1>4 DEF Dispatch, WaitFor, PollStatus, PollConnectedTo, NotYetElapsed,
       Elapsed, Outcome, Interrupt, ToNext, Ends
  <2>3. service'.forwarding = service.forwarding
    BY <1>4, <1>a DEF Dispatch, WaitFor, PollStatus, PollConnectedTo,
       NotYetElapsed, Elapsed, Outcome, Interrupt, Disconnected, ServiceType
  <2>4. OutcomeKnown => OutcomeKnown'
    BY <1>e, <2>1, OutcomeStays
  <2> QED
    BY <1>c, <1>d, <2>1, <2>2, <2>3, <2>4 DEF Reported, Loop, Ends
<1>5. CASE on_status_change
  <2>1. OutcomeKnown => OutcomeKnown'
    BY <1>5, <1>e, OutcomeHandled
  <2> QED
    BY <1>5, <1>c, <1>d, <2>1 DEF on_status_change, Reported
<1>6. CASE Finished \/ UNCHANGED vars
  BY <1>6, <1>c, <1>d DEF Finished, vars, Reported, OutcomeKnown, Confirms,
     Denies, says_connected
<1>7. CASE BackendStep
  <2>1. PICK k \in BackendKinds : BackendGoes(k[1], k[2], k[3])
    BY <1>7, BackendStepKinds
  <2>2. /\ UNCHANGED <<pc, connected, failed, subscribed>>
        /\ service'.forwarding = service.forwarding
        /\ service'.state = k[2]
        /\ service.state \in k[1]
    BY <1>a, <2>1 DEF BackendGoes, ServiceType
  <2>3. k[1] \cap {"absent", "new", "gone"} # {} => k[2] = "gone"
    BY DEF BackendKinds
  <2>4. service'.forwarding => OutcomeKnown'
    BY <1>e, <2>1, <2>2, OutcomeSent DEF Reported
  <2> QED
    BY <1>d, <2>2, <2>3, <2>4 DEF Reported
<1> QED
  BY <1>1, <1>2, <1>3, <1>4, <1>5, <1>6, <1>7 DEF Next, ClientStep

-----------------------------------------------------------------------------
(* Success.                                                                *)

\* What confirms: the word for the beginning, or in capitals that for the end.
LEMMA OnlyTheseConfirm ==
  ASSUME NEW sig \in Signals, Confirms(sig)
  PROVE  \/ sig.status = "connected"
         \/ site.wording = "UPPERCASE" /\ sig.status = "disconnected"
BY DEF Confirms, says_connected

LEMMA SameDeserts ==
  ASSUME UNCHANGED site, service.been_up => service'.been_up,
         service.cut => service'.cut
  PROVE  Deserved => Deserved'
BY DEF Deserved, Misread

\* Only a session that is disconnected goes down.
LEMMA OnlyDownIsDisconnected ==
  ASSUME NEW k \in BackendKinds
  PROVE  k[3] = "disconnected" <=> k[2] = "down"
BY DEF BackendKinds

\* The services: what they announce is so.
LEMMA BackendConfirmed ==
  ASSUME TypeOK, Confirmed, UNCHANGED site, BackendStep
  PROVE  Confirmed'
<1>a. service \in ServiceType /\ inbox \in Seq(Signals)
  BY DEF TypeOK, ServiceType
<1>1. PICK k \in BackendKinds : BackendGoes(k[1], k[2], k[3])
  BY BackendStepKinds
<1>2. PICK status \in Statuses : status = k[3]
  BY DEF BackendKinds, Statuses
<1>3. /\ service'.state = k[2]
      /\ service'.been_up <=> service.been_up \/ k[2] = "up"
      /\ service'.cut <=> service.cut \/ (k[2] = "down" /\ ~service.been_up)
  BY <1>a, <1>1, BackendWrites
<1>4. UNCHANGED <<pc, connected, failed>> /\ Emit(status)
  BY <1>1, <1>2 DEF BackendGoes
<1>5. /\ status = "connected" => k[2] = "up"
      /\ status = "disconnected" => k[2] = "down"
  BY <1>2, OnlyUpIsConnected, OnlyDownIsDisconnected
<1>6. PICK out \in Seq(Signals) :
        /\ inbox' = inbox \o out
        /\ \A i \in DOMAIN out : out[i].status = status
        /\ subscribed /\ service.forwarding =>
             \E i \in DOMAIN out : out[i] = [name |-> "StatusChange", status |-> status]
  BY <1>4, Emitted
<1>7. ASSUME NEW i \in DOMAIN inbox'
      PROVE  /\ inbox'[i].status = "connected" => service'.been_up
             /\ inbox'[i].status = "disconnected" => service'.been_up \/ service'.cut
  <2>1. CASE i \in DOMAIN inbox
    <3>1. inbox'[i] = inbox[i]
      BY <1>a, <1>6, <2>1
    <3> QED BY <1>3, <2>1, <3>1 DEF Confirmed
  <2>2. CASE i \notin DOMAIN inbox
    <3>1. /\ i - Len(inbox) \in DOMAIN out
          /\ inbox'[i] = out[i - Len(inbox)]
      BY <1>a, <1>6, <1>7, <2>2
    <3>2. inbox'[i].status = status
      BY <1>6, <3>1
    <3> QED BY <1>3, <1>5, <3>2
  <2> QED BY <2>1, <2>2
<1>8. /\ service'.state = "up" => service'.been_up
      /\ service'.state = "down" => service'.been_up \/ service'.cut
  BY <1>3
<1>9. Deserved => Deserved'
  BY <1>3, SameDeserts
<1> QED
  BY <1>4, <1>7, <1>8, <1>9 DEF Confirmed, ConfirmedByBackend, Deserved, Misread

LEMMA NextConfirmed ==
  ASSUME TypeOK, Confirmed, [Next]_vars
  PROVE  Confirmed'
<1>a. service \in ServiceType /\ inbox \in Seq(Signals)
  BY DEF TypeOK, ServiceType
<1>b. CASE BackendStep /\ UNCHANGED site
  BY <1>b, BackendConfirmed
<1>c. UNCHANGED site
  BY DEF Next, Finished, vars
<1>d. pc = "returned" => Deserved
  BY DEF Confirmed, ConfirmedByBackend, Deserved
<1>e. (pc' = "returned" => Deserved') => ConfirmedByBackend'
  BY DEF ConfirmedByBackend, Deserved
\* The session stays what it is, or is gone.
<1>s. ASSUME service'.been_up = service.been_up, service'.cut = service.cut,
             service'.state = service.state \/ service'.state \notin {"up", "down"}
      PROVE  /\ service'.state = "up" => service'.been_up
             /\ service'.state = "down" => service'.been_up \/ service'.cut
             /\ Deserved' <=> Deserved
  BY <1>c, <1>s DEF Confirmed, Deserved, Misread
<1>1. ASSUME UNCHANGED <<connected, failed, inbox>>,
             service'.been_up = service.been_up, service'.cut = service.cut,
             service'.state = service.state \/ service'.state \notin {"up", "down"},
             pc' = "outcome" => pc = "outcome" \/ connected \/ failed,
             pc' = "returned" => pc = "returned" \/ (pc = "outcome" /\ ~failed)
      PROVE  Confirmed'
  <2>1. pc' = "returned" => Deserved'
    BY <1>1, <1>d, <1>s DEF Confirmed
  <2>2. connected' => Deserved'
    BY <1>1, <1>s DEF Confirmed
  <2>3. pc' = "outcome" => connected' \/ failed'
    BY <1>1 DEF Confirmed
  <2>4. \A i \in DOMAIN inbox' :
          /\ inbox'[i].status = "connected" => service'.been_up
          /\ inbox'[i].status = "disconnected" => service'.been_up \/ service'.cut
    BY <1>1 DEF Confirmed
  <2> QED BY <1>1, <1>e, <1>s, <2>1, <2>2, <2>3, <2>4 DEF Confirmed
<1>2. CASE \/ Import \/ ImportNotReady \/ ImportFails
           \/ NewTunnel \/ NewTunnelReplies \/ NewTunnelFails
           \/ NewTunnelNotReady \/ Introspect \/ IntrospectFails
           \/ \E provided \in SUBSET {"username", "password"} : ReadyPass(provided)
           \/ Subscribe \/ Connect \/ ConnectReplies \/ ConnectFails
  <2>1. /\ UNCHANGED <<connected, failed, inbox>>
        /\ pc' \notin {"outcome", "returned"}
    BY <1>2 DEF Import, ImportNotReady, ImportFails, NewTunnel,
       NewTunnelReplies, NewTunnelFails, NewTunnelNotReady, Introspect,
       IntrospectFails, ReadyPass, Subscribe, Connect, ConnectReplies,
       ConnectFails, Again, Proceed, conversation
  <2>2. service'.been_up = service.been_up /\ service'.cut = service.cut
    BY <1>2, <1>a DEF Import, ImportNotReady, ImportFails, NewTunnel,
       NewTunnelReplies, NewTunnelFails, NewTunnelNotReady, Introspect,
       IntrospectFails, ReadyPass, Subscribe, Connect, ConnectReplies,
       ConnectFails, ServiceType
  <2>3. service'.state = service.state \/ service'.state \notin {"up", "down"}
    BY <1>2, <1>a DEF Import, ImportNotReady, ImportFails, NewTunnel,
       NewTunnelReplies, NewTunnelFails, NewTunnelNotReady, Introspect,
       IntrospectFails, ReadyPass, Subscribe, Connect, ConnectReplies,
       ConnectFails, ServiceType
  <2> QED BY <1>1, <2>1, <2>2, <2>3
<1>3. CASE Dispatch \/ WaitFor \/ NotYetElapsed
  BY <1>1, <1>3 DEF Dispatch, WaitFor, NotYetElapsed, ToNext
<1>4. CASE PollStatus \/ PollConnectedTo
  <2>1. connected' => connected \/ service.state = "up"
                   \/ (service.state = "down" /\ site.wording = "UPPERCASE")
    BY <1>4 DEF PollStatus, PollConnectedTo, says_connected
  <2>2. /\ UNCHANGED <<inbox, service>>
        /\ pc' \in {"outcome", "poll_connected_to", "elapsed"}
    BY <1>4 DEF PollStatus, PollConnectedTo, ToNext
  <2>3. pc' = "outcome" => connected' \/ failed'
    BY <1>4 DEF PollStatus, PollConnectedTo, ToNext
  <2>4. connected' => Deserved'
    BY <1>c, <2>1, <2>2 DEF Confirmed, Deserved, Misread
  <2>5. /\ service'.state = "up" => service'.been_up
        /\ service'.state = "down" => service'.been_up \/ service'.cut
        /\ \A i \in DOMAIN inbox' :
             /\ inbox'[i].status = "connected" => service'.been_up
             /\ inbox'[i].status = "disconnected" => service'.been_up \/ service'.cut
    BY <2>2 DEF Confirmed
  <2> QED BY <1>e, <2>2, <2>3, <2>4, <2>5 DEF Confirmed
<1>6. CASE Elapsed \/ Interrupt \/ Outcome
  <2>1. /\ UNCHANGED <<connected, failed, inbox>>
        /\ pc' # "outcome"
        /\ pc' = "returned" => pc = "outcome" /\ ~failed
    BY <1>6 DEF Elapsed, Interrupt, Outcome, ToNext, conversation
  <2>2. service'.been_up = service.been_up /\ service'.cut = service.cut
    BY <1>6, <1>a DEF Elapsed, Interrupt, Outcome, Disconnected, ServiceType
  <2>3. service'.state = service.state \/ service'.state \notin {"up", "down"}
    BY <1>6, <1>a DEF Elapsed, Interrupt, Outcome, Disconnected, ServiceType
  <2> QED BY <1>1, <2>1, <2>2, <2>3
<1>7. CASE on_status_change
  <2>1. inbox # <<>> /\ inbox' = Tail(inbox) /\ UNCHANGED <<pc, service>>
    BY <1>7 DEF on_status_change
  <2>2. 1 \in DOMAIN inbox /\ Head(inbox) = inbox[1] /\ Head(inbox) \in Signals
    BY <1>a, <2>1
  <2>3. connected' => Deserved'
    <3>1. Confirms(Head(inbox)) => Deserved
      BY <2>2, OnlyTheseConfirm DEF Confirmed, Deserved, Misread
    <3>2. connected' => connected \/ Confirms(Head(inbox))
      BY <1>7 DEF on_status_change
    <3>3. Deserved => Deserved'
      BY <1>c, <2>1, SameDeserts
    <3> QED BY <3>1, <3>2, <3>3 DEF Confirmed
  <2>4. \A i \in DOMAIN inbox' :
          /\ inbox'[i].status = "connected" => service'.been_up
          /\ inbox'[i].status = "disconnected" => service'.been_up \/ service'.cut
    <3>1. \A i \in DOMAIN Tail(inbox) :
            i + 1 \in DOMAIN inbox /\ Tail(inbox)[i] = inbox[i + 1]
      BY <1>a, <2>1
    <3> QED BY <2>1, <3>1 DEF Confirmed
  <2>5. connected \/ failed => connected' \/ failed'
    BY <1>7 DEF on_status_change
  <2>6. pc' = "outcome" => connected' \/ failed'
    BY <2>1, <2>5 DEF Confirmed
  <2>7. /\ service'.state = "up" => service'.been_up
        /\ service'.state = "down" => service'.been_up \/ service'.cut
    BY <2>1 DEF Confirmed
  <2>8. pc' = "returned" => Deserved'
    BY <1>c, <1>d, <2>1, SameDeserts
  <2> QED BY <1>e, <2>3, <2>4, <2>6, <2>7, <2>8 DEF Confirmed
<1>8. CASE Finished \/ UNCHANGED vars
  BY <1>1, <1>8 DEF Finished, vars
<1> QED
  BY <1>b, <1>2, <1>3, <1>4, <1>6, <1>7, <1>8 DEF Next, ClientStep

-----------------------------------------------------------------------------
(* The theorems.                                                           *)

\* The inductive invariant holds in every state.
THEOREM Invariance == Spec => []IInv
<1>1. IInv /\ [Next]_vars => IInv'
  BY NextType, NextCreated, NextPathKnown, NextAccepted, NextReported DEF IInv
<1> QED
  BY <1>1, InitIInv, PTL DEF Spec

\* The type invariant.
THEOREM TypeCorrect == Spec => []TypeOK
<1>1. IInv => TypeOK
  BY DEF IInv
<1> QED
  BY <1>1, Invariance, PTL

\* No retry repeats a call that was executed.
THEOREM RetrySafety == Spec => []RetriesAreSafe
<1>1. IInv => RetriesAreSafe
  BY DEF IInv, Created
<1> QED
  BY <1>1, Invariance, PTL

\* No accepted attempt fails without a request to end its session.
THEOREM CleanUp == Spec => []AcceptedAttemptIsCleanedUp
<1>1. IInv => AcceptedAttemptIsCleanedUp
  BY DEF IInv, Accepted
<1> QED
  BY <1>1, Invariance, PTL

\* No outcome that is signalled is lost between the subscription, the queue
\* and the wait loop.
THEOREM OutcomeSeen == Spec => []NoMissedOutcome
<1>1. IInv => NoMissedOutcome
  BY DEF IInv, Reported
<1> QED
  BY <1>1, Invariance, PTL

\* Whatever sets connected, a signal, a log line or a poll, is there because the
\* session has been up, or because it was cut off and that was said in capitals.
THEOREM OnlyConfirmed == Spec => [](TypeOK /\ Confirmed)
<1>1. Init => Confirmed
  <2> SUFFICES ASSUME Init PROVE Confirmed
    OBVIOUS
  <2>1. pc = "Import" /\ connected = FALSE /\ inbox = <<>>
    BY DEF Init
  <2>2. service.state = "absent"
    BY DEF Init
  <2> QED BY <2>1, <2>2 DEF Confirmed, ConfirmedByBackend
<1>2. TypeOK /\ Confirmed /\ [Next]_vars => (TypeOK /\ Confirmed)'
  BY NextType, NextConfirmed
<1> QED
  BY <1>1, <1>2, InitType, PTL DEF Spec

\* connect() returns only for a tunnel that has been up, or for a session that
\* was disconnected before by services which write in capitals.
THEOREM NoFalseSuccess == Spec => []ConfirmedByBackend
<1>1. TypeOK /\ Confirmed => ConfirmedByBackend
  BY DEF Confirmed
<1> QED
  BY <1>1, OnlyConfirmed, PTL

\* With services that write no word in capitals, it returns only for a tunnel
\* that has been up: the case above is the only false success.
THEOREM PlainSuccess ==
  ASSUME "UPPERCASE" \notin Wordings
  PROVE  Spec => []ConnectedMeansUp
<1>1. TypeOK /\ Confirmed => ConnectedMeansUp
  <2>1. TypeOK => site.wording # "UPPERCASE"
    BY DEF TypeOK
  <2> QED BY <2>1 DEF Confirmed, ConfirmedByBackend, ConnectedMeansUp, Misread
<1> QED
  BY <1>1, OnlyConfirmed, PTL

-----------------------------------------------------------------------------
(* The bound on the steps.                                                 *)

\* A loop is left with its last try.
TriesCounted ==
  /\ pc = "Import" => tries < ImportTries
  /\ pc = "NewTunnel" => tries < TunnelTries
  /\ pc = "Introspect" => tries < IntrospectTries
  /\ pc = "Ready" => tries < ReadyTries

loop_steps == 5 * (WaitPasses - passes)
ready_steps == loop_steps + 8 + ReadyTries
found_steps == ready_steps + IntrospectTries

\* StepsLeft, place by place.
StepsByPlace ==
  /\ pc = "Import" => StepsLeft = found_steps + 1 + TunnelTries + ImportTries - tries
  /\ pc = "NewTunnel" => StepsLeft = found_steps + 1 + TunnelTries - tries
  /\ pc = "NewTunnel_reply" => StepsLeft = found_steps + 1
  /\ pc = "Introspect" => StepsLeft = found_steps - tries
  /\ pc = "Ready" => StepsLeft = ready_steps - tries
  /\ pc = "Subscribe" => StepsLeft = loop_steps + 8
  /\ pc = "Connect" => StepsLeft = loop_steps + 7
  /\ pc = "Connect_reply" => StepsLeft = loop_steps + 6
  /\ pc = "dispatch" => StepsLeft = loop_steps + 5
  /\ pc = "wait_for" => StepsLeft = loop_steps + 4
  /\ pc = "poll_status" => StepsLeft = loop_steps + 3
  /\ pc = "poll_connected_to" => StepsLeft = loop_steps + 2
  /\ pc = "elapsed" => StepsLeft = loop_steps + 1
  /\ pc = "outcome" => StepsLeft = 1
  /\ pc \in Ends => StepsLeft = 0

LEMMA StepsAt == StepsByPlace /\ StepsByPlace'
<1>1. StepsByPlace
  BY DEF StepsByPlace, StepsLeft, loop_steps, ready_steps, found_steps, Ends
<1>2. StepsByPlace'
  BY DEF StepsByPlace, StepsLeft, loop_steps, ready_steps, found_steps, Ends
<1> QED
  BY <1>1, <1>2

LEMMA Bounds ==
  /\ ImportTries \in Nat /\ TunnelTries \in Nat /\ IntrospectTries \in Nat
  /\ ReadyTries \in Nat /\ WaitPasses \in Nat
  /\ 0 < ImportTries /\ 0 < TunnelTries /\ 0 < IntrospectTries /\ 0 < ReadyTries
BY DBusClientAssumption DEF DBusClientAssumption

\* The number is one, as long as no loop outlives its tries.
StepsCounted == StepsLeft \in Nat

LEMMA StepsAreNatural == TypeOK /\ TriesCounted => StepsCounted
<1> SUFFICES ASSUME TypeOK, TriesCounted PROVE StepsLeft \in Nat
  BY DEF StepsCounted
<1>1. tries \in Nat /\ passes \in 0..WaitPasses /\ pc \in Points
  BY DEF TypeOK
<1>2. loop_steps \in Nat
  BY <1>1, Bounds DEF loop_steps
<1>3. ready_steps \in Nat /\ ready_steps >= ReadyTries
  BY <1>2, Bounds DEF ready_steps
<1>4. found_steps \in Nat /\ found_steps >= IntrospectTries
  BY <1>3, Bounds DEF found_steps
<1>5. CASE pc = "Import"
  BY <1>1, <1>4, <1>5, Bounds, StepsAt DEF StepsByPlace, TriesCounted
<1>6. CASE pc = "NewTunnel"
  BY <1>1, <1>4, <1>6, Bounds, StepsAt DEF StepsByPlace, TriesCounted
<1>7. CASE pc = "NewTunnel_reply"
  BY <1>4, <1>7, StepsAt DEF StepsByPlace
<1>8. CASE pc = "Introspect"
  BY <1>1, <1>4, <1>8, Bounds, StepsAt DEF StepsByPlace, TriesCounted
<1>9. CASE pc = "Ready"
  BY <1>1, <1>3, <1>9, Bounds, StepsAt DEF StepsByPlace, TriesCounted
<1>10. CASE pc \in {"Subscribe", "Connect", "Connect_reply"} \cup Loop
  BY <1>2, <1>10, StepsAt DEF StepsByPlace, Loop
<1>11. CASE pc \in Ends
  BY <1>11, StepsAt DEF StepsByPlace
<1> QED
  BY <1>1, <1>5, <1>6, <1>7, <1>8, <1>9, <1>10, <1>11 DEF Points, Loop

LEMMA StepsStayNatural == TypeOK' /\ TriesCounted' => StepsCounted'
BY StepsAreNatural, PTL

\* The steps of the setup either go on in the same loop with the next try, or
\* to the first try of a later one.
LEMMA SetupTries ==
  ASSUME TypeOK, TriesCounted,
         \/ Import \/ ImportNotReady \/ ImportFails
         \/ NewTunnel \/ NewTunnelReplies \/ NewTunnelFails \/ NewTunnelNotReady
         \/ Introspect \/ IntrospectFails
         \/ \E provided \in SUBSET {"username", "password"} : ReadyPass(provided)
         \/ Subscribe \/ Connect \/ ConnectReplies \/ ConnectFails
  PROVE  /\ passes' = passes
         /\ \/ pc' = pc /\ tries' = tries + 1
               /\ \/ pc = "Import" /\ tries' < ImportTries
                  \/ pc = "NewTunnel" /\ tries' < TunnelTries
                  \/ pc = "Introspect" /\ tries' < IntrospectTries
                  \/ pc = "Ready" /\ tries' < ReadyTries
            \/ pc = "Import" /\ pc' = "NewTunnel" /\ tries' = 0
            \/ pc = "NewTunnel" /\ pc' = "NewTunnel_reply"
            \/ pc \in {"NewTunnel", "NewTunnel_reply"} /\ pc' = "Introspect" /\ tries' = 0
            \/ pc = "Introspect" /\ pc' = "Ready" /\ tries' = 0
            \/ pc = "Ready" /\ pc' = "Subscribe"
            \/ pc = "Subscribe" /\ pc' = "Connect"
            \/ pc = "Connect" /\ pc' = "Connect_reply"
            \/ pc = "Connect_reply" /\ pc' = "dispatch"
            \/ pc \notin Ends \cup Loop /\ pc' \in {"threw", "crashed"}
<1>1. CASE Import \/ ImportNotReady \/ ImportFails
  BY <1>1 DEF Import, ImportNotReady, ImportFails, Again, Proceed, conversation, Ends, Loop
<1>2. CASE NewTunnel \/ NewTunnelReplies \/ NewTunnelFails \/ NewTunnelNotReady
  BY <1>2 DEF NewTunnel, NewTunnelReplies, NewTunnelFails, NewTunnelNotReady, Again,
     Proceed, conversation, Ends, Loop
<1>3. CASE Introspect \/ IntrospectFails
  BY <1>3 DEF Introspect, IntrospectFails, Again, Proceed, conversation, Ends, Loop
<1>4. ASSUME NEW provided \in SUBSET {"username", "password"}, ReadyPass(provided)
      PROVE  /\ passes' = passes /\ pc = "Ready"
             /\ \/ pc' = "Subscribe" \/ pc' = "threw"
                \/ pc' = "Ready" /\ tries' = tries + 1 /\ tries' < ReadyTries
  BY <1>4 DEF ReadyPass, Again, Proceed, conversation
<1>5. CASE Subscribe \/ Connect \/ ConnectReplies \/ ConnectFails
  BY <1>5 DEF Subscribe, Connect, ConnectReplies, ConnectFails, Proceed, conversation, Ends, Loop
<1> QED
  BY <1>1, <1>2, <1>3, <1>4, <1>5 DEF Ends, Loop

\* The steps of the wait loop go one further, and round with the next pass.
LEMMA WaitPlaces ==
  ASSUME TypeOK,
         \/ Dispatch \/ WaitFor \/ PollStatus \/ PollConnectedTo
         \/ NotYetElapsed \/ Elapsed \/ Outcome
  PROVE  \/ passes' = passes
            /\ \/ pc = "dispatch" /\ pc' = "wait_for"
               \/ pc = "wait_for" /\ pc' = "poll_status"
               \/ pc = "poll_status" /\ pc' = "poll_connected_to"
               \/ pc = "poll_connected_to" /\ pc' = "elapsed"
               \/ pc \in Loop \ {"outcome", "elapsed", "dispatch"} /\ pc' = "outcome"
               \/ pc \in Loop /\ pc' \in {"threw", "returned"}
         \/ pc = "elapsed" /\ pc' = "dispatch" /\ passes < WaitPasses
            /\ passes' = passes + 1
<1>1. CASE Dispatch \/ WaitFor
  BY <1>1 DEF Dispatch, WaitFor, ToNext, Loop
<1>2. CASE PollStatus \/ PollConnectedTo
  BY <1>2 DEF PollStatus, PollConnectedTo, ToNext, Loop
<1>3. CASE NotYetElapsed \/ Elapsed \/ Outcome
  BY <1>3 DEF NotYetElapsed, Elapsed, Outcome, ToNext, Loop
<1> QED
  BY <1>1, <1>2, <1>3

\* Nobody else goes back or starts a pass.
LEMMA OthersWait ==
  ASSUME [Next]_vars, ~ClientStep
  PROVE  UNCHANGED <<pc, tries, passes>> \/ (pc \notin Ends /\ pc' = "interrupted")
BY DEF Next, on_status_change, Interrupt, conversation, BackendStep, BackendConnects,
   BackendFails, BackendDisconnects, BackendEnds, BackendGoes, Finished, vars

LEMMA InitTries == Init => TriesCounted
BY Bounds DEF Init, TriesCounted

LEMMA NextTries ==
  ASSUME TypeOK, TriesCounted, [Next]_vars
  PROVE  TriesCounted'
<1>1. CASE ClientStep
  BY <1>1, SetupTries, WaitPlaces, Bounds DEF ClientStep, TriesCounted, Ends
<1>2. CASE ~ClientStep
  BY <1>2, OthersWait DEF TriesCounted
<1> QED
  BY <1>1, <1>2

\* A step of the setup, and one of the wait loop, takes at least one away.
LEMMA SetupGoesDown ==
  ASSUME TypeOK, TriesCounted, TypeOK', TriesCounted',
         \/ Import \/ ImportNotReady \/ ImportFails
         \/ NewTunnel \/ NewTunnelReplies \/ NewTunnelFails \/ NewTunnelNotReady
         \/ Introspect \/ IntrospectFails
         \/ \E provided \in SUBSET {"username", "password"} : ReadyPass(provided)
         \/ Subscribe \/ Connect \/ ConnectReplies \/ ConnectFails
  PROVE  StepsLeft' < StepsLeft
<1>1. /\ tries \in Nat /\ tries' \in Nat
      /\ passes \in 0..WaitPasses /\ passes' = passes
  BY SetupTries DEF TypeOK
<1>2. loop_steps \in Nat /\ loop_steps' = loop_steps
  BY <1>1, Bounds DEF loop_steps
<1>3. /\ ready_steps \in Nat /\ ready_steps' = ready_steps
      /\ ready_steps = loop_steps + 8 + ReadyTries
  BY <1>2, Bounds DEF ready_steps
<1>4. /\ found_steps \in Nat /\ found_steps' = found_steps
      /\ found_steps = ready_steps + IntrospectTries
  BY <1>3, Bounds DEF found_steps
<1>5. CASE /\ pc' = pc /\ tries' = tries + 1
           /\ pc \in {"Import", "NewTunnel", "Introspect", "Ready"}
  BY <1>1, <1>3, <1>4, <1>5, Bounds, StepsAt DEF StepsByPlace
<1>6. CASE pc = "Import" /\ pc' = "NewTunnel" /\ tries' = 0
  BY <1>1, <1>4, <1>6, Bounds, StepsAt DEF StepsByPlace, TriesCounted
<1>7. CASE pc = "NewTunnel" /\ pc' = "NewTunnel_reply"
  BY <1>1, <1>4, <1>7, Bounds, StepsAt DEF StepsByPlace, TriesCounted
<1>8. CASE /\ pc \in {"NewTunnel", "NewTunnel_reply"}
           /\ pc' = "Introspect" /\ tries' = 0
  BY <1>1, <1>4, <1>8, Bounds, StepsAt DEF StepsByPlace, TriesCounted
<1>9. CASE pc = "Introspect" /\ pc' = "Ready" /\ tries' = 0
  BY <1>1, <1>3, <1>4, <1>9, Bounds, StepsAt DEF StepsByPlace, TriesCounted
<1>10. CASE pc = "Ready" /\ pc' = "Subscribe"
  BY <1>1, <1>2, <1>3, <1>10, Bounds, StepsAt DEF StepsByPlace, TriesCounted
<1>11. CASE \/ pc = "Subscribe" /\ pc' = "Connect"
            \/ pc = "Connect" /\ pc' = "Connect_reply"
            \/ pc = "Connect_reply" /\ pc' = "dispatch"
  BY <1>2, <1>11, StepsAt DEF StepsByPlace
<1>12. CASE pc \notin Ends \cup Loop /\ pc' \in {"threw", "crashed"}
  <2>1. StepsLeft' = 0
    BY <1>12, StepsAt DEF StepsByPlace, Ends
  <2>2. CASE pc \in {"Import", "NewTunnel"}
    BY <2>1, <2>2, <1>1, <1>4, Bounds, StepsAt DEF StepsByPlace, TriesCounted
  <2>4. CASE pc = "Introspect"
    BY <2>1, <2>4, <1>1, <1>3, <1>4, Bounds, StepsAt DEF StepsByPlace, TriesCounted
  <2>5. CASE pc = "Ready"
    BY <2>1, <2>5, <1>1, <1>2, <1>3, Bounds, StepsAt DEF StepsByPlace, TriesCounted
  <2>3. CASE pc \in {"NewTunnel_reply", "Subscribe", "Connect", "Connect_reply"}
    BY <2>1, <2>3, <1>2, <1>4, StepsAt DEF StepsByPlace
  <2> QED BY <1>12, <2>2, <2>3, <2>4, <2>5 DEF TypeOK, Points, Loop
<1>13. \/ pc' = pc /\ tries' = tries + 1
          /\ \/ pc = "Import" /\ tries' < ImportTries
             \/ pc = "NewTunnel" /\ tries' < TunnelTries
             \/ pc = "Introspect" /\ tries' < IntrospectTries
             \/ pc = "Ready" /\ tries' < ReadyTries
       \/ pc = "Import" /\ pc' = "NewTunnel" /\ tries' = 0
       \/ pc = "NewTunnel" /\ pc' = "NewTunnel_reply"
       \/ pc \in {"NewTunnel", "NewTunnel_reply"} /\ pc' = "Introspect" /\ tries' = 0
       \/ pc = "Introspect" /\ pc' = "Ready" /\ tries' = 0
       \/ pc = "Ready" /\ pc' = "Subscribe"
       \/ pc = "Subscribe" /\ pc' = "Connect"
       \/ pc = "Connect" /\ pc' = "Connect_reply"
       \/ pc = "Connect_reply" /\ pc' = "dispatch"
       \/ pc \notin Ends \cup Loop /\ pc' \in {"threw", "crashed"}
  BY SetupTries
<1> QED
  BY <1>5, <1>6, <1>7, <1>8, <1>9, <1>10, <1>11, <1>12, <1>13

LEMMA WhatIsLeft ==
  ASSUME NEW whole \in Nat, NEW used \in 0..whole
  PROVE  5 * (whole - used) \in Nat
OBVIOUS

LEMMA WaitGoesDown ==
  ASSUME TypeOK, TypeOK',
         \/ Dispatch \/ WaitFor \/ PollStatus \/ PollConnectedTo
         \/ NotYetElapsed \/ Elapsed \/ Outcome
  PROVE  StepsLeft' < StepsLeft
<1>1. passes \in 0..WaitPasses /\ passes' \in 0..WaitPasses
  BY DEF TypeOK
<1>2. loop_steps \in Nat /\ loop_steps' \in Nat
  <2>1. loop_steps \in Nat
    BY <1>1, Bounds DEF loop_steps
  <2>2. 5 * (WaitPasses - passes') \in Nat
    BY <1>1, Bounds, WhatIsLeft
  <2>3. loop_steps' = 5 * (WaitPasses - passes')
    BY DEF loop_steps
  <2> QED BY <2>1, <2>2, <2>3
<1>3. CASE passes' = passes
  <2>1. loop_steps' = loop_steps
    BY <1>3 DEF loop_steps
  <2>2. CASE pc' \in {"threw", "returned"} /\ pc \in Loop
    <3>1. StepsLeft' = 0
      BY <2>2, StepsAt DEF StepsByPlace, Ends
    <3>2. StepsLeft \in Nat /\ 0 < StepsLeft
      BY <1>2, <2>2, StepsAt DEF StepsByPlace, Loop
    <3> QED BY <3>1, <3>2
  <2>3. CASE pc \in Loop \ {"outcome", "elapsed", "dispatch"} /\ pc' = "outcome"
    <3>1. StepsLeft' = 1
      BY <2>3, StepsAt DEF StepsByPlace
    <3>2. StepsLeft \in Nat /\ 1 < StepsLeft
      BY <1>2, <2>3, StepsAt DEF StepsByPlace, Loop
    <3> QED BY <3>1, <3>2
  <2>4. CASE \/ pc = "dispatch" /\ pc' = "wait_for"
             \/ pc = "wait_for" /\ pc' = "poll_status"
             \/ pc = "poll_status" /\ pc' = "poll_connected_to"
             \/ pc = "poll_connected_to" /\ pc' = "elapsed"
    BY <1>2, <2>1, <2>4, StepsAt DEF StepsByPlace
  <2> QED BY <1>1, <1>3, <2>2, <2>3, <2>4, WaitPlaces
<1>4. CASE /\ pc = "elapsed" /\ pc' = "dispatch" /\ passes < WaitPasses
           /\ passes' = passes + 1
  <2>1. loop_steps' = loop_steps - 5
    BY <1>1, <1>4, Bounds DEF loop_steps
  <2>2. StepsLeft = loop_steps + 1 /\ StepsLeft' = loop_steps' + 5
    BY <1>4, StepsAt DEF StepsByPlace
  <2> QED BY <1>2, <2>1, <2>2
<1> QED
  BY <1>3, <1>4, WaitPlaces

LEMMA StepsGoDown ==
  ASSUME TypeOK, TypeOK', TriesCounted, TriesCounted', [Next]_vars
  PROVE  /\ 0 <= StepsLeft' /\ StepsLeft' <= StepsLeft
         /\ ClientStep => StepsLeft' < StepsLeft
<1>1. StepsLeft \in Nat /\ StepsLeft' \in Nat
  BY StepsAreNatural, StepsStayNatural DEF StepsCounted
<1>2. CASE ClientStep
  <2>1. StepsLeft' < StepsLeft
    BY <1>2, SetupGoesDown, WaitGoesDown DEF ClientStep
  <2> QED BY <1>1, <2>1
<1>3. CASE ~ClientStep
  <2>1. CASE UNCHANGED <<pc, tries, passes>>
    <3>1. StepsLeft' = StepsLeft
      BY <2>1 DEF StepsLeft
    <3> QED BY <1>1, <1>3, <3>1
  <2>2. CASE pc' = "interrupted"
    <3>1. StepsLeft' = 0
      BY <2>2, StepsAt DEF StepsByPlace, Ends
    <3> QED BY <1>1, <1>3, <3>1
  <2> QED BY <1>3, <2>1, <2>2, OthersWait
<1> QED
  BY <1>2, <1>3

\* The bound on connect(), for any number of tries and passes: together with
\* the fairness of the caller's thread, which only TLC can use, it is why the
\* call ends.
THEOREM BoundedSteps == Spec => StepsAreBounded
<1>1. TypeOK /\ TypeOK' /\ TriesCounted /\ TriesCounted' /\ [Next]_vars =>
        /\ 0 <= StepsLeft' /\ StepsLeft' <= StepsLeft
        /\ ClientStep => StepsLeft' < StepsLeft
  BY StepsGoDown
<1>2. TypeOK /\ TriesCounted /\ [Next]_vars => TriesCounted'
  BY NextTries
<1> QED
  BY <1>1, <1>2, InitTries, TypeCorrect, PTL DEF Spec, StepsAreBounded

=============================================================================
