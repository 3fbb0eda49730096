--------------------------- MODULE CliRefinement ---------------------------
(***************************************************************************)
(* In DIRECT mode the command line client implements the safety part of    *)
(* VpnSession, for any number of CoreClients and servers.                  *)
(***************************************************************************)
EXTENDS CliProofs

-----------------------------------------------------------------------------
(* need_reauth_ and the server's view of the session.                      *)

\* The filter leaves openvpn3-core no "auth-retry" to obey.
LEMMA NeverRetriesAuth == ~RetriesAuth
BY DEF RetriesAuth, read_and_filter_config

\* A step of the thread of c keeps what is known of the session of d.
LEMMA CoreKeepsSessionKnown ==
  ASSUME TypeOK, NEW c \in Clients, NEW d \in Clients,
         Environment(c) \/ Teardown(c), SessionIsKnown(d),
         AddressIsRecorded(c)
  PROVE  SessionIsKnown(d)'
<1> USE DEF TypeOK, CoreTypeOK, Fields, Sessions, Stages, SessionIsKnown
<1>1. CASE ConnectFails(c)
  BY <1>1 DEF ConnectFails
<1>2. ASSUME NEW s \in Servers, socket_protect(c, s)
      PROVE  SessionIsKnown(d)'
  BY <1>2 DEF socket_protect
<1>3. CASE ChallengeParsed(c)
  BY <1>3 DEF ChallengeParsed
<1>4. CASE Connected(c)
  BY <1>4 DEF Connected
<1>5. CASE Reconnecting(c)
  BY <1>5 DEF Reconnecting
<1>6. CASE NeedCreds(c)
  BY <1>6 DEF NeedCreds, Rejected
<1>7. CASE AuthFailed(c)
  BY <1>7, NeverRetriesAuth DEF AuthFailed, Rejected
<1>8. CASE FatalError(c)
  BY <1>8 DEF FatalError
<1>9. CASE UnhandledFatal(c)
  BY <1>9 DEF UnhandledFatal
<1>10. CASE ChallengeDone(c)
  BY <1>10 DEF ChallengeDone
<1>11. CASE Disconnected(c)
  BY <1>11 DEF Disconnected
<1>12. CASE ThreadExits(c)
  BY <1>12 DEF ThreadExits
<1> QED
  BY <1>1, <1>2, <1>3, <1>4, <1>5, <1>6, <1>7, <1>8, <1>9,
     <1>10, <1>11, <1>12
     DEF Environment, Teardown

\* A fresh CoreClient has no session.
LEMMA StartKeepsSessionKnown ==
  ASSUME TypeOK, NEW c \in Clients, NEW cfg \in Configs, StartClient(c, cfg),
         NEW d \in Clients, SessionIsKnown(d)
  PROVE  SessionIsKnown(d)'
BY DEF TypeOK, CoreTypeOK, StartClient, Constructed, SessionIsKnown

\* The configuration of a CoreClient never changes after its start.
LEMMA CoreKeepsConfig ==
  ASSUME NEW c \in Clients, Environment(c) \/ Teardown(c)
  PROVE  UNCHANGED config
BY DEF Environment, Teardown, ConnectFails, socket_protect, ChallengeParsed,
       Connected, Reconnecting, NeedCreds, AuthFailed, FatalError,
       UnhandledFatal, ChallengeDone, Disconnected, ThreadExits

\* need_reauth_ is what main() takes it for.
THEOREM SessionInvariantHolds == Spec => []SessionInv
<1> USE DEF SessionInv
<1>1. Init => SessionInv
  BY DEF Init, CoreInit, Constructed, SessionIsKnown, AnswersCurrentLogin
<1>2. TypeOK /\ IInv /\ SessionInv /\ [Next]_vars => SessionInv'
  <2> SUFFICES ASSUME TypeOK, IInv, SessionInv, [Next]_vars
               PROVE  SessionInv'
    OBVIOUS
  <2>a. ASSUME UNCHANGED <<client, core, session>>, NEW d \in Clients
        PROVE  SessionIsKnown(d)'
    BY <2>a DEF SessionIsKnown
  <2>1. ASSUME NEW c \in Clients, ConnectPhase1(c)
        PROVE  SessionInv'
    <3>1. Phase1Config \in Configs
      BY DEF Phase1Config, Configs
    <3> QED
      BY <2>1, <3>1, StartKeepsSessionKnown
         DEF ConnectPhase1, AnswersCurrentLogin
  <2>2. ASSUME NEW c \in Clients, ConnectPhase2(c)
        PROVE  SessionInv'
    <3> DEFINE cfg == [state_id |-> phase1.state_id,
                       server_override |-> phase1.remote_ip]
    <3>1. cfg \in Configs
      BY DEF Configs, TypeOK
    <3>2. \A d \in Clients : SessionIsKnown(d)'
      BY <2>2, <3>1, StartKeepsSessionKnown DEF ConnectPhase2
    <3>3. AnswersCurrentLogin'
      BY <2>2 DEF ConnectPhase2, StartClient, AnswersCurrentLogin, IInv,
                  ChallengeReadWhole, TypeOK, CoreTypeOK
    <3> QED
      BY <3>2, <3>3
  <2>3. ASSUME NEW outcome \in Outcomes, Exit(outcome)
        PROVE  SessionInv'
    BY <2>a, <2>3 DEF Exit, Outcomes, AnswersCurrentLogin
  <2>4. ASSUME UNCHANGED <<client, config, core, session, core_client>>,
               ConnectMode = "DIRECT" =>
                 \/ pc' \notin {"wait_connected", "wait_disconnect"}
                 \/ /\ pc \in {"wait_connected", "wait_disconnect"}
                    /\ UNCHANGED phase1
        PROVE  SessionInv'
    BY <2>a, <2>4 DEF AnswersCurrentLogin
  <2>5. CASE CallerStep
    <3>0. "failed" \in Outcomes /\ "ended" \in Outcomes
      BY DEF Outcomes
    <3>1. CASE WaitSleeps
      BY <2>4, <3>1 DEF WaitSleeps
    <3>2. CASE WaitTimesOut
      BY <2>3, <2>4, <3>0, <3>2 DEF WaitTimesOut
    <3>3. CASE WaitSamlReturns
      BY <2>3, <2>4, <3>0, <3>3 DEF WaitSamlReturns, coreVars
    <3>4. CASE ConnectPhase2Dbus
      BY <2>4, <3>4 DEF ConnectPhase2Dbus, coreVars
    <3>5. CASE WaitConnectedReturns
      BY <2>3, <2>4, <3>0, <3>5 DEF WaitConnectedReturns, coreVars
    <3>6. CASE DbusConnectReturns
      BY <2>4, <3>6 DEF DbusConnectReturns, coreVars, IInv,
                        DirectHasNoBackend, NoTunnel
    <3>7. CASE WaitDisconnectReturns
      BY <2>3, <2>4, <3>0, <3>7 DEF WaitDisconnectReturns, coreVars
    <3> QED
      BY <2>1, <2>2, <2>5, <3>1, <3>2, <3>3, <3>4, <3>5, <3>6, <3>7
         DEF CallerStep
  <2>6. CASE OthersStep
    <3>0. "failed" \in Outcomes /\ "interrupted" \in Outcomes
      BY DEF Outcomes
    <3>1. CASE CaptureToken
      BY <2>4, <3>1 DEF CaptureToken, coreVars
    <3>2. CASE \/ ConnectPhase1Throws \/ CaptureThrows
               \/ ConnectPhase2Throws \/ DbusConnectThrows \/ Interrupt
      BY <2>3, <3>0, <3>2
         DEF ConnectPhase1Throws, CaptureThrows, ConnectPhase2Throws,
             DbusConnectThrows, Interrupt
    <3>3. CASE \/ \E s \in Servers : BackendDials(s)
               \/ BackendConnects
               \/ BackendDisconnects
      BY <2>4, <3>3 DEF BackendDials, BackendConnects, BackendDisconnects,
                        coreVars
    <3> QED
      BY <2>6, <3>1, <3>2, <3>3 DEF OthersStep
  <2>7. ASSUME NEW c \in Clients, CoreStep(c) \/ CoreTeardown(c)
        PROVE  SessionInv'
    <3>1. /\ Environment(c) \/ Teardown(c)
          /\ UNCHANGED <<pc, core_client, phase1, dbus>>
      BY <2>7 DEF CoreStep, CoreTeardown
    <3>2. \A d \in Clients : SessionIsKnown(d)'
      BY <3>1, CoreKeepsSessionKnown DEF IInv
    <3> QED
      BY <3>1, <3>2, CoreKeepsConfig DEF AnswersCurrentLogin
  <2>8. CASE UNCHANGED vars
    BY <2>4, <2>8 DEF vars, coreVars
  <2> QED
    BY <2>5, <2>6, <2>7, <2>8 DEF Next, Terminated
<1> QED
  BY <1>1, <1>2, TypeCorrect, InvariantHolds, PTL DEF Spec

-----------------------------------------------------------------------------
(* What the end of wait_for_disconnect() says.                             *)

\* The only step of the caller out of the wait; the others are Interrupt and
\* the end of a process.
LEMMA WaitEnds ==
  ASSUME TypeOK, [Next]_vars, pc = "wait_disconnect", pc' # "wait_disconnect"
  PROVE  \/ pc' = "interrupted"
         \/ /\ WaitDisconnectReturns
            /\ core_client \in Clients
            /\ client[core_client].final_disconnect
            /\ pc' = IF client[core_client].need_reauth THEN "do_connect"
                     ELSE "ended"
            /\ UNCHANGED <<core, session, core_client>>
<1>1. core_client \in Clients
  BY DEF TypeOK, Outcomes
<1>2. Alive
  BY DEF Alive, Outcomes
<1>3. CASE CallerStep
  <2>1. WaitDisconnectReturns
    BY <1>3 DEF CallerStep, ConnectPhase1, WaitSleeps, WaitTimesOut, WaitSamlReturns,
       ConnectPhase2, ConnectPhase2Dbus, WaitConnectedReturns, DbusConnectReturns
  <2> QED BY <1>1, <2>1 DEF WaitDisconnectReturns, Awaited, Exit, coreVars
<1>4. CASE OthersStep
  BY <1>4 DEF OthersStep, ConnectPhase1Throws, CaptureToken, CaptureThrows,
     ConnectPhase2Throws, DbusConnectThrows, Interrupt, Exit, BackendDials,
     BackendConnects, BackendDisconnects
<1> QED
  BY <1>2, <1>3, <1>4 DEF Next, Terminated, CoreStep, CoreTeardown, vars

\* wait_for_disconnect() returns only when the session is over, and true
\* exactly if the server rejected it: an AUTH_FAILED or NEED_CREDS that the
\* thread has seen is never missed, and no other end is taken for one.
THEOREM HonestWait == Spec => WaitTellsTheReason
<1>1. TypeOK /\ IInv /\ SessionInv /\ [Next]_vars =>
        (pc = "wait_disconnect" /\ pc' \in {"do_connect", "ended"} =>
           /\ ~InSession(core_client)
           /\ pc' = "do_connect" <=> session[core_client] = "rejected")
  <2> SUFFICES ASSUME TypeOK, IInv, SessionInv, [Next]_vars,
                      pc = "wait_disconnect", pc' \in {"do_connect", "ended"}
               PROVE  /\ ~InSession(core_client)
                      /\ pc' = "do_connect" <=> session[core_client] = "rejected"
    OBVIOUS
  <2>1. /\ core_client \in Clients
        /\ client[core_client].final_disconnect
        /\ pc' = IF client[core_client].need_reauth THEN "do_connect" ELSE "ended"
    BY WaitEnds
  <2>2. ~InSession(core_client)
    BY <2>1 DEF IInv, SessionIsWaitedFor
  <2>3. client[core_client].need_reauth <=> session[core_client] = "rejected"
    BY <2>1 DEF SessionInv, SessionIsKnown
  <2> QED
    BY <2>1, <2>2, <2>3
<1> QED
  BY <1>1, TypeCorrect, InvariantHolds, SessionInvariantHolds, PTL
     DEF Spec, WaitTellsTheReason

\* In DBUS mode no CoreClient is ever given an answer to a challenge.
NeverAnswers == \A c \in Clients : config[c].state_id = None

LEMMA NextNeverAnswers ==
  ASSUME ConnectMode = "DBUS", TypeOK, NeverAnswers, [Next]_vars
  PROVE  NeverAnswers'
<1>1. ASSUME NEW c \in Clients, ConnectPhase1(c)
      PROVE  NeverAnswers'
  <2>1. config' = [config EXCEPT ![c] = Phase1Config]
    BY <1>1 DEF ConnectPhase1, StartClient
  <2>2. Phase1Config.state_id = None /\ config \in [Clients -> Configs]
    BY DEF Phase1Config, TypeOK, CoreTypeOK
  <2> QED BY <2>1, <2>2 DEF NeverAnswers
<1>2. CASE UNCHANGED config
  BY <1>2 DEF NeverAnswers
<1>3. CASE CallerStep
  <2>1. \A c \in Clients : ~ConnectPhase2(c)
    BY DEF ConnectPhase2
  <2>2. ~(\E c \in Clients : ConnectPhase1(c)) => UNCHANGED config
    BY <1>3, <2>1 DEF CallerStep, WaitSleeps, WaitTimesOut, WaitSamlReturns,
       ConnectPhase2Dbus, WaitConnectedReturns, DbusConnectReturns,
       WaitDisconnectReturns, Exit, coreVars
  <2> QED BY <1>1, <1>2, <2>2
<1>4. CASE OthersStep
  <2>1. UNCHANGED config
    BY <1>4 DEF OthersStep, ConnectPhase1Throws, CaptureToken, CaptureThrows,
       ConnectPhase2Throws, DbusConnectThrows, Interrupt, Exit, BackendDials,
       BackendConnects, BackendDisconnects, coreVars
  <2> QED BY <1>2, <2>1
<1>5. ASSUME NEW c \in Clients, CoreStep(c) \/ CoreTeardown(c)
      PROVE  NeverAnswers'
  BY <1>2, <1>5, CoreKeepsConfig DEF CoreStep, CoreTeardown
<1> QED
  BY <1>2, <1>3, <1>4, <1>5 DEF Next, Terminated, vars, coreVars

\* The finding about DBUS mode holds of every execution, not only of the one
\* that TLC prints: wait_for_disconnect() waits for the final disconnect of a
\* client that never connects, so only a signal ends it.
THEOREM DbusWaitsForSignal == Spec => OnlySignalsEndDbusWait
<1>1. CASE ConnectMode = "DBUS"
  <2>1. Init => NeverAnswers
    <3>1. Phase1Config.state_id = None
      BY DEF Phase1Config
    <3>2. Init => \A c \in Clients : config[c] = Phase1Config
      BY DEF Init, CoreInit
    <3> QED BY <3>1, <3>2 DEF NeverAnswers
  <2>2. TypeOK /\ NeverAnswers /\ [Next]_vars => NeverAnswers'
    BY <1>1, NextNeverAnswers
  <2>3. TypeOK /\ IInv /\ SessionInv /\ NeverAnswers /\ [Next]_vars =>
          (ConnectMode = "DBUS" /\ pc = "wait_disconnect" =>
             pc' \in {"wait_disconnect", "interrupted"})
    <3> SUFFICES ASSUME TypeOK, IInv, SessionInv, NeverAnswers, [Next]_vars,
                        pc = "wait_disconnect"
                 PROVE  pc' \in {"wait_disconnect", "interrupted"}
      OBVIOUS
    <3>1. \A c \in Clients : ~client[c].connected /\ ~client[c].final_disconnect
      BY DEF IInv, SessionIsWaitedFor, NeverAnswers, SessionInv, SessionIsKnown
    <3> QED BY <3>1, WaitEnds
  <2> QED
    BY <2>1, <2>2, <2>3, TypeCorrect, InvariantHolds, SessionInvariantHolds, PTL
       DEF Spec, OnlySignalsEndDbusWait
<1>2. CASE ConnectMode # "DBUS"
  <2>1. [Next]_vars => (ConnectMode = "DBUS" /\ pc = "wait_disconnect" =>
                          pc' \in {"wait_disconnect", "interrupted"})
    BY <1>2
  <2> QED
    BY <2>1, PTL DEF Spec, OnlySignalsEndDbusWait
<1> QED
  BY <1>1, <1>2

-----------------------------------------------------------------------------
(* The refinement.                                                         *)

\* The mapped variables in words of the program counter.
Mapped ==
  /\ pc \in {"do_connect", "wait_saml"} =>
       vpn_state = "connecting" /\ vpn_issuer = None /\ vpn_dialled = None
  /\ pc \in {"capture", "phase2"} =>
       /\ vpn_state = "login"
       /\ vpn_issuer = phase1.state_id
       /\ vpn_dialled = None
  /\ pc \in {"wait_connected", "wait_disconnect"} =>
       /\ session[core_client] = "none" => vpn_state = "answering"
       /\ session[core_client] = "established" => vpn_state = "connected"
       /\ session[core_client] = "rejected" => vpn_state = "expired"
       /\ vpn_issuer = phase1.state_id
       /\ vpn_dialled = peer[core_client]
  /\ pc \in Outcomes =>
       vpn_state = pc /\ vpn_issuer = None /\ vpn_dialled = None

\* The waited-for client has a session state.
WaitedSessionTyped ==
  pc \in {"wait_connected", "wait_disconnect"} =>
    session[core_client] \in Sessions

\* The mapping is defined wherever the session the caller waits on is typed.
LEMMA MappedHolds == WaitedSessionTyped => Mapped
<1> SUFFICES ASSUME WaitedSessionTyped PROVE Mapped
  OBVIOUS
<1>1. CASE pc \in {"do_connect", "wait_saml"}
  BY <1>1 DEF Mapped, vpn_state, vpn_issuer, vpn_dialled, Outcomes
<1>2. CASE pc \in {"capture", "phase2"}
  BY <1>2 DEF Mapped, vpn_state, vpn_issuer, vpn_dialled, Outcomes
<1>3. CASE pc \in {"wait_connected", "wait_disconnect"}
  BY <1>3 DEF Mapped, WaitedSessionTyped, vpn_state, vpn_issuer, vpn_dialled,
              Outcomes, Sessions
<1>4. CASE pc \in Outcomes
  BY <1>4 DEF Mapped, vpn_state, vpn_issuer, vpn_dialled, Outcomes
<1> QED
  BY <1>1, <1>2, <1>3, <1>4 DEF Mapped

\* That is the case in every typed state.
LEMMA TypedMapped == TypeOK => Mapped
<1>1. TypeOK => WaitedSessionTyped
  BY DEF TypeOK, CoreTypeOK, WaitedSessionTyped, Outcomes
<1> QED
  BY <1>1, MappedHolds

\* What the steps rest on.
Known ==
  /\ ConnectMode = "DIRECT"
  /\ TypeOK /\ IInv /\ SessionInv
  /\ Mapped

\* Nothing that the mapping looks at changes.
LEMMA MappedStutters ==
  ASSUME UNCHANGED <<pc, session, peer, core_client, phase1>>
  PROVE  UNCHANGED Vpn!vars
<1>1. UNCHANGED vpn_state
  BY DEF vpn_state
<1>2. UNCHANGED <<vpn_issuer, vpn_dialled>>
  BY <1>1 DEF vpn_issuer, vpn_dialled
<1> QED
  BY <1>1, <1>2 DEF Vpn!vars

\* A process that ends before the session has failed, after it it has ended,
\* and it can be interrupted at any time.
LEMMA ExitRefines ==
  ASSUME Known, Mapped', Alive, NEW outcome \in Outcomes, Exit(outcome),
         \/ outcome = "interrupted"
         \/ /\ outcome = "failed"
            /\ pc \in {"do_connect", "wait_saml", "capture", "phase2"}
         \/ /\ outcome = "failed"
            /\ pc = "wait_connected"
            /\ session[core_client] = "none"
         \/ /\ outcome = "ended"
            /\ pc = "wait_disconnect"
            /\ session[core_client] = "established"
  PROVE  Vpn!Finish
<1>1. vpn_state' = outcome /\ vpn_issuer' = None /\ vpn_dialled' = None
  BY DEF Exit, Mapped, Outcomes
<1>2. vpn_state \in Vpn!Live
  <2>1. pc \in {"do_connect", "wait_saml", "capture", "phase2",
                "wait_connected", "wait_disconnect"}
    BY DEF Known, TypeOK, Alive, IInv, DirectHasNoBackend, Points, Waits
  <2>2. pc \in {"wait_connected", "wait_disconnect"} =>
          session[core_client] \in Sessions
    BY DEF Known, TypeOK, CoreTypeOK, Outcomes
  <2> QED
    BY <2>1, <2>2 DEF Known, Vpn!Live, Mapped, Sessions
<1>3. \/ outcome = "interrupted"
      \/ /\ outcome = "failed"
         /\ vpn_state \in {"connecting", "login", "answering"}
      \/ outcome = "ended" /\ vpn_state = "connected"
  BY DEF Known, Mapped
<1> QED
  BY <1>1, <1>2, <1>3 DEF Vpn!Finish

\* The caller's steps.
LEMMA CallerRefines ==
  ASSUME Known, Mapped', Alive, CallerStep
  PROVE  Vpn!Next \/ UNCHANGED Vpn!vars
<1>0. "failed" \in Outcomes /\ "ended" \in Outcomes
  BY DEF Outcomes
<1>a. pc \in Waits =>
        /\ core_client \in Clients
        /\ SessionIsKnown(core_client)
        /\ client[core_client] \in Fields
        /\ session[core_client] \in Sessions
  BY DEF Known, SessionInv, TypeOK, CoreTypeOK, Waits, Outcomes
<1>1. ASSUME NEW c \in Clients, ConnectPhase1(c)
      PROVE  UNCHANGED Vpn!vars
  BY <1>1 DEF ConnectPhase1, Known, Mapped, Vpn!vars
<1>2. CASE WaitSleeps
  BY <1>2, MappedStutters DEF WaitSleeps
<1>3. CASE WaitTimesOut
  <2>1. CASE Awaited
    BY <1>3, <2>1, MappedStutters DEF WaitTimesOut
  <2>2. CASE ~Awaited
    <3>1. pc = "wait_connected" => session[core_client] = "none"
      BY <1>a, <2>2 DEF Awaited, SessionIsKnown, Waits
    <3> QED
      BY <1>0, <1>3, <2>2, <3>1, ExitRefines DEF WaitTimesOut, Vpn!Next
  <2> QED
    BY <2>1, <2>2
<1>4. CASE WaitSamlReturns
  <2>1. CASE client[core_client].error
    BY <1>0, <1>4, <2>1, ExitRefines DEF WaitSamlReturns, Vpn!Next
  <2>2. CASE ~client[core_client].error
    <3>1. client[core_client].state_id \in Servers
      BY <1>4, <1>a, <2>2 DEF WaitSamlReturns, Awaited, Waits, Known, IInv,
                              AddressIsRecorded, Fields
    <3>2. Vpn!Challenge(client[core_client].state_id)
      BY <1>4, <2>2 DEF WaitSamlReturns, Known, Mapped, Vpn!Challenge
    <3> QED
      BY <3>1, <3>2 DEF Vpn!Next
  <2> QED
    BY <2>1, <2>2
<1>5. ASSUME NEW c \in Clients, ConnectPhase2(c)
      PROVE  Vpn!Answer
  <2>1. session'[core_client'] = "none" /\ peer'[core_client'] = None
    BY <1>5 DEF ConnectPhase2, StartClient, Known, TypeOK, CoreTypeOK
  <2> QED
    BY <1>5, <2>1 DEF ConnectPhase2, Known, Mapped, Vpn!Answer
<1>6. ~ConnectPhase2Dbus
  BY DEF ConnectPhase2Dbus, Known
<1>7. CASE WaitConnectedReturns
  <2>1. CASE client[core_client].error
    <3>1. session[core_client] = "none"
      BY <1>7, <1>a, <2>1 DEF WaitConnectedReturns, SessionIsKnown, Waits
    <3> QED
      BY <1>0, <1>7, <2>1, <3>1, ExitRefines
         DEF WaitConnectedReturns, Vpn!Next
  <2>2. CASE ~client[core_client].error
    <3>1. pc = "wait_connected" /\ pc' = "wait_disconnect"
      BY <1>7, <2>2 DEF WaitConnectedReturns
    <3>2. UNCHANGED <<session, peer, core_client, phase1>>
      BY <1>7, <2>2 DEF WaitConnectedReturns, coreVars
    <3>3. session[core_client] \in Sessions
      BY <1>a, <3>1 DEF Waits
    <3> QED
      BY <3>1, <3>2, <3>3 DEF Known, Mapped, Vpn!vars, Sessions
  <2> QED
    BY <2>1, <2>2
<1>8. ~DbusConnectReturns
  BY DEF DbusConnectReturns, Known, IInv, DirectHasNoBackend
<1>9. CASE WaitDisconnectReturns
  <2>1. CASE client[core_client].need_reauth
    <3>1. session[core_client] = "rejected"
      BY <1>9, <1>a, <2>1 DEF WaitDisconnectReturns, SessionIsKnown, Waits
    <3>2. Vpn!Reauthenticate
      BY <1>9, <2>1, <3>1 DEF WaitDisconnectReturns, Known, Mapped,
                              Vpn!Reauthenticate
    <3> QED
      BY <3>2 DEF Vpn!Next
  <2>2. CASE ~client[core_client].need_reauth
    <3>1. session[core_client] = "established"
      BY <1>9, <1>a, <2>2 DEF WaitDisconnectReturns, Awaited, SessionIsKnown,
                              Waits, Sessions
    <3> QED
      BY <1>0, <1>9, <2>2, <3>1, ExitRefines
         DEF WaitDisconnectReturns, Vpn!Next
  <2> QED
    BY <2>1, <2>2
<1> QED
  BY <1>1, <1>2, <1>3, <1>4, <1>5, <1>6, <1>7, <1>8, <1>9
     DEF CallerStep, Vpn!Next

\* The steps of the user, the signals and the file system.
LEMMA OthersRefine ==
  ASSUME Known, Mapped', Alive, OthersStep
  PROVE  Vpn!Next \/ UNCHANGED Vpn!vars
<1>0. "failed" \in Outcomes /\ "interrupted" \in Outcomes
  BY DEF Outcomes
<1>1. CASE ConnectPhase1Throws \/ CaptureThrows \/ ConnectPhase2Throws
  BY <1>0, <1>1, ExitRefines
     DEF ConnectPhase1Throws, CaptureThrows, ConnectPhase2Throws, Vpn!Next
<1>2. CASE CaptureToken
  BY <1>2 DEF CaptureToken, Known, Mapped, Vpn!vars
<1>3. ~DbusConnectThrows
  BY DEF DbusConnectThrows, Known, IInv, DirectHasNoBackend
<1>4. CASE Interrupt
  BY <1>0, <1>4, ExitRefines DEF Interrupt, Vpn!Next
<1>5. CASE \/ \E s \in Servers : BackendDials(s)
           \/ BackendConnects
           \/ BackendDisconnects
  <2>1. UNCHANGED <<pc, session, peer, core_client, phase1>>
    BY <1>5 DEF BackendDials, BackendConnects, BackendDisconnects, coreVars
  <2> QED
    BY <2>1, MappedStutters
<1> QED
  BY <1>1, <1>2, <1>3, <1>4, <1>5 DEF OthersStep

\* The steps of the thread of the CoreClient the caller waits on.
LEMMA WaitedCoreRefines ==
  ASSUME Known, Mapped', pc \in {"wait_connected", "wait_disconnect"},
         Environment(core_client) \/ Teardown(core_client),
         UNCHANGED <<pc, core_client, phase1>>
  PROVE  Vpn!Next \/ UNCHANGED Vpn!vars
<1> DEFINE c == core_client
<1>a. c \in Clients /\ SessionIsKnown(c) /\ AnswerIsPinned(c)
  BY DEF Known, TypeOK, IInv, SessionInv, Outcomes
<1>b. /\ config[c].state_id = phase1.state_id
      /\ config[c].server_override = phase1.state_id
      /\ phase1.state_id # None
  BY <1>a DEF Known, SessionInv, AnswersCurrentLogin, AnswerIsPinned
<1>c. /\ core[c] \in Stages /\ session[c] \in Sessions
      /\ session \in [Clients -> Sessions]
      /\ peer \in [Clients -> Servers \cup {None}]
  BY <1>a DEF Known, TypeOK, CoreTypeOK
<1>1. CASE UNCHANGED <<session, peer>>
  BY <1>1, MappedStutters
<1>2. ASSUME NEW s \in Servers, socket_protect(c, s)
      PROVE  Vpn!Dial
  <2>1. s = phase1.state_id
    BY <1>2, <1>b DEF socket_protect
  <2>2. session[c] \in {"none", "established"}
    BY <1>2, <1>a, <1>c DEF socket_protect, SessionIsKnown, Sessions
  <2>3. peer'[c] = s /\ session' = session
    BY <1>2, <1>a, <1>c DEF socket_protect
  <2> QED
    BY <2>1, <2>2, <2>3 DEF Known, Mapped, Vpn!Dial
<1>3. CASE Connected(c)
  <2>1. peer[c] = phase1.state_id /\ peer' = peer
    BY <1>3, <1>b DEF Connected
  <2>2. session'[c] = "established"
    BY <1>3, <1>a, <1>c DEF Connected
  <2>3. session[c] \in {"none", "established"}
    BY <1>3, <1>a, <1>c DEF Connected, SessionIsKnown, Sessions
  <2>4. CASE session[c] = "none"
    BY <2>1, <2>2, <2>4 DEF Known, Mapped, Vpn!Establish, Vpn!Next
  <2>5. CASE session[c] = "established"
    BY <2>1, <2>2, <2>5 DEF Known, Mapped, Vpn!vars
  <2> QED
    BY <2>3, <2>4, <2>5
<1>4. CASE Reconnecting(c)
  <2>1. session[c] = "established"
    BY <1>4, <1>a, <1>c DEF Reconnecting, SessionIsKnown, Sessions
  <2>2. peer'[c] = None /\ session' = session
    BY <1>4, <1>a, <1>c DEF Reconnecting
  <2> QED
    BY <2>1, <2>2 DEF Known, Mapped, Vpn!Drop, Vpn!Next
<1>5. CASE NeedCreds(c) \/ AuthFailed(c)
  <2>1. Rejected(c) /\ peer' = peer
    BY <1>5 DEF NeedCreds, AuthFailed
  <2>2. CASE session[c] = "established"
    <3>1. session'[c] = "rejected"
      BY <1>a, <1>c, <2>1, <2>2 DEF Rejected
    <3> QED
      BY <2>1, <2>2, <3>1 DEF Known, Mapped, Vpn!Expire, Vpn!Next
  <2>3. CASE session[c] # "established"
    BY <1>1, <2>1, <2>3 DEF Rejected
  <2> QED
    BY <2>2, <2>3
<1>6. CASE \/ ConnectFails(c) \/ ChallengeParsed(c) \/ FatalError(c)
           \/ UnhandledFatal(c) \/ Teardown(c)
  <2>1. UNCHANGED <<session, peer>>
    BY <1>6 DEF ConnectFails, ChallengeParsed, FatalError, UnhandledFatal,
                Teardown, ChallengeDone, Disconnected, ThreadExits
  <2> QED
    BY <1>1, <2>1
<1> QED
  BY <1>2, <1>3, <1>4, <1>5, <1>6 DEF Environment, Vpn!Next

\* Any other CoreClient may do what it likes.
LEMMA OtherCoreStutters ==
  ASSUME Known, Mapped', Alive, NEW c \in Clients,
         Environment(c) \/ Teardown(c),
         UNCHANGED <<pc, core_client, phase1>>,
         pc \in {"wait_connected", "wait_disconnect"} => c # core_client
  PROVE  UNCHANGED Vpn!vars
<1>1. CASE pc \in {"wait_connected", "wait_disconnect"}
  <2>1. core_client \in Clients
    BY <1>1 DEF Known, TypeOK, Outcomes
  <2>2. /\ session'[core_client] = session[core_client]
        /\ peer'[core_client] = peer[core_client]
    BY <1>1, <2>1
       DEF Known, TypeOK, CoreTypeOK, Environment, Teardown, ConnectFails,
           socket_protect, ChallengeParsed, Connected, Reconnecting,
           NeedCreds, AuthFailed, FatalError, UnhandledFatal, ChallengeDone,
           Disconnected, ThreadExits, Rejected
  <2>3. session[core_client] \in Sessions
    BY <2>1 DEF Known, TypeOK, CoreTypeOK
  <2> QED
    BY <1>1, <2>2, <2>3 DEF Known, Mapped, Vpn!vars, Sessions
<1>2. CASE pc \in {"do_connect", "wait_saml", "capture", "phase2"}
  BY <1>2 DEF Known, Mapped, Vpn!vars
<1> QED
  BY <1>1, <1>2 DEF Known, TypeOK, Alive, Points, Waits, IInv,
                    DirectHasNoBackend

\* The command line client, its library and their threads implement the
\* connection the user was promised: the token goes to its issuer, a tunnel is
\* reported only when the issuer accepted it, a rejected session is renewed
\* and nothing else is, and the exit status tells the two ends apart.
THEOREM Refinement ==
  ASSUME ConnectMode = "DIRECT"
  PROVE  Spec => Vpn!Safety
<1>1. Init => Vpn!Init
  BY DEF Init, Vpn!Init, vpn_state, vpn_issuer, vpn_dialled, Outcomes
<1>2. Known /\ TypeOK' /\ Mapped' /\ [Next]_vars => [Vpn!Next]_(Vpn!vars)
  <2> SUFFICES ASSUME Known, TypeOK', Mapped', [Next]_vars
               PROVE  Vpn!Next \/ UNCHANGED Vpn!vars
    OBVIOUS
  <2>1. CASE Alive /\ CallerStep
    BY <2>1, CallerRefines
  <2>2. CASE Alive /\ OthersStep
    BY <2>2, OthersRefine
  <2>3. ASSUME Alive, NEW c \in Clients, CoreStep(c) \/ CoreTeardown(c)
        PROVE  Vpn!Next \/ UNCHANGED Vpn!vars
    <3>1. /\ Environment(c) \/ Teardown(c)
          /\ UNCHANGED <<pc, core_client, phase1>>
      BY <2>3 DEF CoreStep, CoreTeardown
    <3>2. CASE /\ pc \in {"wait_connected", "wait_disconnect"}
               /\ c = core_client
      BY <3>1, <3>2, WaitedCoreRefines
    <3>3. CASE pc \in {"wait_connected", "wait_disconnect"} => c # core_client
      BY <2>3, <3>1, <3>3, OtherCoreStutters
    <3> QED
      BY <3>2, <3>3
  <2>4. CASE UNCHANGED vars
    BY <2>4, MappedStutters DEF vars, coreVars
  <2> QED
    BY <2>1, <2>2, <2>3, <2>4 DEF Next, Terminated
<1>3. TypeOK /\ IInv /\ SessionInv => Known
  BY TypedMapped DEF Known
<1> QED
  BY <1>1, <1>2, <1>3, TypedMapped, TypeCorrect, InvariantHolds,
     SessionInvariantHolds, PTL DEF Spec, Vpn!Safety

=============================================================================
