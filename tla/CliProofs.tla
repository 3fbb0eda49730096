----------------------------- MODULE CliProofs -----------------------------
(***************************************************************************)
(* Proofs about the command line client, for any number of CoreClients and *)
(* servers and any profile.                                                *)
(***************************************************************************)
EXTENDS Cli, TLAPS

-----------------------------------------------------------------------------
(* Type correctness.                                                       *)

\* Creating a CoreClient and starting its thread keeps its fields typed.
LEMMA StartClientType ==
  ASSUME CoreTypeOK, NEW c \in Clients, NEW cfg \in Configs, StartClient(c, cfg)
  PROVE  CoreTypeOK'
<1>1. Constructed \in Fields
  BY DEF Constructed, Fields
<1>2. asleep' \in Clients \cup {None}
  BY DEF StartClient
<1> QED
  BY <1>1, <1>2 DEF StartClient, CoreTypeOK, Stages, Sessions

\* So does every step of the thread inside connect().
LEMMA CoreStepType ==
  ASSUME CoreTypeOK, NEW c \in Clients, Environment(c) \/ Teardown(c)
  PROVE  CoreTypeOK'
<1>a. client[c] \in Fields
  BY DEF CoreTypeOK
<1>b. /\ [client[c] EXCEPT !.done = TRUE] \in Fields
      /\ [client[c] EXCEPT !.connected = TRUE] \in Fields
      /\ [client[c] EXCEPT !.error = TRUE] \in Fields
      /\ [client[c] EXCEPT !.need_reauth = TRUE] \in Fields
      /\ [client[c] EXCEPT !.final_disconnect = TRUE] \in Fields
  BY <1>a DEF Fields
<1>1. CASE ConnectFails(c)
  BY <1>1 DEF ConnectFails, CoreTypeOK, Stages
<1>2. ASSUME NEW s \in Servers, socket_protect(c, s)
      PROVE  CoreTypeOK'
  <2>1. [client[c] EXCEPT !.remote_ip = s] \in Fields
    BY <1>a DEF Fields
  <2> QED
    BY <1>2, <2>1 DEF socket_protect, CoreTypeOK, Stages
<1>3. CASE ChallengeParsed(c)
  <2>1. [client[c] EXCEPT !.state_id = peer[c]] \in Fields
    BY <1>a DEF Fields, CoreTypeOK
  <2> QED
    BY <1>3, <2>1 DEF ChallengeParsed, CoreTypeOK, Stages
<1>4. CASE Connected(c)
  BY <1>4, <1>b DEF Connected, notify_all, CoreTypeOK, Stages, Sessions
<1>5. CASE Reconnecting(c)
  BY <1>5 DEF Reconnecting, CoreTypeOK, Stages
<1>6. CASE NeedCreds(c)
  <2>1. client' \in [Clients -> Fields]
    BY <1>6, <1>b DEF NeedCreds, CoreTypeOK
  <2>2. session' \in [Clients -> Sessions]
    BY <1>6 DEF NeedCreds, Rejected, CoreTypeOK, Sessions
  <2> QED
    BY <1>6, <2>1, <2>2 DEF NeedCreds, CoreTypeOK, Stages
<1>7. CASE AuthFailed(c)
  <2>1. client' \in [Clients -> Fields]
    BY <1>7, <1>b DEF AuthFailed, CoreTypeOK
  <2>2. session' \in [Clients -> Sessions]
    BY <1>7 DEF AuthFailed, Rejected, CoreTypeOK, Sessions
  <2>3. asleep' \in Clients \cup {None}
    BY <1>7 DEF AuthFailed, notify_all, CoreTypeOK
  <2>4. core' \in [Clients -> Stages]
    BY <1>7 DEF AuthFailed, CoreTypeOK, Stages
  <2> QED
    BY <1>7, <2>1, <2>2, <2>3, <2>4 DEF AuthFailed, CoreTypeOK
<1>8. CASE FatalError(c)
  <2>1. client' \in [Clients -> Fields]
    BY <1>8, <1>b DEF FatalError, CoreTypeOK
  <2>2. asleep' \in Clients \cup {None}
    BY <1>8 DEF FatalError, notify_all, CoreTypeOK
  <2> QED
    BY <1>8, <2>1, <2>2 DEF FatalError, CoreTypeOK, Stages
<1>9. CASE UnhandledFatal(c)
  BY <1>9 DEF UnhandledFatal, CoreTypeOK, Stages
<1>10. CASE ChallengeDone(c)
  BY <1>10, <1>b DEF ChallengeDone, notify_all, CoreTypeOK, Stages
<1>11. CASE Disconnected(c)
  <2>1. client' \in [Clients -> Fields]
    BY <1>11, <1>b DEF Disconnected, CoreTypeOK
  <2>2. asleep' \in Clients \cup {None}
    BY <1>11 DEF Disconnected, notify_all, CoreTypeOK
  <2> QED
    BY <1>11, <2>1, <2>2 DEF Disconnected, CoreTypeOK, Stages
<1>12. CASE ThreadExits(c)
  BY <1>12 DEF ThreadExits, CoreTypeOK, Stages
<1> QED
  BY <1>1, <1>2, <1>3, <1>4, <1>5, <1>6, <1>7, <1>8, <1>9, <1>10, <1>11, <1>12
     DEF Environment, Teardown

\* So does the end of the process.
LEMMA ExitType ==
  ASSUME TypeOK, NEW outcome \in Outcomes, Exit(outcome),
         dbus' \in [tunnel : {"none", "connecting", "up", "down"},
                    dialled : Servers \cup {None}]
  PROVE  TypeOK'
BY DEF TypeOK, CoreTypeOK, Exit, Points, Outcomes, Waits

\* And every step of the caller.
LEMMA CallerType ==
  ASSUME TypeOK, CallerStep
  PROVE  TypeOK'
<1>0. "failed" \in Outcomes /\ "ended" \in Outcomes
  BY DEF Outcomes
<1>1. ASSUME NEW c \in Clients, ConnectPhase1(c)
      PROVE  TypeOK'
  <2>1. Phase1Config \in Configs
    BY DEF Phase1Config, Configs
  <2>2. CoreTypeOK'
    BY <1>1, <2>1, StartClientType DEF ConnectPhase1, TypeOK
  <2> QED
    BY <1>1, <2>2, CoreClientAssumption DEF ConnectPhase1, TypeOK, Points, Waits, Outcomes
<1>2. CASE WaitSleeps
  BY <1>2 DEF WaitSleeps, CoreTypeOK, TypeOK, Points, Waits, Outcomes
<1>3. CASE WaitTimesOut
  <2>1. CASE Awaited
    BY <1>3, <2>1 DEF WaitTimesOut, CoreTypeOK, TypeOK, Points, Waits, Outcomes
  <2>2. CASE ~Awaited
    BY <1>0, <1>3, <2>2, ExitType DEF WaitTimesOut, TypeOK
  <2> QED BY <2>1, <2>2
<1>4. CASE WaitSamlReturns
  <2>1. CASE client[core_client].error
    BY <1>0, <1>4, <2>1, ExitType DEF WaitSamlReturns, TypeOK
  <2>2. CASE ~client[core_client].error
    <3>1. client[core_client] \in Fields
      BY <1>4 DEF WaitSamlReturns, CoreTypeOK, TypeOK, Points, Waits, Outcomes
    <3> QED
      BY <1>4, <2>2, <3>1 DEF WaitSamlReturns, CoreTypeOK, coreVars, Fields, TypeOK, Points, Waits, Outcomes
  <2> QED BY <2>1, <2>2
<1>5. ASSUME NEW c \in Clients, ConnectPhase2(c)
      PROVE  TypeOK'
  <2> DEFINE cfg == [state_id |-> phase1.state_id,
                     server_override |-> phase1.remote_ip]
  <2>1. cfg \in Configs
    BY DEF Configs, TypeOK
  <2>2. CoreTypeOK'
    BY <1>5, <2>1, StartClientType DEF ConnectPhase2, TypeOK
  <2> QED
    BY <1>5, <2>2, CoreClientAssumption DEF ConnectPhase2, TypeOK, Points, Waits, Outcomes
<1>6. CASE ConnectPhase2Dbus
  BY <1>6 DEF ConnectPhase2Dbus, CoreTypeOK, coreVars, TypeOK, Points, Waits, Outcomes
<1>7. CASE WaitConnectedReturns
  <2>1. CASE client[core_client].error
    BY <1>0, <1>7, <2>1, ExitType DEF WaitConnectedReturns, TypeOK
  <2>2. CASE ~client[core_client].error
    BY <1>7, <2>2 DEF WaitConnectedReturns, CoreTypeOK, coreVars, TypeOK, Points, Waits, Outcomes
  <2> QED BY <2>1, <2>2
<1>8. CASE DbusConnectReturns
  BY <1>8 DEF DbusConnectReturns, CoreTypeOK, coreVars, TypeOK, Points, Waits, Outcomes
<1>9. CASE WaitDisconnectReturns
  <2>1. CASE client[core_client].need_reauth
    BY <1>9, <2>1 DEF WaitDisconnectReturns, CoreTypeOK, coreVars, TypeOK, Points, Waits, Outcomes
  <2>2. CASE ~client[core_client].need_reauth
    BY <1>0, <1>9, <2>2, ExitType DEF WaitDisconnectReturns, TypeOK
  <2> QED BY <2>1, <2>2
<1> QED
  BY <1>1, <1>2, <1>3, <1>4, <1>5, <1>6, <1>7, <1>8, <1>9 DEF CallerStep

\* And every step of the user, the network, the signals and the backend.
LEMMA OthersType ==
  ASSUME TypeOK, OthersStep
  PROVE  TypeOK'
<1>0. "failed" \in Outcomes /\ "interrupted" \in Outcomes
  BY DEF Outcomes
<1>1. CASE ConnectPhase1Throws
  BY <1>0, <1>1, ExitType DEF ConnectPhase1Throws, TypeOK
<1>2. CASE CaptureToken
  BY <1>2 DEF CaptureToken, coreVars, CoreTypeOK, TypeOK, Points, Waits,
              Outcomes
<1>3. CASE CaptureThrows
  BY <1>0, <1>3, ExitType DEF CaptureThrows, TypeOK
<1>4. CASE ConnectPhase2Throws
  BY <1>0, <1>4, ExitType DEF ConnectPhase2Throws, TypeOK
<1>5. CASE DbusConnectThrows
  BY <1>0, <1>5, ExitType DEF DbusConnectThrows, TypeOK
<1>6. CASE Interrupt
  <2>1. dbus' \in [tunnel : {"none", "connecting", "up", "down"},
                   dialled : Servers \cup {None}]
    BY <1>6 DEF Interrupt, TypeOK
  <2> QED
    BY <1>0, <1>6, <2>1, ExitType DEF Interrupt
<1>7. ASSUME NEW s \in Servers, BackendDials(s)
      PROVE  TypeOK'
  BY <1>7 DEF BackendDials, coreVars, CoreTypeOK, TypeOK
<1>8. CASE BackendConnects
  BY <1>8 DEF BackendConnects, coreVars, CoreTypeOK, TypeOK
<1>9. CASE BackendDisconnects
  BY <1>9 DEF BackendDisconnects, coreVars, CoreTypeOK, TypeOK
<1> QED
  BY <1>1, <1>2, <1>3, <1>4, <1>5, <1>6, <1>7, <1>8, <1>9 DEF OthersStep

\* Every reachable state of the client is typed, in both modes.
THEOREM TypeCorrect == Spec => []TypeOK
<1>1. Init => TypeOK
  <2> SUFFICES ASSUME Init PROVE TypeOK
    OBVIOUS
  <2>1. Constructed \in Fields /\ Phase1Config \in Configs
    BY DEF Constructed, Fields, Phase1Config, Configs
  <2>2. CoreTypeOK
    BY <2>1 DEF Init, CoreInit, CoreTypeOK, Stages, Sessions
  <2> QED
    BY <2>2 DEF Init, TypeOK, Points, NoTunnel
<1>2. TypeOK /\ [Next]_vars => TypeOK'
  <2> SUFFICES ASSUME TypeOK, [Next]_vars PROVE TypeOK'
    OBVIOUS
  <2>1. CASE CallerStep
    BY <2>1, CallerType
  <2>2. CASE OthersStep
    BY <2>2, OthersType
  <2>3. ASSUME NEW c \in Clients, CoreStep(c) \/ CoreTeardown(c)
        PROVE  TypeOK'
    <3>1. CoreTypeOK'
      BY <2>3, CoreStepType DEF CoreStep, CoreTeardown, TypeOK
    <3> QED
      BY <2>3, <3>1 DEF CoreStep, CoreTeardown, TypeOK
  <2>4. CASE UNCHANGED vars
    BY <2>4 DEF vars, coreVars, TypeOK, CoreTypeOK
  <2> QED
    BY <2>1, <2>2, <2>3, <2>4 DEF Next, Terminated
<1> QED
  BY <1>1, <1>2, PTL DEF Spec

-----------------------------------------------------------------------------
(* The inductive invariant: what the thread of c does to the part of it    *)
(* that speaks of d.                                                       *)

\* Every socket is recorded before it is used, and none is opened after the
\* challenge.
LEMMA CoreKeepsAddress ==
  ASSUME TypeOK, NEW c \in Clients, NEW d \in Clients,
         Environment(c) \/ Teardown(c), AddressIsRecorded(d)
  PROVE  AddressIsRecorded(d)'
<1> USE DEF TypeOK, CoreTypeOK, Fields, AddressIsRecorded
<1>1. CASE ConnectFails(c)
  BY <1>1 DEF ConnectFails
<1>2. ASSUME NEW s \in Servers, socket_protect(c, s)
      PROVE  AddressIsRecorded(d)'
  BY <1>2 DEF socket_protect
<1>3. CASE ChallengeParsed(c)
  BY <1>3 DEF ChallengeParsed
<1>4. CASE Connected(c)
  BY <1>4 DEF Connected
<1>5. CASE Reconnecting(c)
  BY <1>5 DEF Reconnecting
<1>6. CASE NeedCreds(c)
  BY <1>6 DEF NeedCreds
<1>7. CASE AuthFailed(c)
  BY <1>7 DEF AuthFailed
<1>8. CASE FatalError(c)
  BY <1>8 DEF FatalError
<1>9. CASE UnhandledFatal(c)
  BY <1>9 DEF UnhandledFatal
<1>10. CASE ChallengeDone(c)
  BY <1>10 DEF ChallengeDone
<1>11. CASE Disconnected(c)
  BY <1>11 DEF Disconnected
<1>12. CASE ThreadExits(c)
  BY <1>12 DEF ThreadExits
<1> QED
  BY <1>1, <1>2, <1>3, <1>4, <1>5, <1>6, <1>7, <1>8, <1>9,
     <1>10, <1>11, <1>12
     DEF Environment, Teardown

\* The server override is obeyed on every connect and reconnect.
LEMMA CoreKeepsPin ==
  ASSUME TypeOK, NEW c \in Clients, NEW d \in Clients,
         Environment(c) \/ Teardown(c), AnswerIsPinned(d)
  PROVE  AnswerIsPinned(d)'
<1> USE DEF TypeOK, CoreTypeOK, Fields, AnswerIsPinned
<1>1. CASE ConnectFails(c)
  BY <1>1 DEF ConnectFails
<1>2. ASSUME NEW s \in Servers, socket_protect(c, s)
      PROVE  AnswerIsPinned(d)'
  BY <1>2 DEF socket_protect
<1>3. CASE ChallengeParsed(c)
  BY <1>3 DEF ChallengeParsed
<1>4. CASE Connected(c)
  BY <1>4 DEF Connected
<1>5. CASE Reconnecting(c)
  BY <1>5 DEF Reconnecting
<1>6. CASE NeedCreds(c)
  BY <1>6 DEF NeedCreds
<1>7. CASE AuthFailed(c)
  BY <1>7 DEF AuthFailed
<1>8. CASE FatalError(c)
  BY <1>8 DEF FatalError
<1>9. CASE UnhandledFatal(c)
  BY <1>9 DEF UnhandledFatal
<1>10. CASE ChallengeDone(c)
  BY <1>10 DEF ChallengeDone
<1>11. CASE Disconnected(c)
  BY <1>11 DEF Disconnected
<1>12. CASE ThreadExits(c)
  BY <1>12 DEF ThreadExits
<1> QED
  BY <1>1, <1>2, <1>3, <1>4, <1>5, <1>6, <1>7, <1>8, <1>9,
     <1>10, <1>11, <1>12
     DEF Environment, Teardown

\* CONNECTED needs Phase 2 credentials, DISCONNECTED is the last event.
LEMMA CoreKeepsSession ==
  ASSUME TypeOK, NEW c \in Clients, NEW d \in Clients,
         Environment(c) \/ Teardown(c), SessionIsWaitedFor(d),
         UNCHANGED <<pc, core_client>>
  PROVE  SessionIsWaitedFor(d)'
<1> USE DEF TypeOK, CoreTypeOK, Fields, SessionIsWaitedFor, InSession, Alive
<1>1. CASE ConnectFails(c)
  BY <1>1 DEF ConnectFails
<1>2. ASSUME NEW s \in Servers, socket_protect(c, s)
      PROVE  SessionIsWaitedFor(d)'
  BY <1>2 DEF socket_protect
<1>3. CASE ChallengeParsed(c)
  BY <1>3 DEF ChallengeParsed
<1>4. CASE Connected(c)
  BY <1>4 DEF Connected
<1>5. CASE Reconnecting(c)
  BY <1>5 DEF Reconnecting
<1>6. CASE NeedCreds(c)
  BY <1>6 DEF NeedCreds
<1>7. CASE AuthFailed(c)
  BY <1>7 DEF AuthFailed
<1>8. CASE FatalError(c)
  BY <1>8 DEF FatalError
<1>9. CASE UnhandledFatal(c)
  BY <1>9 DEF UnhandledFatal
<1>10. CASE ChallengeDone(c)
  BY <1>10 DEF ChallengeDone
<1>11. CASE Disconnected(c)
  BY <1>11 DEF Disconnected
<1>12. CASE ThreadExits(c)
  BY <1>12 DEF ThreadExits
<1> QED
  BY <1>1, <1>2, <1>3, <1>4, <1>5, <1>6, <1>7, <1>8, <1>9,
     <1>10, <1>11, <1>12
     DEF Environment, Teardown

\* The thread function keeps its shared_ptr until connect() has returned.
LEMMA CoreKeepsOwner ==
  ASSUME TypeOK, NEW c \in Clients, NEW d \in Clients,
         Environment(c) \/ Teardown(c),
         core[d] # "exited" => "thread" \in holders[d]
  PROVE  core'[d] # "exited" => "thread" \in holders'[d]
<1> USE DEF TypeOK, CoreTypeOK, Fields, Stages
<1>1. CASE ConnectFails(c)
  BY <1>1 DEF ConnectFails
<1>2. ASSUME NEW s \in Servers, socket_protect(c, s)
      PROVE  core'[d] # "exited" => "thread" \in holders'[d]
  BY <1>2 DEF socket_protect
<1>3. CASE ChallengeParsed(c)
  BY <1>3 DEF ChallengeParsed
<1>4. CASE Connected(c)
  BY <1>4 DEF Connected
<1>5. CASE Reconnecting(c)
  BY <1>5 DEF Reconnecting
<1>6. CASE NeedCreds(c)
  BY <1>6 DEF NeedCreds
<1>7. CASE AuthFailed(c)
  BY <1>7 DEF AuthFailed
<1>8. CASE FatalError(c)
  BY <1>8 DEF FatalError
<1>9. CASE UnhandledFatal(c)
  BY <1>9 DEF UnhandledFatal
<1>10. CASE ChallengeDone(c)
  BY <1>10 DEF ChallengeDone
<1>11. CASE Disconnected(c)
  BY <1>11 DEF Disconnected
<1>12. CASE ThreadExits(c)
  BY <1>12 DEF ThreadExits
<1> QED
  BY <1>1, <1>2, <1>3, <1>4, <1>5, <1>6, <1>7, <1>8, <1>9,
     <1>10, <1>11, <1>12
     DEF Environment, Teardown

\* Whatever makes the predicate of a wait true also notifies.
LEMMA CoreWakesCaller ==
  ASSUME TypeOK, NEW c \in Clients, Environment(c) \/ Teardown(c), NoLostWakeup,
         UNCHANGED <<pc, core_client>>
  PROVE  NoLostWakeup'
<1> USE DEF TypeOK, CoreTypeOK, Fields, NoLostWakeup, Awaited, Waits
<1>1. CASE ConnectFails(c)
  BY <1>1 DEF ConnectFails
<1>2. ASSUME NEW s \in Servers, socket_protect(c, s)
      PROVE  NoLostWakeup'
  BY <1>2 DEF socket_protect
<1>3. CASE ChallengeParsed(c)
  BY <1>3 DEF ChallengeParsed
<1>4. CASE Connected(c)
  BY <1>4 DEF Connected, notify_all
<1>5. CASE Reconnecting(c)
  BY <1>5 DEF Reconnecting
<1>6. CASE NeedCreds(c)
  BY <1>6 DEF NeedCreds
<1>7. CASE AuthFailed(c)
  BY <1>7 DEF AuthFailed, notify_all
<1>8. CASE FatalError(c)
  BY <1>8 DEF FatalError, notify_all
<1>9. CASE UnhandledFatal(c)
  BY <1>9 DEF UnhandledFatal
<1>10. CASE ChallengeDone(c)
  BY <1>10 DEF ChallengeDone, notify_all
<1>11. CASE Disconnected(c)
  BY <1>11 DEF Disconnected, notify_all
<1>12. CASE ThreadExits(c)
  BY <1>12 DEF ThreadExits
<1> QED
  BY <1>1, <1>2, <1>3, <1>4, <1>5, <1>6, <1>7, <1>8, <1>9,
     <1>10, <1>11, <1>12
     DEF Environment, Teardown

\* A step of a thread keeps the whole invariant.
LEMMA CoreKeepsIInv ==
  ASSUME TypeOK, IInv, NEW c \in Clients, CoreStep(c) \/ CoreTeardown(c)
  PROVE  IInv'
<1>1. /\ Environment(c) \/ Teardown(c)
      /\ UNCHANGED <<pc, core_client, phase1, dbus>>
  BY DEF CoreStep, CoreTeardown
<1>2. NoLostWakeup'
  BY <1>1, CoreWakesCaller DEF IInv
<1>3. ChallengeReadWhole' /\ DirectHasNoBackend'
  BY <1>1 DEF IInv, ChallengeReadWhole, DirectHasNoBackend, NoTunnel
<1>4. ASSUME NEW d \in Clients
      PROVE  /\ AddressIsRecorded(d)'
             /\ AnswerIsPinned(d)'
             /\ SessionIsWaitedFor(d)'
             /\ core'[d] # "exited" => "thread" \in holders'[d]
  BY <1>1, CoreKeepsAddress, CoreKeepsPin, CoreKeepsSession, CoreKeepsOwner
     DEF IInv
<1> QED
  BY <1>2, <1>3, <1>4 DEF IInv

\* What the caller does to no CoreClient keeps what is said of each of them,
\* provided it does not stop waiting for one that is in a session.
LEMMA ClientsUntouched ==
  ASSUME TypeOK, IInv, NEW d \in Clients,
         UNCHANGED <<client, config, core, peer, holders, core_client>>,
         pc \in Outcomes => pc' \in Outcomes,
         pc \in {"wait_connected", "wait_disconnect"} =>
           \/ pc' \in {"wait_connected", "wait_disconnect"} \cup Outcomes
           \/ ~InSession(core_client)
  PROVE  /\ AddressIsRecorded(d)'
         /\ AnswerIsPinned(d)'
         /\ SessionIsWaitedFor(d)'
         /\ core'[d] # "exited" => "thread" \in holders'[d]
<1>1. AddressIsRecorded(d)' /\ AnswerIsPinned(d)'
  BY DEF IInv, AddressIsRecorded, AnswerIsPinned
<1>2. SessionIsWaitedFor(d)'
  BY DEF IInv, SessionIsWaitedFor, InSession, Alive, Outcomes
<1> QED
  BY <1>1, <1>2 DEF IInv

\* A fresh CoreClient is in no session yet, and it replaces none that is.
LEMMA StartKeepsClients ==
  ASSUME TypeOK, IInv, Alive, NEW c \in Clients, NEW cfg \in Configs,
         StartClient(c, cfg),
         cfg.state_id # None => cfg.server_override = cfg.state_id,
         pc \notin {"wait_connected", "wait_disconnect"},
         core_client' = c,
         cfg.state_id # None => pc' = "wait_connected",
         NEW d \in Clients
  PROVE  /\ AddressIsRecorded(d)'
         /\ AnswerIsPinned(d)'
         /\ SessionIsWaitedFor(d)'
         /\ core'[d] # "exited" => "thread" \in holders'[d]
<1> USE DEF TypeOK, CoreTypeOK, StartClient, Constructed
<1>1. AddressIsRecorded(d)'
  BY DEF IInv, AddressIsRecorded
<1>2. AnswerIsPinned(d)'
  BY DEF IInv, AnswerIsPinned
<1>3. SessionIsWaitedFor(d)'
  BY DEF IInv, SessionIsWaitedFor, InSession, Alive
<1>4. core'[d] # "exited" => "thread" \in holders'[d]
  BY DEF IInv
<1> QED
  BY <1>1, <1>2, <1>3, <1>4

\* The end of the process keeps it trivially: nobody waits any more.
LEMMA ExitKeepsIInv ==
  ASSUME TypeOK, IInv, NEW outcome \in Outcomes, Exit(outcome),
         ConnectMode = "DIRECT" => UNCHANGED dbus
  PROVE  IInv'
<1>1. NoLostWakeup' /\ ChallengeReadWhole' /\ DirectHasNoBackend'
  BY DEF IInv, Exit, NoLostWakeup, ChallengeReadWhole, Outcomes, DirectHasNoBackend, NoTunnel
<1>2. ASSUME NEW d \in Clients
      PROVE  /\ AddressIsRecorded(d)'
             /\ AnswerIsPinned(d)'
             /\ SessionIsWaitedFor(d)'
             /\ core'[d] # "exited" => "thread" \in holders'[d]
  BY ClientsUntouched DEF Exit
<1> QED
  BY <1>1, <1>2 DEF IInv

\* The steps of the caller.
LEMMA CallerKeepsIInv ==
  ASSUME TypeOK, IInv, Alive, CallerStep
  PROVE  IInv'
<1>0. "failed" \in Outcomes /\ "ended" \in Outcomes
  BY DEF Outcomes
<1>1. ASSUME NEW c \in Clients, ConnectPhase1(c)
      PROVE  IInv'
  <2>1. /\ Phase1Config \in Configs
        /\ Phase1Config.state_id = None
    BY DEF Phase1Config, Configs
  <2>2. NoLostWakeup' /\ ChallengeReadWhole' /\ DirectHasNoBackend'
    BY <1>1 DEF ConnectPhase1, StartClient, IInv, NoLostWakeup,
                ChallengeReadWhole, DirectHasNoBackend, NoTunnel
  <2>3. ASSUME NEW d \in Clients
        PROVE  /\ AddressIsRecorded(d)'
               /\ AnswerIsPinned(d)'
               /\ SessionIsWaitedFor(d)'
               /\ core'[d] # "exited" => "thread" \in holders'[d]
    BY <1>1, <2>1, StartKeepsClients DEF ConnectPhase1
  <2> QED
    BY <2>2, <2>3 DEF IInv
<1>2. CASE WaitSleeps
  <2>1. NoLostWakeup' /\ ChallengeReadWhole' /\ DirectHasNoBackend'
    BY <1>2 DEF WaitSleeps, IInv, NoLostWakeup, Awaited, ChallengeReadWhole,
                DirectHasNoBackend, NoTunnel
  <2> QED
    BY <1>2, <2>1, ClientsUntouched DEF WaitSleeps, IInv, Outcomes
<1>3. CASE WaitTimesOut
  <2>1. CASE Awaited
    BY <1>3, <2>1 DEF WaitTimesOut, IInv, NoLostWakeup
  <2>2. CASE ~Awaited
    BY <1>0, <1>3, <2>2, ExitKeepsIInv DEF WaitTimesOut
  <2> QED
    BY <2>1, <2>2
<1>4. CASE WaitSamlReturns
  <2>1. CASE client[core_client].error
    BY <1>0, <1>4, <2>1, ExitKeepsIInv DEF WaitSamlReturns
  <2>2. CASE ~client[core_client].error
    <3>1. core_client \in Clients /\ client[core_client].done
      BY <1>4, <2>2 DEF WaitSamlReturns, Awaited, TypeOK, Outcomes
    <3>2. ChallengeReadWhole'
      BY <1>4, <2>2, <3>1 DEF WaitSamlReturns, IInv, AddressIsRecorded,
                              ChallengeReadWhole
    <3>3. NoLostWakeup' /\ DirectHasNoBackend'
      BY <1>4, <2>2 DEF WaitSamlReturns, coreVars, IInv, NoLostWakeup, DirectHasNoBackend, NoTunnel
    <3> QED
      BY <1>4, <2>2, <3>2, <3>3, ClientsUntouched
         DEF WaitSamlReturns, coreVars, IInv, Outcomes
  <2> QED
    BY <2>1, <2>2
<1>5. ASSUME NEW c \in Clients, ConnectPhase2(c)
      PROVE  IInv'
  <2> DEFINE cfg == [state_id |-> phase1.state_id,
                     server_override |-> phase1.remote_ip]
  <2>1. cfg \in Configs /\ cfg.server_override = cfg.state_id
    BY <1>5 DEF Configs, TypeOK, IInv, ChallengeReadWhole, ConnectPhase2
  <2>2. NoLostWakeup' /\ ChallengeReadWhole' /\ DirectHasNoBackend'
    BY <1>5 DEF ConnectPhase2, StartClient, IInv, NoLostWakeup,
                ChallengeReadWhole, DirectHasNoBackend, NoTunnel
  <2>3. ASSUME NEW d \in Clients
        PROVE  /\ AddressIsRecorded(d)'
               /\ AnswerIsPinned(d)'
               /\ SessionIsWaitedFor(d)'
               /\ core'[d] # "exited" => "thread" \in holders'[d]
    BY <1>5, <2>1, StartKeepsClients DEF ConnectPhase2
  <2> QED
    BY <2>2, <2>3 DEF IInv
<1>6. CASE ConnectPhase2Dbus
  <2>1. NoLostWakeup' /\ ChallengeReadWhole' /\ DirectHasNoBackend'
    BY <1>6 DEF ConnectPhase2Dbus, coreVars, IInv, NoLostWakeup, Waits,
                ChallengeReadWhole, DirectHasNoBackend
  <2> QED
    BY <1>6, <2>1, ClientsUntouched
       DEF ConnectPhase2Dbus, coreVars, IInv, Outcomes
<1>7. CASE WaitConnectedReturns
  <2>1. CASE client[core_client].error
    BY <1>0, <1>7, <2>1, ExitKeepsIInv DEF WaitConnectedReturns
  <2>2. CASE ~client[core_client].error
    <3>1. NoLostWakeup' /\ ChallengeReadWhole' /\ DirectHasNoBackend'
      BY <1>7, <2>2 DEF WaitConnectedReturns, coreVars, IInv, NoLostWakeup,
                        ChallengeReadWhole, DirectHasNoBackend, NoTunnel
    <3> QED
      BY <1>7, <2>2, <3>1, ClientsUntouched
         DEF WaitConnectedReturns, coreVars, IInv, Outcomes
  <2> QED
    BY <2>1, <2>2
<1>8. CASE DbusConnectReturns
  <2>1. NoLostWakeup' /\ ChallengeReadWhole' /\ DirectHasNoBackend'
    BY <1>8 DEF DbusConnectReturns, coreVars, IInv, NoLostWakeup, Waits,
                ChallengeReadWhole, DirectHasNoBackend, NoTunnel
  <2> QED
    BY <1>8, <2>1, ClientsUntouched
       DEF DbusConnectReturns, coreVars, IInv, Outcomes
<1>9. CASE WaitDisconnectReturns
  <2>1. CASE client[core_client].need_reauth
    <3>1. NoLostWakeup' /\ ChallengeReadWhole' /\ DirectHasNoBackend'
      BY <1>9, <2>1 DEF WaitDisconnectReturns, coreVars, IInv, NoLostWakeup,
                        ChallengeReadWhole, DirectHasNoBackend, NoTunnel
    <3>2. ~InSession(core_client)
      BY <1>9 DEF WaitDisconnectReturns, Awaited, IInv, SessionIsWaitedFor,
                  TypeOK, Outcomes
    <3> QED
      BY <1>9, <2>1, <3>1, <3>2, ClientsUntouched
         DEF WaitDisconnectReturns, coreVars, IInv, Outcomes
  <2>2. CASE ~client[core_client].need_reauth
    BY <1>0, <1>9, <2>2, ExitKeepsIInv DEF WaitDisconnectReturns
  <2> QED
    BY <2>1, <2>2
<1> QED
  BY <1>1, <1>2, <1>3, <1>4, <1>5, <1>6, <1>7, <1>8, <1>9 DEF CallerStep

\* The steps of everybody else; in DIRECT mode the backend takes none.
LEMMA OthersKeepIInv ==
  ASSUME TypeOK, IInv, OthersStep
  PROVE  IInv'
<1>0. "failed" \in Outcomes /\ "interrupted" \in Outcomes
  BY DEF Outcomes
<1>1. CASE ConnectPhase1Throws
  BY <1>0, <1>1, ExitKeepsIInv DEF ConnectPhase1Throws
<1>2. CASE CaptureToken
  <2>1. NoLostWakeup' /\ ChallengeReadWhole' /\ DirectHasNoBackend'
    BY <1>2 DEF CaptureToken, coreVars, IInv, NoLostWakeup, Waits,
                ChallengeReadWhole, DirectHasNoBackend, NoTunnel
  <2> QED
    BY <1>2, <2>1, ClientsUntouched DEF CaptureToken, coreVars, IInv, Outcomes
<1>3. CASE CaptureThrows
  BY <1>0, <1>3, ExitKeepsIInv DEF CaptureThrows
<1>4. CASE ConnectPhase2Throws
  BY <1>0, <1>4, ExitKeepsIInv DEF ConnectPhase2Throws
<1>5. CASE DbusConnectThrows
  BY <1>0, <1>5, ExitKeepsIInv DEF DbusConnectThrows
<1>6. CASE Interrupt
  <2>1. ConnectMode = "DIRECT" => UNCHANGED dbus
    BY <1>6 DEF Interrupt, IInv, DirectHasNoBackend, NoTunnel
  <2> QED
    BY <1>0, <1>6, <2>1, ExitKeepsIInv DEF Interrupt
<1>7. CASE \/ \E s \in Servers : BackendDials(s)
           \/ BackendConnects
           \/ BackendDisconnects
  <2>1. UNCHANGED <<coreVars, pc, core_client, phase1>>
    BY <1>7 DEF BackendDials, BackendConnects, BackendDisconnects
  <2>2. ConnectMode = "DIRECT" => FALSE
    BY <1>7 DEF BackendDials, BackendConnects, BackendDisconnects, IInv,
                DirectHasNoBackend, NoTunnel
  <2>3. NoLostWakeup' /\ ChallengeReadWhole' /\ DirectHasNoBackend'
    BY <2>1, <2>2 DEF coreVars, IInv, NoLostWakeup, Awaited,
                      ChallengeReadWhole, DirectHasNoBackend
  <2> QED
    BY <2>1, <2>3, ClientsUntouched DEF coreVars, IInv
<1> QED
  BY <1>1, <1>2, <1>3, <1>4, <1>5, <1>6, <1>7 DEF OthersStep

\* The invariant holds from the start and every step keeps it.
THEOREM InvariantHolds == Spec => []IInv
<1>1. Init => IInv
  BY DEF Init, CoreInit, Constructed, Phase1Config, IInv, NoLostWakeup,
         ChallengeReadWhole, AddressIsRecorded, AnswerIsPinned,
         SessionIsWaitedFor, InSession, DirectHasNoBackend
<1>2. TypeOK /\ IInv /\ [Next]_vars => IInv'
  <2> SUFFICES ASSUME TypeOK, IInv, [Next]_vars PROVE IInv'
    OBVIOUS
  <2>1. CASE Alive /\ CallerStep
    BY <2>1, CallerKeepsIInv
  <2>2. CASE Alive /\ OthersStep
    BY <2>2, OthersKeepIInv
  <2>3. ASSUME NEW c \in Clients, CoreStep(c) \/ CoreTeardown(c)
        PROVE  IInv'
    BY <2>3, CoreKeepsIInv
  <2>4. CASE UNCHANGED vars
    BY <2>4 DEF vars, coreVars, IInv, NoLostWakeup, Awaited,
                ChallengeReadWhole, AddressIsRecorded, AnswerIsPinned,
                SessionIsWaitedFor, InSession, Alive, DirectHasNoBackend, NoTunnel
  <2> QED
    BY <2>1, <2>2, <2>3, <2>4 DEF Next, Terminated
<1> QED
  BY <1>1, <1>2, TypeCorrect, PTL DEF Spec

-----------------------------------------------------------------------------
(* The safety properties.                                                  *)

\* The caller is never asleep on a condition variable while what it waits
\* for is true (event() and the wait_for_... functions).
THEOREM CallerIsWoken == Spec => []NoLostWakeup
<1>1. IInv => NoLostWakeup
  BY DEF IInv
<1> QED
  BY <1>1, InvariantHolds, PTL

\* What connect_phase1() returns is one challenge of one server.
THEOREM ChallengeIsWhole == Spec => []ChallengeReadWhole
<1>1. IInv => ChallengeReadWhole
  BY DEF IInv
<1> QED
  BY <1>1, InvariantHolds, PTL

\* In DIRECT mode the token of a login goes to the server that asked for it
\* and to no other, however many servers answer to the host name.
THEOREM TokenGoesToIssuer ==
  ASSUME ConnectMode = "DIRECT"
  PROVE  Spec => []AnswersAtIssuer
<1>1. IInv => AnswersAtIssuer
  BY DEF IInv, AnswersAtIssuer, AnswerIsPinned, DirectHasNoBackend, NoTunnel
<1> QED
  BY <1>1, InvariantHolds, PTL

\* No login is asked for while an older CoreClient still has a tunnel.
THEOREM OneTunnelAtATime == Spec => []NoTunnelWhileAuthenticating
<1>1. IInv => NoTunnelWhileAuthenticating
  BY DEF IInv, NoTunnelWhileAuthenticating, SessionIsWaitedFor, HasTunnel,
         InSession
<1> QED
  BY <1>1, InvariantHolds, PTL

\* No CoreClient is destroyed while its thread is inside connect().
THEOREM NoUseAfterFree == Spec => []OwnedWhileRunning
<1>1. IInv => OwnedWhileRunning
  BY DEF IInv, OwnedWhileRunning
<1> QED
  BY <1>1, InvariantHolds, PTL

=============================================================================
