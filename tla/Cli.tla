-------------------------------- MODULE Cli --------------------------------
(***************************************************************************)
(* The command line client: main() (linux/src/main.cpp) driving the        *)
(* OpenVPNClient of linux/src/libopenlawsvpn.cpp.  One thread, the caller, *)
(* runs Phase 1, waits for the browser login, runs Phase 2 and then waits  *)
(* for the tunnel to go; the threads of the CoreClients it starts run      *)
(* beside it, and the signal handler may strike at any time.               *)
(*                                                                         *)
(* In DBUS mode Phase 2 goes through the openvpn3-linux services.  Their   *)
(* part is reduced here to the backend's tunnel; module DBusClient has the *)
(* conversation in full.                                                   *)
(***************************************************************************)
EXTENDS CoreClient

CONSTANT ConnectMode  \* mode_: "DIRECT" (--standalone) or "DBUS"

ASSUME CliAssumption == ConnectMode \in {"DIRECT", "DBUS"}

VARIABLES
  pc,           \* where the caller is
  core_client,  \* impl_->core_client
  phase1,       \* the Phase1Result of the current login
  dbus          \* the backend's tunnel in DBUS mode

vars == <<coreVars, pc, core_client, phase1, dbus>>

-----------------------------------------------------------------------------

Waits == {"wait_saml", "wait_connected", "wait_disconnect"}

\* main() has returned 0 or 1, or exit(sig) was called.
Outcomes == {"ended", "failed", "interrupted"}

Points == {"do_connect", "capture", "phase2", "dbus_connect"}
            \cup Waits \cup Outcomes

NoTunnel == [tunnel |-> "none", dialled |-> None]

awaited_mutant_any_end ==
  \/ /\ pc \in {"wait_saml", "wait_disconnect"}
     /\ client[core_client].done \/ client[core_client].error
  \/ /\ pc = "wait_connected"
     /\ client[core_client].connected \/ client[core_client].error
  \/ /\ pc = "wait_disconnect"
     /\ client[core_client].final_disconnect

\* The predicate of the wait the caller is in.
Awaited ==
  \/ /\ pc = "wait_saml"
     /\ client[core_client].done \/ client[core_client].error
  \/ /\ pc = "wait_connected"
     /\ client[core_client].connected \/ client[core_client].error
  \/ /\ pc = "wait_disconnect"
     /\ client[core_client].final_disconnect

TypeOK ==
  /\ CoreTypeOK
  /\ pc \in Points
  /\ core_client \in Clients \cup {None}
  /\ pc \notin {"do_connect"} \cup Outcomes => core_client # None
  /\ phase1 \in [state_id : Servers \cup {None},
                 remote_ip : Servers \cup {None}]
  /\ dbus \in [tunnel : {"none", "connecting", "up", "down"},
               dialled : Servers \cup {None}]

Init ==
  /\ CoreInit
  /\ pc = "do_connect"
  /\ core_client = None
  /\ phase1 = [state_id |-> None, remote_ip |-> None]
  /\ dbus = NoTunnel

-----------------------------------------------------------------------------
(* The caller.                                                             *)

\* The process ends: the detached threads end with it.
Exit(outcome) ==
  /\ pc' = outcome
  /\ asleep' = None
  /\ UNCHANGED <<client, config, core, peer, session, holders, core_client,
                 phase1>>

\* connect_phase1() up to wait_for_saml().
phase1_mutant_not_kept(c) ==
  /\ pc = "do_connect"
  /\ StartClient(c, Phase1Config)
  /\ UNCHANGED core_client
  /\ pc' = "wait_saml"
  /\ UNCHANGED <<phase1, dbus>>

ConnectPhase1(c) ==
  /\ pc = "do_connect"
  /\ StartClient(c, Phase1Config)
  /\ core_client' = c
  /\ pc' = "wait_saml"
  /\ UNCHANGED <<phase1, dbus>>

\* The config file cannot be opened, or eval_config() rejects it.
ConnectPhase1Throws ==
  /\ pc = "do_connect"
  /\ Exit("failed")
  /\ UNCHANGED dbus

\* cv_.wait: the predicate is tested and the caller sleeps, under mutex_.
WaitSleeps ==
  /\ pc \in Waits
  /\ asleep = None
  /\ ~Awaited
  /\ asleep' = core_client
  /\ UNCHANGED <<client, config, core, peer, session, holders, pc,
                 core_client, phase1, dbus>>

\* cv_.wait_for: the 30 seconds are over.  The predicate has the last word.
timeout_mutant_phase1_only ==
  /\ pc = "wait_saml"
  /\ asleep # None
  /\ IF Awaited
     THEN /\ asleep' = None
          /\ UNCHANGED <<client, config, core, peer, session, holders, pc,
                         core_client, phase1>>
     ELSE Exit("failed")
  /\ UNCHANGED dbus

WaitTimesOut ==
  /\ pc \in {"wait_saml", "wait_connected"}
  /\ asleep # None
  /\ IF Awaited
     THEN /\ asleep' = None
          /\ UNCHANGED <<client, config, core, peer, session, holders, pc,
                         core_client, phase1>>
     ELSE Exit("failed")
  /\ UNCHANGED dbus

\* wait_for_saml() returns the challenge, or throws error_msg_.
WaitSamlReturns ==
  /\ pc = "wait_saml"
  /\ asleep = None
  /\ Awaited
  /\ IF client[core_client].error
     THEN Exit("failed")
     ELSE /\ phase1' = [state_id |-> client[core_client].state_id,
                        remote_ip |-> client[core_client].remote_ip]
          /\ pc' = "capture"
          /\ UNCHANGED <<coreVars, core_client>>
  /\ UNCHANGED dbus

\* token_future.get(): the user has logged in ...
CaptureToken ==
  /\ pc = "capture"
  /\ pc' = "phase2"
  /\ UNCHANGED <<coreVars, core_client, phase1, dbus>>

\* ... or what the browser posted has no token.
CaptureThrows ==
  /\ pc = "capture"
  /\ Exit("failed")
  /\ UNCHANGED dbus

\* connect_phase2(), the DIRECT branch, up to wait_for_connected().
phase2_mutant_unpinned(c) ==
  /\ ConnectMode = "DIRECT"
  /\ pc = "phase2"
  /\ StartClient(c, [state_id |-> phase1.state_id, server_override |-> None])
  /\ core_client' = c
  /\ pc' = "wait_connected"
  /\ UNCHANGED <<phase1, dbus>>

ConnectPhase2(c) ==
  /\ ConnectMode = "DIRECT"
  /\ pc = "phase2"
  /\ StartClient(c, [state_id |-> phase1.state_id,
                     server_override |-> phase1.remote_ip])
  /\ core_client' = c
  /\ pc' = "wait_connected"
  /\ UNCHANGED <<phase1, dbus>>

\* connect_phase2(), the DBUS branch: impl_->core_client is left alone.
ConnectPhase2Dbus ==
  /\ ConnectMode = "DBUS"
  /\ pc = "phase2"
  /\ dbus' = [tunnel |-> "connecting", dialled |-> None]
  /\ pc' = "dbus_connect"
  /\ UNCHANGED <<coreVars, core_client, phase1>>

\* The config file is gone, or there is no system bus.
ConnectPhase2Throws ==
  /\ pc = "phase2"
  /\ Exit("failed")
  /\ UNCHANGED dbus

WaitConnectedReturns ==
  /\ pc = "wait_connected"
  /\ asleep = None
  /\ Awaited
  /\ IF client[core_client].error
     THEN Exit("failed")
     ELSE /\ pc' = "wait_disconnect"
          /\ UNCHANGED <<coreVars, core_client, phase1>>
  /\ UNCHANGED dbus

DbusConnectReturns ==
  /\ pc = "dbus_connect"
  /\ dbus.tunnel \in {"up", "down"}
  /\ pc' = "wait_disconnect"
  /\ UNCHANGED <<coreVars, core_client, phase1, dbus>>

DbusConnectThrows ==
  /\ pc = "dbus_connect"
  /\ Exit("failed")
  /\ UNCHANGED dbus

\* wait_for_disconnect() returns need_reauth_; main() loops or returns 0.
WaitDisconnectReturns ==
  /\ pc = "wait_disconnect"
  /\ asleep = None
  /\ Awaited
  /\ IF client[core_client].need_reauth
     THEN /\ pc' = "do_connect"
          /\ UNCHANGED <<coreVars, core_client, phase1>>
     ELSE Exit("ended")
  /\ UNCHANGED dbus

\* signal_handler: disconnect(), then exit(sig) without waiting.  stop() and
\* the Disconnect call are requests; the second one can fail unnoticed.
Interrupt ==
  /\ Exit("interrupted")
  /\ \/ UNCHANGED dbus
     \/ /\ dbus.tunnel # "none"
        /\ dbus' = [dbus EXCEPT !.tunnel = "down"]

-----------------------------------------------------------------------------
(* The backend of DBUS mode: the imported configuration names the sticky   *)
(* address first, and after it every remote of the profile.                *)

BackendDials(s) ==
  /\ dbus.tunnel = "connecting"
  /\ dbus.dialled = None => s = phase1.remote_ip
  /\ dbus' = [dbus EXCEPT !.dialled = s]
  /\ UNCHANGED <<coreVars, pc, core_client, phase1>>

BackendConnects ==
  /\ dbus.tunnel = "connecting"
  /\ dbus.dialled = phase1.state_id
  /\ dbus' = [dbus EXCEPT !.tunnel = "up"]
  /\ UNCHANGED <<coreVars, pc, core_client, phase1>>

BackendDisconnects ==
  /\ dbus.tunnel = "up"
  /\ dbus' = [dbus EXCEPT !.tunnel = "down"]
  /\ UNCHANGED <<coreVars, pc, core_client, phase1>>

-----------------------------------------------------------------------------

Alive == pc \notin Outcomes

\* What the caller does by itself, the user, the network and the service
\* permitting.
CallerStep ==
  \/ \E c \in Clients : ConnectPhase1(c)
  \/ WaitSleeps
  \/ WaitTimesOut
  \/ WaitSamlReturns
  \/ \E c \in Clients : ConnectPhase2(c)
  \/ ConnectPhase2Dbus
  \/ WaitConnectedReturns
  \/ DbusConnectReturns
  \/ WaitDisconnectReturns

\* What somebody else decides.
OthersStep ==
  \/ ConnectPhase1Throws
  \/ CaptureToken
  \/ CaptureThrows
  \/ ConnectPhase2Throws
  \/ DbusConnectThrows
  \/ Interrupt
  \/ \E s \in Servers : BackendDials(s)
  \/ BackendConnects
  \/ BackendDisconnects

CoreStep(c) ==
  /\ Environment(c)
  /\ UNCHANGED <<pc, core_client, phase1, dbus>>

CoreTeardown(c) ==
  /\ Teardown(c)
  /\ UNCHANGED <<pc, core_client, phase1, dbus>>

Terminated == ~Alive /\ UNCHANGED vars

Next ==
  \/ Alive /\ CallerStep
  \/ Alive /\ OthersStep
  \/ Alive /\ \E c \in Clients : CoreStep(c)
  \/ Alive /\ \E c \in Clients : CoreTeardown(c)
  \/ Terminated

Spec == Init /\ [][Next]_vars

\* The caller's thread and the core's threads are scheduled; nothing is
\* assumed of the user, the servers, the network or the services.
Fairness ==
  /\ WF_vars(Alive /\ CallerStep)
  /\ \A c \in Clients : WF_vars(Alive /\ CoreTeardown(c))

FairSpec == Spec /\ Fairness

-----------------------------------------------------------------------------
(* Safety.                                                                 *)

\* The caller never sleeps through what it waits for: while it is blocked on
\* a condition variable, the variable is the one of impl_->core_client and
\* the predicate it waits for is false.  (Every branch of event() that makes
\* done_, error_, connected_ or final_disconnect_ true must notify.)
NoLostWakeup ==
  asleep # None => asleep = core_client /\ pc \in Waits /\ ~Awaited

\* The challenge is published whole: what wait_for_saml() returned names the
\* server that issued the state id, although state_id_ and remote_ip_ are
\* written without mutex_ and remote_ip_ by every socket that is opened.
ChallengeReadWhole ==
  pc \in {"capture", "phase2"} =>
    /\ phase1.state_id # None
    /\ phase1.remote_ip = phase1.state_id

\* "used by wait_for_saml() to pin Phase 2 to the same server": an answer to
\* a challenge is sent only to the server that issued it, the first time and
\* on every reconnect.
AnswersAtIssuer ==
  /\ \A c \in Clients :
       config[c].state_id # None /\ peer[c] # None =>
         peer[c] = config[c].state_id
  /\ dbus.dialled # None => dbus.dialled = phase1.state_id

\* A client that has been connected holds its tunnel until its session has
\* ended.
HasTunnel(c) ==
  /\ client[c].connected
  /\ core[c] \in {"trying", "parsed", "up", "stopping"}

\* Re-authentication starts over an old tunnel that is really gone: no
\* CoreClient has a tunnel except the one the caller waits on.
NoTunnelWhileAuthenticating ==
  Alive => \A c \in Clients :
    HasTunnel(c) => c = core_client /\ pc \in {"wait_connected",
                                               "wait_disconnect"}

\* "CoreClient stays alive until the thread exits, even if
\* impl_->core_client is replaced": whatever impl_ does, a CoreClient whose
\* thread is still inside connect() has an owner.
OwnedWhileRunning ==
  \A c \in Clients : core[c] # "exited" => holders[c] # {}

-----------------------------------------------------------------------------
(* The inductive invariant behind the safety properties.                   *)

\* The thread inside connect() has not delivered its last event yet.
InSession(c) == core[c] \notin {"unwinding", "exited"}

\* The recorded address is the one of the open socket, and a challenge that
\* was parsed was issued by it; no socket is opened after the challenge.
AddressIsRecorded(c) ==
  /\ peer[c] # None => client[c].remote_ip = peer[c]
  /\ client[c].state_id # None =>
       /\ client[c].remote_ip = client[c].state_id
       /\ core[c] \in {"parsed", "stopping", "unwinding", "exited"}
  /\ core[c] = "parsed" \/ client[c].done => client[c].state_id # None

\* Phase 2 credentials come with the address of their issuer.
AnswerIsPinned(c) ==
  /\ config[c].state_id # None => config[c].server_override = config[c].state_id
  /\ config[c].server_override # None /\ peer[c] # None =>
       peer[c] = config[c].server_override

\* Only a client with Phase 2 credentials connects, the final disconnect is
\* the end of its session, and only the client the caller waits on is in one.
SessionIsWaitedFor(c) ==
  /\ client[c].connected => config[c].state_id # None
  /\ client[c].final_disconnect => ~InSession(c)
  /\ Alive /\ config[c].state_id # None /\ InSession(c) =>
       c = core_client /\ pc \in {"wait_connected", "wait_disconnect"}

\* Without D-Bus there is no backend.
DirectHasNoBackend ==
  ConnectMode = "DIRECT" => dbus = NoTunnel /\ pc # "dbus_connect"

\* All that the safety theorems need beyond TypeOK; the last line is the
\* ownership of the thread function, which captures the shared_ptr by value.
IInv ==
  /\ NoLostWakeup
  /\ ChallengeReadWhole
  /\ DirectHasNoBackend
  /\ \A c \in Clients :
       /\ AddressIsRecorded(c)
       /\ AnswerIsPinned(c)
       /\ SessionIsWaitedFor(c)
       /\ core[c] # "exited" => "thread" \in holders[c]

\* What event() has stored is what the server thinks of the session; after a
\* rejection or an error the thread goes nowhere but to DISCONNECTED.
SessionIsKnown(c) ==
  /\ client[c].connected <=> session[c] # "none"
  /\ client[c].need_reauth <=> session[c] = "rejected"
  /\ client[c].need_reauth \/ client[c].error =>
       core[c] \in {"stopping", "unwinding", "exited"}
  /\ client[c].error => ~client[c].connected
  /\ client[c].final_disconnect => client[c].connected
  /\ core[c] = "up" => client[c].connected

\* The client that answers a login is given the state id of that login.
AnswersCurrentLogin ==
  ConnectMode = "DIRECT" /\ pc \in {"wait_connected", "wait_disconnect"} =>
    config[core_client].state_id = phase1.state_id /\ phase1.state_id # None

\* need_reauth_ can be trusted: it is set exactly when the server has rejected
\* an established session (AUTH_FAILED or NEED_CREDS), which takes that no
\* "auth-retry" of the profile lets a rejected client connect again.
SessionInv ==
  /\ \A c \in Clients : SessionIsKnown(c)
  /\ AnswersCurrentLogin

-----------------------------------------------------------------------------
(* What the end of a wait says.                                            *)

\* "Blocks until the Phase 2 tunnel is torn down.  Returns true if SAML
\* re-authentication is needed": the wait ends only after the session has
\* ended on the thread's side, and the server's last word on the session
\* decides between another login and the end, although need_reauth_ and
\* final_disconnect_ come with different events.
WaitTellsTheReason ==
  [][pc = "wait_disconnect" /\ pc' \in {"do_connect", "ended"} =>
       /\ ~InSession(core_client)
       /\ pc' = "do_connect" <=> session[core_client] = "rejected"]_vars

\* In DBUS mode only a signal ends the wait: the CoreClient that it looks at
\* is the one of Phase 1, whatever becomes of the tunnel.
OnlySignalsEndDbusWait ==
  [][ConnectMode = "DBUS" /\ pc = "wait_disconnect" =>
       pc' \in {"wait_disconnect", "interrupted"}]_vars

-----------------------------------------------------------------------------
(* Liveness.                                                               *)

\* A connection attempt that nobody answers does not hold the caller forever.
AttemptsEnd ==
  pc \in {"wait_saml", "wait_connected"} ~>
    pc \notin {"wait_saml", "wait_connected"}

TunnelGone ==
  IF ConnectMode = "DIRECT"
  THEN core[core_client] \in {"stopping", "unwinding", "exited"}
  ELSE dbus.tunnel = "down"

\* wait_for_disconnect() "blocks until the Phase 2 tunnel is torn down", and
\* no longer.
TornDownIsNoticed ==
  pc = "wait_disconnect" /\ TunnelGone ~> pc # "wait_disconnect"

-----------------------------------------------------------------------------
(* The state of the abstract connection (DIRECT mode).  A session exists   *)
(* from the moment the server accepts it, whether or not the caller has    *)
(* been told.                                                              *)

vpn_state ==
  CASE pc \in Outcomes -> pc
    [] pc \in {"do_connect", "wait_saml"} -> "connecting"
    [] pc \in {"capture", "phase2", "dbus_connect"} -> "login"
    [] pc \in {"wait_connected", "wait_disconnect"} ->
         CASE session[core_client] = "none" -> "answering"
           [] session[core_client] = "established" -> "connected"
           [] session[core_client] = "rejected" -> "expired"

vpn_issuer ==
  IF vpn_state \in {"login", "answering", "connected", "expired"}
  THEN phase1.state_id
  ELSE None

vpn_dialled ==
  IF pc \in {"wait_connected", "wait_disconnect"}
  THEN peer[core_client]
  ELSE None

Vpn == INSTANCE VpnSession
         WITH state <- vpn_state, issuer <- vpn_issuer, dialled <- vpn_dialled

\* main(), the library and the events together implement the state machine
\* of VpnSession: in particular a session the server rejected is always
\* renewed, any other end of a session never is, and no tunnel is reported
\* before the issuer accepted the answer.
ImplementsVpnSession == Vpn!Spec

=============================================================================
