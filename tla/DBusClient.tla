----------------------------- MODULE DBusClient -----------------------------
(***************************************************************************)
(* DBusClient (linux/src/dbus_client.cpp): Phase 2 through the D-Bus       *)
(* services of openvpn3-linux.  connect() is one long conversation:        *)
(* import the configuration, create a session, wait for its object, hand   *)
(* over the credentials, ask it to connect, and wait for the outcome in    *)
(* three ways at once (signals, the "status" property, "connected_to").    *)
(*                                                                         *)
(* A call that changes the services is two steps, the execution by the     *)
(* service and the reply, so that a reply can be lost and a signal handler *)
(* can strike in between.  The services are not in the repository; they    *)
(* answer as freely as the branches of connect() provide for.              *)
(***************************************************************************)
EXTENDS Naturals, Sequences

CONSTANTS
  ImportTries, TunnelTries,      \* 5 and 5 in the code
  IntrospectTries, ReadyTries,   \* 20 and 20
  WaitPasses,  \* passes of the wait loop within its 90 seconds, at most
  Dispatchers, \* who may run the signal handlers: "self", "gtk"
  Wordings     \* how the services may word their messages

\* In the command line client nobody but connect() iterates the GLib main
\* context; in the GTK program its owner is the user interface's thread.
ASSUME DBusClientAssumption ==
  /\ {ImportTries, TunnelTries, IntrospectTries, ReadyTries, WaitPasses}
       \subseteq Nat \ {0}
  /\ Dispatchers \subseteq {"self", "gtk"}
  /\ Wordings \subseteq {"silent", "Capitalised", "UPPERCASE"}

VARIABLES
  pc,            \* the call or statement of connect() that is next
  tries,         \* the counter of the current for loop
  passes,        \* completed passes of the wait loop
  session_path,  \* "" , "session", or "garbage"
  subscribed,    \* signal_id # 0
  connected,     \* impl_->connected
  failed,        \* impl_->failed
  inbox,         \* signals queued in the main context
  service,       \* what the services hold
  site           \* the dispatcher and the wording; both stay as they are

vars == <<pc, tries, passes, session_path, subscribed, connected, failed,
          inbox, service, site>>

-----------------------------------------------------------------------------

Ends == {"returned", "threw", "crashed", "interrupted"}

Points == {"Import", "NewTunnel", "NewTunnel_reply", "Introspect", "Ready",
           "Subscribe", "Connect", "Connect_reply", "dispatch", "wait_for",
           "poll_status", "poll_connected_to", "elapsed", "outcome"}
            \cup Ends

\* (2,101), (2,103) or (2,110), (2,104) or (2,105), and (3,113).
Statuses == {"connected", "disconnected", "failed", "completed"}

Signals == [name : {"StatusChange", "Log"}, status : Statuses]

\* strstr(message, "Connected") || strstr(message, "CONNECTED"): the second
\* one also finds the word in "DISCONNECTED".
says_mutant_ignores_case(status) ==
  site.wording # "silent" /\ status \in {"connected", "disconnected"}

says_connected(status) ==
  \/ site.wording # "silent" /\ status = "connected"
  \/ site.wording = "UPPERCASE" /\ status = "disconnected"

\* The branches of on_status_change that set connected ...
Confirms(sig) ==
  \/ sig.name = "StatusChange" /\ sig.status = "connected"
  \/ sig.status # "completed" /\ says_connected(sig.status)

\* ... and those that set failed.
denies_mutant_forgets_completed(sig) ==
  /\ sig.name = "StatusChange"
  /\ ~Confirms(sig)
  /\ \/ sig.status = "failed"
     \/ sig.status = "disconnected" /\ ~connected

Denies(sig) ==
  /\ sig.name = "StatusChange"
  /\ ~Confirms(sig)
  /\ \/ sig.status = "failed"
     \/ sig.status \in {"disconnected", "completed"} /\ ~connected

TypeOK ==
  /\ pc \in Points
  /\ tries \in Nat
  /\ passes \in 0..WaitPasses
  /\ session_path \in {"", "session", "garbage"}
  /\ {subscribed, connected, failed} \subseteq BOOLEAN
  /\ inbox \in Seq(Signals)
  /\ service \in
       [configs : Nat, sessions : Nat, creds : SUBSET {"username", "password"},
        state : {"absent", "new", "started", "up", "failed", "down", "gone"},
        forwarding : BOOLEAN, accepted : BOOLEAN, been_up : BOOLEAN,
        cut : BOOLEAN, disconnect_asked : BOOLEAN]
  /\ site \in [dispatcher : Dispatchers, wording : Wordings]

Init ==
  /\ pc = "Import"
  /\ tries = 0
  /\ passes = 0
  /\ session_path = ""
  /\ subscribed = FALSE
  /\ connected = FALSE
  /\ failed = FALSE
  /\ inbox = <<>>
  /\ service = [configs |-> 0, sessions |-> 0, creds |-> {},
                state |-> "absent", forwarding |-> FALSE, accepted |-> FALSE,
                been_up |-> FALSE, cut |-> FALSE, disconnect_asked |-> FALSE]
  /\ site \in [dispatcher : Dispatchers, wording : Wordings]

-----------------------------------------------------------------------------

\* A for loop of n tries: once more, or on to the step after the loop.
Again(n, after) ==
  IF tries + 1 < n
  THEN tries' = tries + 1 /\ pc' = pc
  ELSE tries' = 0 /\ pc' = after

Proceed(next) == pc' = next /\ tries' = 0

\* What only the handlers, the subscription and the wait loop touch.
conversation == <<passes, subscribed, connected, failed, inbox>>

Import ==
  /\ pc = "Import"
  /\ service' = [service EXCEPT !.configs = @ + 1]
  /\ Proceed("NewTunnel")
  /\ UNCHANGED <<session_path, conversation>>

\* ServiceUnknown, UnknownMethod, FileNotFound: nothing was executed.
ImportNotReady ==
  /\ pc = "Import"
  /\ Again(ImportTries, "threw")
  /\ UNCHANGED <<session_path, service, conversation>>

\* Any other error, the loss of the reply included, or an unreadable file.
ImportFails ==
  /\ pc = "Import"
  /\ \/ UNCHANGED service
     \/ service' = [service EXCEPT !.configs = @ + 1]
  /\ Proceed("threw")
  /\ UNCHANGED <<session_path, conversation>>

NewTunnel ==
  /\ pc = "NewTunnel"
  /\ service' = [service EXCEPT !.sessions = @ + 1, !.state = "new"]
  /\ pc' = "NewTunnel_reply"
  /\ UNCHANGED <<tries, session_path, conversation>>

NewTunnelReplies ==
  /\ pc = "NewTunnel_reply"
  /\ session_path' = "session"
  /\ Proceed("Introspect")
  /\ UNCHANGED <<service, conversation>>

\* The reply is lost, or another error than ServiceUnknown / UnknownMethod.
new_tunnel_mutant_retries_all ==
  /\ pc \in {"NewTunnel", "NewTunnel_reply"}
  /\ IF tries + 1 < TunnelTries
     THEN tries' = tries + 1 /\ pc' = "NewTunnel"
     ELSE tries' = 0 /\ pc' = "threw"
  /\ UNCHANGED <<session_path, service, conversation>>

NewTunnelFails ==
  /\ pc \in {"NewTunnel", "NewTunnel_reply"}
  /\ Proceed("threw")
  /\ UNCHANGED <<session_path, service, conversation>>

\* When the last try fails the loop just ends, with res == nullptr: the path
\* is read from a pointer that g_variant_get() never set.
NewTunnelNotReady ==
  /\ pc = "NewTunnel"
  /\ \/ /\ Again(TunnelTries, "Introspect")
        /\ session_path' = IF tries + 1 < TunnelTries THEN session_path
                           ELSE "garbage"
     \/ /\ tries + 1 = TunnelTries
        /\ Proceed("crashed")
        /\ UNCHANGED session_path
  /\ UNCHANGED <<service, conversation>>

Introspect ==
  /\ pc = "Introspect"
  /\ session_path = "session"
  /\ service.state # "gone"
  /\ Proceed("Ready")
  /\ UNCHANGED <<session_path, service, conversation>>

IntrospectFails ==
  /\ pc = "Introspect"
  /\ Again(IntrospectTries, "threw")
  /\ UNCHANGED <<session_path, service, conversation>>

\* One pass of the Ready loop: two UserInputProvide calls, whose errors are
\* ignored, and Ready.
ReadyPass(provided) ==
  LET creds == service.creds \cup provided
  IN  /\ pc = "Ready"
      /\ service.state = "gone" => provided = {}
      /\ service' = [service EXCEPT !.creds = creds]
      /\ \/ /\ creds = {"username", "password"}
            /\ service.state # "gone"
            /\ Proceed("Subscribe")
         \/ Again(ReadyTries, "threw")
      /\ UNCHANGED <<session_path, conversation>>

\* signal_subscribe, and LogForward(true), whose error is ignored.
Subscribe ==
  /\ pc = "Subscribe"
  /\ subscribed' = TRUE
  /\ \/ UNCHANGED service
     \/ /\ service.state # "gone"
        /\ service' = [service EXCEPT !.forwarding = TRUE]
  /\ Proceed("Connect")
  /\ UNCHANGED <<session_path, passes, connected, failed, inbox>>

Connect ==
  /\ pc = "Connect"
  /\ service.state = "new"
  /\ service' = [service EXCEPT !.state = "started"]
  /\ pc' = "Connect_reply"
  /\ UNCHANGED <<tries, session_path, conversation>>

ConnectReplies ==
  /\ pc = "Connect_reply"
  /\ service' = [service EXCEPT !.accepted = TRUE]
  /\ Proceed("dispatch")
  /\ UNCHANGED <<session_path, conversation>>

ConnectFails ==
  /\ pc \in {"Connect", "Connect_reply"}
  /\ Proceed("threw")
  /\ UNCHANGED <<session_path, service, conversation>>

-----------------------------------------------------------------------------
(* The wait loop.                                                          *)

\* What is common to the steps of the loop.
ToNext(next) ==
  pc' = next /\ UNCHANGED <<tries, session_path, subscribed>>

\* while (g_main_context_iteration(nullptr, FALSE)): the thread that owns
\* the context runs the handlers, any other gets FALSE at once.
Dispatch ==
  /\ pc = "dispatch"
  /\ site.dispatcher = "gtk" \/ inbox = <<>>
  /\ ToNext("wait_for")
  /\ UNCHANGED <<passes, connected, failed, inbox, service>>

\* on_status_change for the oldest signal.
on_status_change ==
  /\ inbox # <<>>
  /\ site.dispatcher = "self" => pc = "dispatch"
  /\ connected' = (connected \/ Confirms(Head(inbox)))
  /\ failed' = (failed \/ Denies(Head(inbox)))
  /\ inbox' = Tail(inbox)
  /\ UNCHANGED <<pc, tries, passes, session_path, subscribed, service>>

\* cv.wait_for(500 ms, connected || failed).
WaitFor ==
  /\ pc = "wait_for"
  /\ ToNext(IF connected \/ failed THEN "outcome" ELSE "poll_status")
  /\ UNCHANGED <<passes, connected, failed, inbox, service>>

\* The "status" property.  A status of (2,103), (2,110) or (3,113) is not
\* looked at, and the call may fail.
PollStatus ==
  /\ pc = "poll_status"
  /\ \/ /\ service.state = "up"
        /\ connected' = TRUE
        /\ ToNext("outcome")
        /\ UNCHANGED failed
     \/ /\ service.state = "down" /\ says_connected("disconnected")
        /\ connected' = TRUE
        /\ ToNext("outcome")
        /\ UNCHANGED failed
     \/ /\ service.state = "failed"
        /\ failed' = TRUE
        /\ ToNext("outcome")
        /\ UNCHANGED connected
     \/ /\ ToNext("poll_connected_to")
        /\ UNCHANGED <<connected, failed>>
  /\ UNCHANGED <<passes, inbox, service>>

\* The "connected_to" property.
PollConnectedTo ==
  /\ pc = "poll_connected_to"
  /\ \/ /\ service.state = "up"
        /\ connected' = TRUE
        /\ ToNext("outcome")
     \/ /\ ToNext("elapsed")
        /\ UNCHANGED connected
  /\ UNCHANGED <<passes, failed, inbox, service>>

\* DBusClient::disconnect(): the error of the call is ignored.
Disconnected ==
  IF session_path = "session" /\ service.state # "gone"
  THEN {[service EXCEPT !.disconnect_asked = TRUE],
        [service EXCEPT !.disconnect_asked = TRUE, !.state = "gone"]}
  ELSE {service}

not_yet_mutant_unbounded ==
  /\ pc = "elapsed"
  /\ passes <= WaitPasses
  /\ passes' = passes + 1
  /\ ToNext("dispatch")
  /\ UNCHANGED <<connected, failed, inbox, service>>

NotYetElapsed ==
  /\ pc = "elapsed"
  /\ passes < WaitPasses
  /\ passes' = passes + 1
  /\ ToNext("dispatch")
  /\ UNCHANGED <<connected, failed, inbox, service>>

\* 90 seconds are over: disconnect() and throw.
elapsed_mutant_no_disconnect ==
  /\ pc = "elapsed"
  /\ ToNext("threw")
  /\ UNCHANGED <<passes, connected, failed, inbox, service>>

elapsed_mutant_never ==
  /\ pc = "elapsed"
  /\ passes = WaitPasses
  /\ passes' = 0
  /\ ToNext("dispatch")
  /\ UNCHANGED <<connected, failed, inbox, service>>

Elapsed ==
  /\ pc = "elapsed"
  /\ service' \in Disconnected
  /\ ToNext("threw")
  /\ UNCHANGED <<passes, connected, failed, inbox>>

\* if (failed) disconnect() and throw, else the tunnel is up.
Outcome ==
  /\ pc = "outcome"
  /\ IF failed
     THEN service' \in Disconnected /\ ToNext("threw")
     ELSE UNCHANGED service /\ ToNext("returned")
  /\ UNCHANGED <<passes, connected, failed, inbox>>

-----------------------------------------------------------------------------
(* The signal handler of the command line client (linux/src/main.cpp):     *)
(* disconnect() and exit(), wherever connect() is.                         *)

Interrupt ==
  /\ site.dispatcher = "self"
  /\ pc \notin Ends
  /\ service' \in Disconnected
  /\ pc' = "interrupted"
  /\ UNCHANGED <<tries, session_path, conversation>>

-----------------------------------------------------------------------------
(* The services.                                                           *)

\* A subscriber gets every StatusChange if LogForward(true) succeeded, and
\* any part of what was sent if not; a Log line may come before or after.
Emit(status) ==
  LET change == [name |-> "StatusChange", status |-> status]
      line   == [name |-> "Log", status |-> status]
      sent   == {<<change>>, <<change, line>>, <<line, change>>}
      part   == {<<>>, <<line>>}
  IN  IF subscribed
      THEN \E out \in sent \cup (IF service.forwarding THEN {} ELSE part) :
             inbox' = inbox \o out
      ELSE UNCHANGED inbox

\* been_up and cut are history: what the services announced of the tunnel.
BackendGoes(from, to, status) ==
  /\ service.state \in from
  /\ service' = [service EXCEPT
                   !.state = to,
                   !.been_up = @ \/ to = "up",
                   !.cut = @ \/ (to = "down" /\ ~service.been_up)]
  /\ Emit(status)
  /\ UNCHANGED <<pc, tries, passes, session_path, subscribed, connected,
                 failed>>

BackendConnects == BackendGoes({"started"}, "up", "connected")
BackendFails == BackendGoes({"started"}, "failed", "failed")
BackendDisconnects == BackendGoes({"up", "started"}, "down", "disconnected")
BackendEnds == BackendGoes({"new", "started", "failed", "down"}, "gone",
                           "completed")

-----------------------------------------------------------------------------

ClientStep ==
  \/ Import \/ ImportNotReady \/ ImportFails
  \/ NewTunnel \/ NewTunnelReplies \/ NewTunnelFails \/ NewTunnelNotReady
  \/ Introspect \/ IntrospectFails
  \/ \E provided \in SUBSET {"username", "password"} : ReadyPass(provided)
  \/ Subscribe
  \/ Connect \/ ConnectReplies \/ ConnectFails
  \/ Dispatch \/ WaitFor \/ PollStatus \/ PollConnectedTo
  \/ NotYetElapsed \/ Elapsed \/ Outcome

BackendStep ==
  \/ BackendConnects \/ BackendFails \/ BackendDisconnects \/ BackendEnds

\* connect() is over; in the GTK program the services and the dispatcher go
\* on, in the command line client nobody dispatches any more.
Finished == pc \in Ends /\ UNCHANGED vars

Next ==
  \/ ClientStep /\ UNCHANGED site
  \/ on_status_change /\ UNCHANGED site
  \/ Interrupt /\ UNCHANGED site
  \/ BackendStep /\ UNCHANGED site
  \/ Finished

Spec == Init /\ [][Next]_vars

\* Every D-Bus call returns, at the latest with a timeout error, so the
\* caller's thread always gets on; so does whoever runs the handlers.
Fairness ==
  /\ WF_vars(ClientStep /\ UNCHANGED site)
  /\ WF_vars(on_status_change /\ UNCHANGED site)

FairSpec == Spec /\ Fairness

-----------------------------------------------------------------------------

\* A session that was disconnected before it was up passes for one that was up,
\* if the services write in capitals.
Misread == site.wording = "UPPERCASE" /\ service.cut

\* connect() returns normally only for a tunnel that has been up, or for one
\* that services which write in capitals have announced as DISCONNECTED before
\* it was: no other failure, no silence and no end of the session is taken for
\* a success, however signals, polls and log lines are worded and interleaved.
ConfirmedByBackend == pc = "returned" => service.been_up \/ Misread

\* "Once the backend emits a "Connected" status or the connected_to property
\* becomes valid, the client confirms the tunnel is up."  With services that
\* write in capitals the program does so for another one, too.
ConnectedMeansUp == pc = "returned" => service.been_up

\* A retry never repeats a call that was executed: whatever is retried, and
\* whatever reply is lost, at most one configuration and one session exist.
RetriesAreSafe == service.configs <= 1 /\ service.sessions <= 1

\* An attempt that fails after Connect was accepted, or is interrupted while
\* the session path is known, asks the backend to disconnect, even when the
\* backend came up between the last poll and the timeout.
AcceptedAttemptIsCleanedUp ==
  \/ pc = "threw" /\ service.accepted
  \/ pc = "interrupted" /\ session_path = "session"
  => service.disconnect_asked \/ service.state = "gone"

\* "Subscribe to status changes BEFORE calling Connect": if the backend
\* forwards its signals, an attempt whose session has come to an outcome
\* either knows it or has it in its queue; it never waits for 90 seconds.
NoMissedOutcome ==
  /\ pc \notin Ends
  /\ service.forwarding
  /\ service.state \in {"up", "failed", "down", "gone"}
  =>
    \/ connected \/ failed
    \/ \E i \in DOMAIN inbox : Confirms(inbox[i]) \/ Denies(inbox[i])

\* "Ensure that failed or interrupted connection attempts clean up their
\* session paths": however an attempt that knows its session path ends
\* without a tunnel, the backend was asked to disconnect.
NoStaleSession ==
  pc \in {"threw", "interrupted"} /\ session_path = "session" =>
    service.disconnect_asked \/ service.state = "gone"

\* The object whose readiness is polled is the session NewTunnel created.
PollsTheNewSession == pc = "Introspect" => service.sessions > 0

\* The steps the conversation can still take: the tries that are left of each
\* loop, and five steps for each pass.
StepsLeft ==
  LET loop  == 5 * (WaitPasses - passes)
      ready == loop + 8 + ReadyTries
      found == ready + IntrospectTries
  IN  CASE pc = "Import"            -> found + 1 + TunnelTries + ImportTries - tries
        [] pc = "NewTunnel"         -> found + 1 + TunnelTries - tries
        [] pc = "NewTunnel_reply"   -> found + 1
        [] pc = "Introspect"        -> found - tries
        [] pc = "Ready"             -> ready - tries
        [] pc = "Subscribe"         -> loop + 8
        [] pc = "Connect"           -> loop + 7
        [] pc = "Connect_reply"     -> loop + 6
        [] pc = "dispatch"          -> loop + 5
        [] pc = "wait_for"          -> loop + 4
        [] pc = "poll_status"       -> loop + 3
        [] pc = "poll_connected_to" -> loop + 2
        [] pc = "elapsed"           -> loop + 1
        [] pc = "outcome"           -> 1
        [] OTHER                    -> 0

\* Neither the retries nor the polls go round for ever, and no error starts a
\* loop afresh: whatever the services answer and however signals come in
\* between, every step of connect() uses up one of a number of steps that is
\* fixed at its start, and nobody adds to it.
StepsAreBounded ==
  [][/\ 0 <= StepsLeft' /\ StepsLeft' <= StepsLeft
     /\ ClientStep => StepsLeft' < StepsLeft]_vars

\* connect() always comes to an end.
ConnectEnds == <>(pc \in Ends)

-----------------------------------------------------------------------------
(* The caller's view.                                                      *)

phase_call ==
  CASE pc \in {"returned", "threw"} -> pc
    [] pc \in {"crashed", "interrupted"} -> "stopped"
    [] pc \in {"dispatch", "wait_for", "poll_status", "poll_connected_to",
               "elapsed", "outcome"} -> "waiting"
    [] OTHER -> "asking"

phase_session ==
  IF service.been_up THEN IF service.state = "up" THEN "up" ELSE "down"
  ELSE IF service.cut THEN "cut"
  ELSE CASE service.state \in {"absent", "new"} -> "none"
         [] service.state = "started" -> "started"
         [] OTHER -> "failed"

Phase == INSTANCE PhaseTwo WITH
  MayMisread <- "UPPERCASE" \in Wordings,
  call <- phase_call, session <- phase_session,
  clean <- service.disconnect_asked \/ service.state = "gone"

\* The whole conversation is one call that succeeds only for a tunnel that has
\* been up (or, in capitals, was cut off before), cleans up after itself once
\* Connect was accepted, and ends.
ImplementsPhaseTwo == Phase!Spec

=============================================================================
