----------------------------- MODULE VpnService -----------------------------
(***************************************************************************)
(* The GTK program: the service thread (gui-gtk/src/vpn_service.rs), the C *)
(* interface it drives (linux/src/libopenlawsvpn_ffi.cpp), the connection  *)
(* screen (gui-gtk/src/connection) and the event loop of main.rs.          *)
(*                                                                         *)
(* Four kinds of threads meet here.  The user interface's thread handles   *)
(* clicks, events and, as owner of the GLib main context, the D-Bus        *)
(* signals of every DBusClient; the service's thread carries out one       *)
(* command after the other; each client has a detached thread that runs    *)
(* the core of its Phase 1; and the services do as they like.  They        *)
(* communicate by a queue of commands, a queue of events, and log lines,   *)
(* whose words decide which state is shown, whoever wrote them.            *)
(*                                                                         *)
(* Modules CoreClient and DBusClient have the two phases in full; here a   *)
(* phase is reduced to what the rest of the program can see of it.         *)
(***************************************************************************)
EXTENDS Naturals, Sequences, SamlServer

CONSTANTS
  Profiles,   \* the profiles on the screen
  MaxClicks,  \* how often the user clicks, at most
  MaxEvents,  \* events that wait to be handled, at most
  MaxSignals, \* signals that wait to be dispatched, at most
  MaxQuotes,  \* lines with words that are not their own, at most
  Quotable,   \* the words these may be
  None        \* no profile, no client

ASSUME VpnServiceAssumption ==
  /\ {MaxClicks, MaxEvents, MaxSignals, MaxQuotes} \subseteq Nat
  /\ None \notin Profiles \cup Nat

VARIABLES
  clicks,    \* clicks so far
  screen,    \* [state, active]: state and active_id of the screen
  sensitive, \* the rows' buttons take a click, as of refresh_list()
  cmds,      \* VpnCommands that were not received yet
  events,    \* StateChanged events that were not handled yet
  quotes,    \* lines so far whose text held words that are not their own
  quoted,    \* one of them held the words of a success
  worker,    \* [pc, object]: where service_thread() is, and with which client
  handle,    \* the pointer in the mutex
  object,    \* object[o]: the o-th OpenVPNClient and what hangs on it
  inbox,     \* signals queued in the main context
  handler,   \* the signal on_status_change() is running for
  crashed    \* a thread used a client that was freed, and did not survive it

uiVars == <<clicks, screen, sensitive>>
eventVars == <<events, quotes, quoted>>
serviceVars == <<worker, handle>>
vars == <<uiVars, cmds, eventVars, serviceVars, object, inbox, handler, crashed,
          samlVars>>

-----------------------------------------------------------------------------

Objects == 1..MaxClicks

States == {"Idle", "Connecting", "WaitingSaml", "Connected", "Disconnecting",
           "NeedReauth", "Error"}

is_busy(state) == state \in {"Connecting", "WaitingSaml", "Disconnecting"}

\* The thread inside connect() of Phase 1: "ending" is the time between the
\* challenge, or the error, and DISCONNECTED.
Cores == {"none", "dialling", "ending", "exited"}

\* What a StatusChange or a Log signal tells of a session.
Statuses == {"connected", "disconnected", "failed"}

Signals == [of : Objects, status : Statuses]

NoSignal == [of |-> None, status |-> None]

\* In service_thread(): a login ...
LoginPoints == {"phase1", "saml", "phase2_call", "phase2"}
\* ... that has ended, and a disconnect.
Points == LoginPoints \cup {"recv", "failed", "threw", "returned"}
                      \cup {"disconnect", "free", "freed"}

NoObject == [life |-> "unborn", core |-> "none", challenged |-> FALSE,
             session |-> "none", subscribed |-> FALSE, connected |-> FALSE]

ObjectType ==
  [life : {"unborn", "live", "freed"}, core : Cores, challenged : BOOLEAN,
   session : {"none", "started", "up", "failed", "down"},
   subscribed : BOOLEAN, connected : BOOLEAN]

TypeOK ==
  /\ clicks \in 0..MaxClicks
  /\ screen \in [state : States, active : Profiles \cup {None}]
  /\ sensitive \in BOOLEAN
  /\ cmds \in Seq({"Connect", "Disconnect"})
  /\ events \in Seq(States)
  /\ quotes \in 0..MaxQuotes
  /\ quoted \in BOOLEAN
  /\ worker \in [pc : Points, object : Objects \cup {None}]
  /\ handle \in Objects \cup {None}
  /\ object \in [Objects -> ObjectType]
  /\ inbox \in Seq(Signals)
  /\ handler \in Signals \cup {NoSignal}
  /\ crashed \in BOOLEAN
  /\ SamlTypeOK

Init ==
  /\ clicks = 0
  /\ screen = [state |-> "Idle", active |-> None]
  /\ sensitive = TRUE
  /\ cmds = <<>>
  /\ events = <<>>
  /\ quotes = 0
  /\ quoted = FALSE
  /\ worker = [pc |-> "recv", object |-> None]
  /\ handle = None
  /\ object = [o \in Objects |-> NoObject]
  /\ inbox = <<>>
  /\ handler = NoSignal
  /\ crashed = FALSE
  /\ SamlInit

-----------------------------------------------------------------------------
(* The user interface's thread.                                            *)

uiFree == handler = NoSignal

\* set_sensitive() when the list is built, the same for every row: the states
\* excepted for the active one are not busy.
Sensitive(state) == ~is_busy(state)

\* A click disconnects only what is shown as the connected profile, and
\* connects otherwise.  Neither the state nor the list changes before the
\* service's first event.
Click(p) ==
  LET disconnects == screen.active = p /\ screen.state = "Connected"
  IN  /\ uiFree
      /\ clicks < MaxClicks
      /\ sensitive
      /\ clicks' = clicks + 1
      /\ screen' = [screen EXCEPT !.active = IF disconnects THEN None ELSE p]
      /\ cmds' = Append(cmds, IF disconnects THEN "Disconnect" ELSE "Connect")
      /\ UNCHANGED <<sensitive, eventVars, serviceVars, object, inbox, handler,
                     crashed, samlVars>>

\* StateChanged in main.rs: set_state(), which refreshes the list.
HandleEvent ==
  /\ uiFree
  /\ events # <<>>
  /\ screen' = [screen EXCEPT !.state = Head(events)]
  /\ sensitive' = Sensitive(Head(events))
  /\ events' = Tail(events)
  /\ UNCHANGED <<clicks, cmds, quotes, quoted, serviceVars, object, inbox,
                 handler, crashed,
                 samlVars>>

-----------------------------------------------------------------------------
(* Log lines.  A line is the set of the states whose words it holds: "up"  *)
(* for "connected to" and "tunnel is up", "error" for "connectphase2       *)
(* error", "auth_failed" and "authentication failed", "reauth" for         *)
(* "need_creds" and "session expired", "down" for "disconnected" and       *)
(* "tunnel is down".                                                       *)

Words == {"up", "error", "reauth", "down"}

ASSUME QuotableAssumption == Quotable \subseteq Words

reads_mutant_without_to(line) ==
  IF line \cap {"up", "down"} # {} THEN <<"Connected">>
  ELSE IF "error" \in line THEN <<"Error">>
  ELSE IF "reauth" \in line THEN <<"NeedReauth">>
  ELSE <<>>

\* log_callback(): the events one line gives rise to.
Reads(line) ==
  IF "up" \in line THEN <<"Connected">>
  ELSE IF "error" \in line THEN <<"Error">>
  ELSE IF "reauth" \in line THEN <<"NeedReauth">>
  ELSE IF "down" \in line THEN <<"Idle">>
  ELSE <<>>

error_mutant_is_quiet == {}

\* What the C interface logs when Phase 2 threw.
ErrorLine == {"error"}

\* What a message that tells the truth about a status may hold.
Phrases(status) ==
  CASE status = "connected" -> {"up"}
    [] status = "disconnected" -> {"down"}
    [] status = "failed" -> {"error", "down"}

\* unbounded_send(); the bound is the model's, and the main loop's thread,
\* which empties the queue, does not observe it.
Sends(states) ==
  /\ events' = events \o states
  /\ Len(events) + Len(states) <= MaxEvents

emit(state) == Sends(<<state>>) /\ UNCHANGED <<quotes, quoted>>

\* A line the program has written itself, from first to last.
emit_log(line) == Sends(Reads(line)) /\ UNCHANGED <<quotes, quoted>>

\* Other lines carry a text of the server, the services or an exception: next
\* to the words a line has of its own it may hold any other.  One is enough, as
\* the first that is found decides.
Quotes(words) ==
  /\ quotes' = IF words = {} THEN quotes ELSE quotes + 1
  /\ quotes' <= MaxQuotes
  /\ quoted' = (quoted \/ "up" \in words)

Texts == {{}} \cup {{w} : w \in Quotable}

emit_text(own) ==
  \E text \in Texts :
    Sends(Reads(own \cup text)) /\ Quotes(text \ own)

-----------------------------------------------------------------------------
(* The service's thread.                                                   *)

Goes(from, to) ==
  /\ worker.pc = from
  /\ worker' = [worker EXCEPT !.pc = to]

\* The object the service's thread works with.
self == worker.object

\* openvpn_client_new(), and the pointer replaces the one in the mutex; then
\* connect_phase1() starts the core's thread, or throws because of the file.
StartConnect(o) ==
  /\ worker.pc = "recv"
  /\ cmds # <<>> /\ Head(cmds) = "Connect"
  /\ cmds' = Tail(cmds)
  /\ object[o].life = "unborn"
  /\ \A q \in 1..(o - 1) : object[q].life # "unborn"
  /\ handle' = o
  /\ emit("Connecting")
  /\ \/ /\ worker' = [pc |-> "phase1", object |-> o]
        /\ object' = [object EXCEPT ![o].life = "live", ![o].core = "dialling"]
     \/ /\ worker' = [pc |-> "failed", object |-> o]
        /\ object' = [object EXCEPT ![o].life = "live"]
  /\ UNCHANGED <<uiVars, inbox, handler, crashed, samlVars>>

\* A challenge: the browser is started, the state changes, and the capture
\* server binds its port.
Phase1Returns ==
  /\ \/ Goes("phase1", "saml") /\ Bind
     \/ Goes("phase1", "failed") /\ CannotBind
  /\ object[self].challenged
  /\ emit("WaitingSaml")
  /\ UNCHANGED <<uiVars, cmds, handle, object, inbox, handler, crashed>>

\* An error, 30 seconds without an answer, or a challenge with an empty part.
Phase1Fails ==
  /\ Goes("phase1", "failed")
  /\ ~object[self].challenged
  /\ UNCHANGED <<uiVars, cmds, eventVars, handle, object, inbox, handler,
                 crashed,
                 samlVars>>

CaptureReturns ==
  /\ Goes("saml", "phase2_call")
  /\ Captured
  /\ emit("Connecting")
  /\ UNCHANGED <<uiVars, cmds, handle, object, inbox, handler, crashed>>

CaptureTimesOut ==
  /\ Goes("saml", "failed")
  /\ TimedOut
  /\ UNCHANGED <<uiVars, cmds, eventVars, handle, object, inbox, handler,
                 crashed>>

\* The pointer is read again.  connect_phase2() throws before it calls
\* Connect, or because it is not answered, or waits for the outcome.
Phase2Starts ==
  /\ \/ /\ handle = None
        /\ Goes("phase2_call", "failed")
        /\ UNCHANGED object
     \/ /\ handle # None
        /\ Goes("phase2_call", "threw")
        /\ UNCHANGED object
     \/ /\ handle # None
        /\ Goes("phase2_call", "phase2") \/ Goes("phase2_call", "threw")
        /\ object' = [object EXCEPT ![handle].subscribed = TRUE,
                                    ![handle].session = "started"]
  /\ UNCHANGED <<uiVars, cmds, eventVars, handle, inbox, handler, crashed,
                 samlVars>>

\* A signal, or the status that was polled, tells of the tunnel: no line.
Phase2Returns ==
  /\ Goes("phase2", "returned")
  /\ object[self].connected \/ object[self].session = "up"
  /\ object' = [object EXCEPT ![self].connected = TRUE]
  /\ UNCHANGED <<uiVars, cmds, eventVars, handle, inbox, handler, crashed,
                 samlVars>>

\* The polled "connected_to" tells of it, with a line.
Phase2Polled ==
  /\ Goes("phase2", "returned")
  /\ object[self].session = "up"
  /\ object' = [object EXCEPT ![self].connected = TRUE]
  /\ emit_log({"up"})
  /\ UNCHANGED <<uiVars, cmds, handle, inbox, handler, crashed, samlVars>>

\* DBusClient::disconnect() is a request that may go unheard.
AskedToEnd(o) ==
  {object, [object EXCEPT ![o].session = IF @ = "up" THEN "down"
                                         ELSE IF @ = "started" THEN "failed"
                                         ELSE @]}

\* A failure, or 90 seconds are over: disconnect() and throw.
Phase2Throws ==
  /\ Goes("phase2", "threw")
  /\ object' \in AskedToEnd(self)
  /\ UNCHANGED <<uiVars, cmds, eventVars, handle, inbox, handler, crashed,
                 samlVars>>

\* openvpn_client_connect_phase2() catches and logs; the service sees nothing.
LogsError ==
  /\ Goes("threw", "recv")
  /\ emit_text(ErrorLine)
  /\ UNCHANGED <<uiVars, cmds, handle, object, inbox, handler, crashed,
                 samlVars>>

EmitsError ==
  /\ Goes("failed", "recv")
  /\ emit("Error")
  /\ UNCHANGED <<uiVars, cmds, handle, object, inbox, handler, crashed,
                 samlVars>>

Phase2Ends ==
  /\ Goes("returned", "recv")
  /\ UNCHANGED <<uiVars, cmds, eventVars, handle, object, inbox, handler,
                 crashed,
                 samlVars>>

take_mutant_copies == handle
take_mutant_null == 0

\* What take() leaves in the mutex.
Taken == None

frees_mutant_never == "freed"

\* There is something to disconnect only when the mutex held a pointer.
AfterTake == IF handle # None THEN "disconnect" ELSE "freed"

\* VpnCommand::Disconnect takes the pointer out of the mutex ...
StartDisconnect ==
  /\ worker.pc = "recv"
  /\ cmds # <<>> /\ Head(cmds) = "Disconnect"
  /\ cmds' = Tail(cmds)
  /\ handle' = Taken
  /\ worker' = [pc |-> AfterTake, object |-> handle]
  /\ emit("Disconnecting")
  /\ UNCHANGED <<uiVars, object, inbox, handler, crashed, samlVars>>

\* ... disconnects the client ...
Disconnects ==
  /\ Goes("disconnect", "free")
  /\ object' \in AskedToEnd(self)
  /\ UNCHANGED <<uiVars, cmds, eventVars, handle, inbox, handler, crashed,
                 samlVars>>

\* ... and frees it, which unsubscribes from its signals.
Frees ==
  /\ Goes("free", "freed")
  /\ object' = [object EXCEPT ![self].life = "freed",
                              ![self].subscribed = FALSE]
  /\ UNCHANGED <<uiVars, cmds, eventVars, handle, inbox, handler, crashed,
                 samlVars>>

EmitsIdle ==
  /\ Goes("freed", "recv")
  /\ emit("Idle")
  /\ UNCHANGED <<uiVars, cmds, handle, object, inbox, handler, crashed,
                 samlVars>>

-----------------------------------------------------------------------------
(* The thread of Phase 1's core, and the signals.  Both write through the  *)
(* client and its log callback, also when it has been freed: that may go   *)
(* well or not.                                                            *)

Survives(o) ==
  \/ crashed' = FALSE
  \/ object[o].life = "freed" /\ crashed' = TRUE

\* The EVENT line of DYNAMIC_CHALLENGE, or of an error, AUTH_FAILED and
\* NEED_CREDS being two.
CoreAnswered(o) ==
  /\ object[o].core = "dialling"
  /\ \/ /\ object' = [object EXCEPT ![o].core = "ending",
                                    ![o].challenged = TRUE]
        /\ emit_text({})
     \/ /\ object' = [object EXCEPT ![o].core = "ending"]
        /\ \E own \in {{}, {"error"}, {"reauth"}} : emit_text(own)
  /\ Survives(o)
  /\ UNCHANGED <<uiVars, cmds, serviceVars, inbox, handler, samlVars>>

\* DISCONNECTED is logged like every event.
CoreDisconnected(o) ==
  /\ object[o].core \in {"dialling", "ending"}
  /\ object' = [object EXCEPT ![o].core = "exited"]
  /\ emit_text({"down"})
  /\ Survives(o)
  /\ UNCHANGED <<uiVars, cmds, serviceVars, inbox, handler, samlVars>>

\* log(), and the EVENT line of an event that changes nothing.
CoreLogs(o) ==
  /\ object[o].core \in {"dialling", "ending"}
  /\ emit_text({})
  /\ Survives(o)
  /\ UNCHANGED <<uiVars, cmds, serviceVars, object, inbox, handler, samlVars>>

\* A signal is dispatched if its subscription still exists.
SignalDispatched ==
  /\ uiFree
  /\ inbox # <<>>
  /\ inbox' = Tail(inbox)
  /\ handler' = IF object[Head(inbox).of].subscribed THEN Head(inbox)
                ELSE NoSignal
  /\ UNCHANGED <<uiVars, cmds, eventVars, serviceVars, object, crashed,
                 samlVars>>

\* The flag after a message.  DISCONNECTED in capitals holds the word that is
\* looked for (module DBusClient), and so may any other text.
SetsConnected(status, text, connected) ==
  IF status = "connected" THEN {TRUE}
  ELSE IF status = "disconnected" \/ "up" \in text THEN {connected, TRUE}
  ELSE {connected}

\* The line a StatusChange has of its own when it ends a tunnel that was up.
OwnLine(status, connected) ==
  IF status = "disconnected" /\ connected THEN {<<>>, Reads({"down"})}
  ELSE {<<>>}

\* The message of a signal, of either kind, is logged.
Handled(o, status, own, line) ==
  \E text \in Texts :
    /\ events' = events \o Reads(own \cup text) \o line
    /\ Quotes(text \ own)
    /\ \E c \in SetsConnected(status, text, object[o].connected) :
         object' = [object EXCEPT ![o].connected = c]

on_status_change ==
  LET o == handler.of
  IN  /\ handler # NoSignal
      /\ handler' = NoSignal
      /\ \E own \in SUBSET Phrases(handler.status),
            line \in OwnLine(handler.status, object[o].connected) :
           Handled(o, handler.status, own, line)
      /\ Survives(o)
      /\ UNCHANGED <<uiVars, cmds, serviceVars, inbox, samlVars>>

\* A signal about anything else changes nothing but by words that are not its
\* own.  It is handled in one step: what may happen to the client meanwhile is
\* seen with the others.
OtherSignal(o) ==
  /\ uiFree
  /\ object[o].subscribed
  /\ quotes < MaxQuotes
  /\ Handled(o, "other", {}, <<>>)
  /\ UNCHANGED <<uiVars, cmds, serviceVars, inbox, handler, crashed, samlVars>>

-----------------------------------------------------------------------------
(* The services and the browser.                                           *)

SessionGoes(o, from, to, status) ==
  /\ object[o].session \in from
  /\ object[o].subscribed
  /\ object' = [object EXCEPT ![o].session = to]
  /\ inbox' \in {inbox, Append(inbox, [of |-> o, status |-> status])}
  /\ Len(inbox') <= MaxSignals
  /\ UNCHANGED <<uiVars, cmds, eventVars, serviceVars, handler, crashed,
                 samlVars>>

Backend(o) ==
  \/ SessionGoes(o, {"started"}, "up", "connected")
  \/ \E status \in {"disconnected", "failed"} :
       \/ SessionGoes(o, {"started"}, "failed", status)
       \/ SessionGoes(o, {"up"}, "down", status)

Browser ==
  /\ \E method \in {"GET", "POST"}, form \in {"empty", "token"} :
       Request(method, form)
  /\ UNCHANGED <<uiVars, cmds, eventVars, serviceVars, object, inbox, handler,
                 crashed>>

-----------------------------------------------------------------------------

ServiceStep ==
  \/ \E o \in Objects : StartConnect(o)
  \/ Phase1Returns \/ Phase1Fails
  \/ CaptureReturns \/ CaptureTimesOut
  \/ Phase2Starts \/ Phase2Returns \/ Phase2Polled \/ Phase2Throws
  \/ LogsError \/ EmitsError \/ Phase2Ends
  \/ StartDisconnect \/ Disconnects \/ Frees \/ EmitsIdle

\* The GLib main loop, for all of the program.
MainLoop == HandleEvent \/ SignalDispatched \/ on_status_change

CoreStep(o) == CoreAnswered(o) \/ CoreDisconnected(o) \/ CoreLogs(o)

\* The service waits for a command; or the program is no more.
Quiet ==
  /\ (worker.pc = "recv" /\ cmds = <<>>) \/ crashed
  /\ UNCHANGED vars

Next ==
  \/ ~crashed /\ \E p \in Profiles : Click(p)
  \/ ~crashed /\ MainLoop
  \/ ~crashed /\ ServiceStep
  \/ ~crashed /\ \E o \in Objects : CoreStep(o)
  \/ ~crashed /\ \E o \in Objects : OtherSignal(o)
  \/ ~crashed /\ \E o \in Objects : Backend(o)
  \/ ~crashed /\ Browser
  \/ Quiet

Spec == Init /\ [][Next]_vars

\* The main loop and the service's thread run; every call of the service ends
\* within its time limit.  Nothing is assumed of the user, the browser, the
\* servers and the services.
Fairness ==
  /\ WF_vars(~crashed /\ MainLoop)
  /\ WF_vars(~crashed /\ ServiceStep)

FairSpec == Spec /\ Fairness

-----------------------------------------------------------------------------
(* Safety.                                                                 *)

\* The service never uses a client it has freed, and Phase 2 continues the
\* client whose Phase 1 it continues, although the pointer is given back to
\* the mutex and read again after a login of up to 120 seconds.
OwnClientIsLive ==
  /\ handle # None => object[handle].life = "live"
  /\ worker.pc \in LoginPoints =>
       self # None /\ handle = self /\ object[self].life = "live"
  /\ worker.pc \in {"disconnect", "free"} =>
       self # None /\ handle = None /\ object[self].life = "live"

\* Nobody but a later Connect takes a client away from the user: one that is
\* neither freed nor in the mutex was overwritten there by a newer one, or is
\* being freed.
OnlyConnectLosesAClient ==
  \A o \in Objects :
    object[o].life = "live" /\ handle # o =>
      \/ \E q \in Objects : q > o /\ object[q].life # "unborn"
      \/ worker.pc \in {"disconnect", "free"} /\ self = o

\* "Connected" is shown only when some session has been up, or when a text that
\* is not the program's held the words for it: no line that the program writes,
\* and no message that tells the truth, is read as a success it does not tell
\* of, in whatever order the lines of Phase 1, Phase 2 and the signals come.
ShownConnectedIsReal ==
  screen.state = "Connected" =>
    quoted \/ \E o \in Objects : object[o].session \in {"up", "down"}

\* "libopenlawsvpn client pointer is used from a single dedicated thread": no
\* other thread is inside the client when the service frees it.
FreedIsUnused == ~crashed

-----------------------------------------------------------------------------
(* Liveness.                                                               *)

\* Every command comes to its end, and the next one in the queue has its turn.
ServiceReturns == []<>(worker.pc = "recv" \/ crashed)

\* A login that fails, in whichever phase, is shown as an error, unless Phase 2
\* threw with a message that holds the words of a success.
FailureIsShown ==
  /\ worker.pc = "failed" ~> screen.state = "Error" \/ crashed
  /\ worker.pc = "threw" ~>
       \/ screen.state = "Error" \/ crashed
       \/ quoted /\ screen.state = "Connected"

\* "Connected is emitted when the log callback sees "tunnel is up"": a Phase 2
\* that succeeds is shown as connected, if the tunnel lasts.
SuccessIsShown ==
  \A o \in Objects :
    worker = [pc |-> "returned", object |-> o] /\ object[o].session = "up"
      ~> screen.state = "Connected" \/ object[o].session # "up" \/ crashed

=============================================================================
