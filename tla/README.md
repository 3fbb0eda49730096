# Verification of openlawsvpn

TLA+ specifications of the parts of openlawsvpn that decide whether a VPN
connection comes up, is renewed and goes away as promised; TLC configurations
that check them on small instances; and proofs, checked by TLAPS, that the most
important properties hold for any number of servers, clients, retries, requests
and profiles.

Paths below are relative to `src/`.

## 1. The system

openlawsvpn connects to an AWS Client VPN endpoint that wants a SAML login. A
connection has two phases. Phase 1 connects with placeholder credentials; the
server refuses them with a *challenge*: the URL of the login and a *state id*.
The user logs in with a browser, which posts a token to
`127.0.0.1:35001`. Phase 2 connects again, to the same server, with
`CRV1::<state id>::<token>`. When the server later rejects the stored session,
the login starts over.

| Component | Source | State it keeps | Operations | Module |
|---|---|---|---|---|
| CoreClient | `linux/src/libopenlawsvpn.cpp:80-379` | what the events said (`done_`, `connected_`, `error_`, `need_reauth_`, `final_disconnect_`), state id and address; a mutex and a condition variable | `event()`, `socket_protect()`, three waits | `CoreClient` |
| OpenVPNClient | same file, `384-540` | `impl_->core_client`, `impl_->dbus_client`, mode | `connect_phase1`, `connect_phase2`, `wait_for_disconnect`, `disconnect` | `Cli` |
| Command line program | `linux/src/main.cpp` | the current login | `do_connect`, the reconnect loop, `signal_handler` | `Cli` |
| DBusClient | `linux/src/dbus_client.cpp` | session path, `connected`, `failed`, subscription | `connect`, `on_status_change`, `disconnect` | `DBusClient` |
| SAMLCapture | `linux/src/saml_capture.cpp` | acceptor, promise | `start`, `SAMLServer::run` | `SamlCapture` |
| C interface | `linux/src/libopenlawsvpn_ffi.cpp` | the object behind the client pointer | `openvpn_client_new`, `_free`, `_connect_phase1`, `_connect_phase2`, `_disconnect` | `VpnService` |
| GTK VPN service | `gui-gtk/src/vpn_service.rs` | command queue, client pointer, event queue | `Connect`, `Disconnect`, `log_callback` | `VpnService` |
| Rust SAML server | `gui-gtk/src/saml_server.rs` | listener, one-shot channel | `capture_saml_token`, two request handlers | `SamlServer` |
| GTK connection screen | `gui-gtk/src/connection/`, `main.rs` | state shown, active profile, sensitivity of buttons, list of rows | `set_state`, `refresh_list`, the handlers of a row, the event loop | `VpnService`, `ProfileStore` |
| Profile store | `gui-gtk/src/profile_store.rs` | a directory per profile | `list`, `import`, `delete` | `ProfileStore` |
| Log view, tray | `gui-gtk/src/log_view.rs`, `tray.rs` | lines; last state | display | see 8 |

How they interact: `main()` calls the library and blocks in it. The library
starts one thread per CoreClient, which runs openvpn3-core and calls
`event()`/`socket_protect()` on the object; the two sides meet at `mutex_` and
`cv_`. The CoreClient is shared between `impl_` and the thread. In DBUS mode
(the default) Phase 2 is a conversation with the openvpn3-linux services, whose
signals arrive through the GLib main context; in the GTK program that context
belongs to the user interface's thread. The token comes from another detached
thread through a `std::promise`. The signal handler calls `disconnect()` and
exits, wherever the program is.

In the GTK program the screen sends commands to one service thread, which drives
the C interface and blocks in it. The library knows nothing of the screen: it
calls `log_callback()` with lines of text, on whichever thread they arise (the
service's, the thread of Phase 1, the user interface's for a D-Bus signal), and
the words of a line decide which state is sent to the screen, whether the program
wrote them or openvpn3-core, a service or the text of an exception did. Each window keeps
the list of profiles as of its last refresh, and a login reads the file of its
profile twice, minutes apart.

Hard behaviours, and what makes each component correct:

* *CoreClient, OpenVPNClient*: fields are written partly without the mutex; a
  wake-up can be lost; events come in an order that the code relies on; objects
  are replaced while their threads still run. Correct means: the caller gets one
  whole challenge, is always woken, never sends the token to another server than
  the one that asked, never authenticates while an old tunnel is up, and renews
  exactly the sessions that were rejected.
* *DBusClient*: every call may fail before or after it was executed, calls are
  retried, and the outcome is reported three ways. Correct means: success only
  for a tunnel that has been up, no duplicate sessions, no session left behind,
  no missed outcome, an end after 90 seconds.
* *SAMLCapture*: one connection, read in whatever segments it comes in, a
  promise that may be completed once, a port that may be taken. Correct means:
  a whole token or an error reaches the caller, and the page shown to the user
  agrees with what the program knows.

* *GTK service, C interface, screen, Rust SAML server*: the client pointer is
  put down, taken and read again around a login of two minutes in which clicks
  are queued; states come out of log lines; buttons follow events. Correct means:
  the service uses and frees the client it means, none is lost but by the next
  Connect, nothing that the program writes is shown as a tunnel that never was,
  every command ends and every failure is shown.
* *Profile store*: two files written one after the other, errors dropped, kills
  at any point, lists that are not told of deletions. Correct means: what is
  listed can be connected with the whole file that was imported, imports
  survive, and both phases of a login read the same configuration.

`PROJECT.json` lists every hazard at its line with the properties that cover it.

## 2. Modules

| Module | Role |
|---|---|
| `CoreClient` | the CoreClient objects, the threads inside `connect()`, `cv_` |
| `Cli` | extends `CoreClient` with the caller (`main()` and the library's methods), the signal handler and, in DBUS mode, the backend's tunnel; states the properties and the invariants |
| `VpnSession` | what the client promises, without threads and events: the operational state machine of `linux/README.md` section 6 as the code has it |
| `MCCli` | the small instance of `Cli` |
| `DBusClient` | `DBusClient::connect()` step by step, with the services |
| `PhaseTwo` | what `connect()` promises its caller in DBUS mode: one call and one session, without calls, retries, polls and signals |
| `SamlCapture`, `MCSamlCapture` | the callback server with browser and port, and its instance |
| `SamlServer` | the capture server of the GTK program |
| `VpnService` | extends `SamlServer` with the GTK program: service, C interface, screen, threads of the clients, services, browser |
| `ProfileStore` | the directory of profiles, the windows and the logins that use it |
| `MCProfileStore` | the small instance of `ProfileStore` |
| `AtomicStore` | what the profile store promises: a profile is one value, which appears at once and is read once |
| `CliProofs` | typing, the inductive invariant and the safety theorems of `Cli` |
| `CliRefinement` | the session invariant, and `Cli` implements `VpnSession` |
| `DBusClientProofs` | typing, the inductive invariant and the safety theorems of `DBusClient` |
| `DBusRefinement` | `DBusClient` implements `PhaseTwo` |
| `SamlCaptureProofs`, `VpnServiceProofs`, `ProfileStoreProofs` | typing, the inductive invariant and the safety theorems of `SamlCapture`, `VpnService`, `ProfileStore` |
| `ProfileStoreRefinement` | `ProfileStore` implements `AtomicStore` |

`VpnSession` is used by `Cli` through `INSTANCE ... WITH`; the mapping is
`vpn_state`, `vpn_issuer`, `vpn_dialled` at the end of `Cli`. `PhaseTwo` is used
by `DBusClient` in the same way, through `phase_call` and `phase_session`, and
`AtomicStore` by `ProfileStore`, through `store_profile`, `store_shown`,
`store_chosen` and `store_given`.

Operators whose names contain `_mutant_` are not part of the specifications.
Each is a variant of the definition that follows it, with a plausible bug, and
shows that a property depends on that definition.

### CoreClient and Cli

`client[c]` holds the fields of the object, `config[c]` the credentials and the
server override given to it, `core[c]` where its thread is, `peer[c]` the server
it has a socket to, `session[c]` what the server thinks, `holders[c]` who owns
the `shared_ptr`, and `asleep` the condition variable the caller sleeps on. A
server's state id is named by the server. `pc` is the caller's place in
`main()` and the library.

* One branch of `event()` is one action, because it holds `mutex_` throughout.
  DYNAMIC_CHALLENGE is two (`ChallengeParsed`, `ChallengeDone`): `state_id_` and
  `saml_url_` are assigned before the lock (336-339).
* `cv_.wait` is `WaitSleeps` (predicate false, go to sleep) and one of the
  `...Returns` actions (awake, predicate true); `WaitTimesOut` is the end of the
  30 seconds and tests the predicate once more, as `wait_for` does.
* `StartClient` is the replacement of `impl_->core_client` together with the
  start of the thread: nothing else in the program can see the object between
  the two. The object held before loses the owner `impl_`.
* The end of the process stops every thread, so nothing moves after it.
* openvpn3-core is external. It may open sockets to any allowed server, lose
  and re-establish a connection, deliver any of the events, or return without
  one. Assumed: the events of one client come one after another; DISCONNECTED
  is the last event of a session that ends; after AUTH_FAILED it stops unless
  the profile it was given has `auth-retry`; no socket is opened after `stop()`.
  A server accepts only a state id that it issued.
* `read_and_filter_config` is modelled on sets of directives.

### DBusClient

`pc` names the D-Bus call that is next. NewTunnel and Connect, which create or
start something, are two steps, execution and reply, so that a reply can be
lost; Import with a lost reply is one branch of `ImportFails`. `tries` is the
counter of the current `for` loop, `inbox` the signals queued in the main
context, `service` what the services hold. `site` is where the program runs and
never changes: dispatcher `"self"` is the command line client (handlers run only
inside `g_main_context_iteration`), `"gtk"` the GTK program (handlers run at any
time on the other thread, and the iteration returns FALSE at once); the wording
stands for the text of the messages, of which the code looks for two words:
`"silent"` holds neither, and in `"UPPERCASE"` the message of a disconnection
holds the word that stands for success. `service.cut` records that a session was
disconnected before it was up, which is the one a success may be mistaken for
(`Misread`).

`PhaseTwo` is the same call as its caller sees it. `call` is `"asking"` until the
reply to Connect, then `"waiting"`, then one of three ends; `session` is what
became of the session (`"cut"`: disconnected before it was up); `clean` says that
it is gone or that the backend was asked to end it. It promises that the call
returns only for a session that is or has been up or, if the services may write
in capitals (`MayMisread`), was cut (`Succeeds`), that from the reply on a
failure leaves nothing behind (`Fails`, `Stops`), and that a call that waits
ends. Before the reply it promises nothing of the kind (`Refused`), which is what
`dbus_stale` is about.

### SamlCapture

`server[i]` and `promise[i]` belong to the i-th login. A body is counted in
units; the first one holds the key. `content_length`, the bytes that came with
the header and the subtraction between them keep the width of `size_t` (twice
`HalfSize`, which is 2^63 in the program): `remaining` wraps around, and a vector
of that size throws. The browser's bytes arrive in any segments, and it may close
at any time. `Satisfy` is what `std::promise` does: the second completion throws,
which out of the handler in `run()` is `std::terminate()`. A promise that is
destroyed without a value completes its future with an exception
(`ServerReturns`). URL decoding and base64 normalisation (59-99) are left out: no
property here is about the token's text.

### VpnService and SamlServer

`worker` is where `service_thread()` is, with the client it works on; `handle`
the pointer in the mutex; `object[o]` the o-th client: its life, the detached
thread of its Phase 1 (`core`), its D-Bus session, subscription and `connected`.
`cmds` and `events` are the two queues, `screen` and `sensitive` what the user
sees and may click. `handler` is the signal that `on_status_change()` runs for on
the user interface's thread: dispatch and handler are two steps, so that the
service may free the client between them.

* A log line is the set of the states whose words it holds (`Words`), and `Reads`
  is the chain of `if`s of `log_callback()`, in which the words of a success come
  first. A line has words of its own: the polled `connected_to` (`emit_log`), the
  line of the C interface about an exception (`ErrorLine`), the names of the
  core's events (`CoreAnswered`, `CoreDisconnected`), what a service says of a
  status when it tells the truth (`Phrases`). Beside them it may hold a text of
  somebody else (the info of an event, what openvpn3-core logs, the message of a
  signal of either kind, of an exception), and that may hold any words:
  `emit_text` and `Handled`. `quotes` counts the lines with words that are not
  their own, and `quoted` says that one of them held the words of a success.
  `CoreLogs` is `log()`, and `OtherSignal` a StatusChange or Log about nothing
  that the other actions have.
* `ConnectionScreen` sets state and active profile at different times:
  `active` at the click, the state when an event is handled. `Click` and
  `HandleEvent` keep that. A click is possible while the row is sensitive, which
  is as of the last `refresh_list()`.
* The two phases are reduced to what the rest of the program can tell apart:
  `CoreAnswered` and `CoreDisconnected` for `CoreClient`, and the steps of
  `PhaseTwo` for `DBusClient` (`Phase2Starts`, `Phase2Returns`, `Phase2Polled`,
  `Phase2Throws`); that `DBusClient` makes no other steps is the refinement
  checked by `dbus` and proved in `DBusRefinement`.
* A thread that goes through a client which was freed may get away with it:
  `Survives` is a choice. After `crashed` nothing moves.
* `capture_saml_token()` binds, serves any number of requests, sends the first
  one that qualifies through the channel, and drops listener and channel however
  it ends. `timeout()` polls the receiver before the clock, so a token that has
  arrived wins.

### ProfileStore

`dir[id]` holds the two files of a profile, absent, partly written or whole.
All calls of the store come from the user interface's thread, so one runs at a
time (`op`), but the process may be killed between any two steps of it, which
leaves `dir` and nothing else. `list()` may fail to read the directory or a
`meta.json`, and its result is then shorter or empty (`list(readable)`). A write
is two steps, creation and content; any
write may fail and the code goes on. `delete()` removes the files one at a time,
in any order, and may stop early. `rows[w]` is the list of a window as of its last
refresh, `login[w]` what each phase of a login has read. `imported`, `kept` and
`hurt` record what the properties speak of and are read by no action.

`AtomicStore` has no files, no calls in progress, no kills and no errors. A
profile is `None` until `list()` would find it, and then its content; `Part`
stands for a profile about which nothing is promised, because `delete()` or an
error of the disk has touched it (`hurt`). Lists hold every whole profile and
nothing that was not added, and a login is `given` one value, once: the second
reading, by Phase 2, must find the same and so maps to a stutter. The write of
`meta.json` is where a profile appears (`Add`); a kill between two writes maps
to a stutter, because the profile was not there before and is not after.

## 3. What the runs check

Passing runs:

| Run | Properties | Shows |
|---|---|---|
| `cli_direct` | `TypeOK`, `NoLostWakeup`, `ChallengeReadWhole`, `AnswersAtIssuer`, `NoTunnelWhileAuthenticating`, `OwnedWhileRunning` | safety of the `--standalone` client |
| | `IInv`, `SessionInv` | the two invariants of the proofs |
| | `WaitTellsTheReason` | `wait_for_disconnect()` returns after the session, and true exactly when the server has rejected it |
| | `ImplementsVpnSession`, `AttemptsEnd`, `TornDownIsNoticed` | refinement including the renewal of rejected sessions; no attempt hangs; the end of a tunnel is noticed |
| `cli_dbus` | `OnlySignalsEndDbusWait` | in the default mode a signal is the only way out of `wait_for_disconnect()` |
| `dbus` | `TypeOK`, `ConfirmedByBackend`, `RetriesAreSafe`, `AcceptedAttemptIsCleanedUp`, `NoMissedOutcome` | Phase 2 over D-Bus with either dispatcher |
| | `StepsAreBounded` | retries and polls use up a number of steps that is fixed at the start of the call |
| | `ConnectEnds`, `ImplementsPhaseTwo` | the call ends; the refinement, its fairness included |
| `saml` | `TypeOK`, `TokenIsWhole`, `AbortsOnlyWhenPortTaken`, `PageMeansToken`, `OutcomeReachesCaller` | the callback server over two logins |
| `gtk` | `TypeOK`, `OwnClientIsLive`, `OnlyConnectLosesAClient` | whose the clients are in the GTK program; that a Connect overwrites the pointer of the one before is what the last one exempts |
| | `ShownConnectedIsReal` | no line that the program writes and no true message is shown as a tunnel that never was |
| | `ServiceReturns` | every command ends |
| | `FailureIsShown` | every failed login is shown as an error, except a Phase 2 that threw when a quoted text held the words of a success |
| `profiles` | `TypeOK`, `ShownIsWhole`, `ImportIsKept`, `OneConfiguration` | the store under kills, failed writes, deletions and two windows |
| | `ImplementsAtomicStore` | the store of files looks like one of whole profiles |

Runs that show the code and its documentation apart (details under `findings`
in `PROJECT.json`):

| Run | Property | The code |
|---|---|---|
| `cli_dbus_disconnect` | `TornDownIsNoticed` | in DBUS mode `wait_for_disconnect()` waits on the Phase 1 client and never returns; that no execution at all returns is the theorem `DbusWaitsForSignal` |
| `dbus_stale` | `NoStaleSession` | three of the failures after NewTunnel leave the session behind |
| `dbus_null` | `PollsTheNewSession` | after five tries NewTunnel's missing reply is dereferenced |
| `saml_again` | `OwnPortIsNoConflict` | a taken port terminates the program, and who holds it may be its own previous server, whose token it has |
| `gtk_connected` | `SuccessIsShown` | "Tunnel is up." goes to `std::cout` and not to the callback: after a signal or a polled status the state stays Connecting |
| `gtk_freed` | `FreedIsUnused` | a client is freed while the thread of its Phase 1, or a signal handler on the other thread, uses it |

Further disagreements have no run of their own:

* `strstr(message, "CONNECTED")` (`linux/src/dbus_client.cpp:74`, `112`, `473`)
  also finds the word in DISCONNECTED, and it is tested before the codes: services
  that write in capitals make `connect()` succeed for a session that ended before
  it was up, where `linux/README.md:80` wants a "Connected" status. With
  `Wordings = {"UPPERCASE"}` TLC finds `ConnectedMeansUp` violated. Which words the
  services use is not known from the repository. `ConfirmedByBackend`, which `dbus`
  checks with all wordings, says that this is the only false success, and
  `PlainSuccess` proves `ConnectedMeansUp` for services that do not write so.
* Phase 1 ends with a line that names the event DISCONNECTED
  (`linux/src/libopenlawsvpn.cpp:314`), and `log_callback()` takes it for the end of
  a connection (`gui-gtk/src/vpn_service.rs:268`): in the middle of the login Idle
  is shown, and all buttons take a click, where
  `gui-gtk/src/connection/mod.rs:138` wants them disabled "while a connection is in
  progress". In the model: `Phase1Returns`, `CoreDisconnected`, `HandleEvent` reach
  a state with `worker.pc = "saml"` and `sensitive`.
* `linux/README.md:102` wants a port conflict to fail gracefully, whoever holds the
  port. Another program is the simpler case of `saml_again`:
  `AbortsOnlyWhenPortTaken` names both.
* In DBUS mode the issuer's address is put in front of the profile's own
  remotes (`linux/src/dbus_client.cpp:158`): a preference, not a pin. TLC finds
  `AnswersAtIssuer` violated with `ConnectMode = "DBUS"`.
* `linux/README.md:60` says that the capture server stops once it has a token;
  it stops after the first connection, whatever that carries
  (`linux/src/saml_capture.cpp:23`). `linux/README.md:104` asks for a time limit
  of the login, and there is none. `OutcomeReachesCaller` assumes a browser that
  finishes its request.

## 4. Bounds, and why they are enough

* `Cli`: three clients, two servers. `impl_` owns one client, and one or two
  threads may still be unwinding; when all three are taken `ConnectPhase1` waits
  for a thread to exit, so a fourth object would only add another thread that
  has nothing left to do. Two servers tell the issuer from another one. Objects
  and servers are interchangeable, so `cli_dbus`, which checks only an action
  property, uses symmetry; the runs with liveness properties do not. `cli_dbus` is
  about Phase 2 and the wait: Phase 1 is the same code in both modes, and
  `cli_direct` checks it. The theorems hold for any sets.
* `DBusClient`: the loops have the bounds of the code (5, 5, 20, 20). The wait
  loop makes three passes (`WaitPasses`) where the code makes up to 180: a pass
  depends on nothing but the flags and the services, so the third behaves as
  every later one. `dbus` has both dispatchers and all three wordings. The queue
  holds at most two signals per change of the session, of which there are at most four.
* `SamlCapture`: two logins, so that a server meets the one before; two
  connections: one is served while the other waits. Bodies of at most two units
  and one trailing unit reach every branch of the length arithmetic with a 3 bit
  `size_t`. Deadlock is not checked here: the
  server may really wait in `accept()` for ever, as it has no time limit.
* `VpnService`: one profile and two clicks, hence two clients: one Connect
  behind the other, and Connect, Disconnect. Whoever sends an event waits for
  room, except `on_status_change()`, which runs on the thread that empties the
  queue. The program has no such limit; as no sender reads the queue,
  the limit only restricts how far the screen lags behind. `gtk` has one event,
  one signal, and one line with words that are not its own (`MaxQuotes`), which are
  those of a success (`Quotable`): they are tested first and so win over whatever
  else a line says, while those of the other states only come at other times than
  the lines that have them anyway. `gtk_freed` and `gtk_connected` need no such
  line. The theorems hold for any profiles, clicks, limits and words; in particular
  `OwnClientLives`, `NoOtherLoss` and `ShownIsReal` cover a second profile, which a
  user may connect while the first one is connected.
* `ProfileStore`: two ids, two contents, two windows: a profile and another one
  that an import, a deletion or a login might confuse with it, and a window
  whose list is older than the other's. Ids are not given out again, as a UUID
  is not. Kills and failures are unbounded. Ids, contents and windows are
  interchangeable, and no property of this run is about liveness, so it uses
  symmetry.

## 5. Fairness

Only the program's own threads are assumed to be scheduled: the caller, what a
CoreClient's thread does once its session has to end, the steps of
`DBusClient::connect()` (each D-Bus call returns, at the latest with its own
timeout), the thread that runs the signal handlers, the SAML server's thread, the
service's thread and the main loop of the GTK program. The latter is one thread
that handles events, dispatches signals and finishes their handlers, so it has
one condition (`MainLoop`): that it does something when it has something to do.
`PhaseTwo` assumes that a call which waits ends, and `dbus` checks that
`DBusClient` does so under its own fairness. Expired timeouts are the caller's
own steps. Nothing is assumed of servers, the network, the services, the browser,
the user or signals.

## 6. What is proved

The theorems hold for every value of the constants, under the `ASSUME` of each
module: that `None` is nothing else, that tries, passes and limits are numbers,
and that a body fits into half of `size_t`. DIRECT marks those that assume
`ConnectMode = "DIRECT"`, since DBUS mode violates them, PLAIN the one that assumes
that `"UPPERCASE"` is not among the wordings, since such services violate it.

| Module | Theorem | Statement |
|---|---|---|
| `CliProofs` | `TypeCorrect` | `Spec => []TypeOK` |
| | `InvariantHolds` | `Spec => []IInv` |
| | `CallerIsWoken` | `Spec => []NoLostWakeup` |
| | `ChallengeIsWhole` | `Spec => []ChallengeReadWhole` |
| | `TokenGoesToIssuer` | DIRECT: `Spec => []AnswersAtIssuer` |
| | `OneTunnelAtATime` | `Spec => []NoTunnelWhileAuthenticating` |
| | `NoUseAfterFree` | `Spec => []OwnedWhileRunning` |
| `CliRefinement` | `SessionInvariantHolds` | `Spec => []SessionInv` |
| | `Refinement` | DIRECT: `Spec => Vpn!Safety` |
| | `HonestWait` | `Spec => WaitTellsTheReason` |
| | `DbusWaitsForSignal` | `Spec => OnlySignalsEndDbusWait` |
| `DBusClientProofs` | `TypeCorrect` | `Spec => []TypeOK` |
| | `RetrySafety` | `Spec => []RetriesAreSafe` |
| | `CleanUp` | `Spec => []AcceptedAttemptIsCleanedUp` |
| | `OutcomeSeen` | `Spec => []NoMissedOutcome` |
| | `OnlyConfirmed` | `Spec => [](TypeOK /\ Confirmed)` |
| | `NoFalseSuccess` | `Spec => []ConfirmedByBackend` |
| | `PlainSuccess` | PLAIN: `Spec => []ConnectedMeansUp` |
| | `BoundedSteps` | `Spec => StepsAreBounded` |
| `DBusRefinement` | `PhaseTwoRefinement` | `Spec => Phase!Safety` |
| `SamlCaptureProofs` | `TypeCorrect` | `Spec => []TypeOK` |
| | `WholeTokens` | `Spec => []TokenIsWhole` |
| | `WrapIsRefused` | `Spec => OverlongIsRefused` |
| | `OneOutcome` | `Spec => []AbortsOnlyWhenPortTaken` |
| | `HonestPage` | `Spec => []PageMeansToken` |
| `VpnServiceProofs` | `TypeCorrect` | `Spec => []TypeOK` |
| | `OwnClientLives` | `Spec => []OwnClientIsLive` |
| | `NoOtherLoss` | `Spec => []OnlyConnectLosesAClient` |
| | `ShownIsReal` | `Spec => []ShownConnectedIsReal` |
| `ProfileStoreProofs` | `TypeCorrect` | `Spec => []TypeOK` |
| | `ShownWhole` | `Spec => []ShownIsWhole` |
| | `ImportsKept` | `Spec => []ImportIsKept` |
| | `SameConfiguration` | `Spec => []OneConfiguration` |
| `ProfileStoreRefinement` | `AtomicStoreRefinement` | `Spec => Store!Spec` |

### Cli

Typing is inductive on its own. The safety properties are not: that the token
goes to the issuer needs to know that the address recorded without the mutex is
still the one of the server that sent the challenge when the caller reads it.
`IInv` adds what is missing, as named parts:

* `AddressIsRecorded`: an open socket's address is in `remote_ip_`, and once a
  state id is stored it is the issuer's and no further socket is opened;
* `AnswerIsPinned`: Phase 2 credentials come with the issuer's address as the
  server override, and every socket obeys it;
* `SessionIsWaitedFor`: only a client with Phase 2 credentials connects, the
  final disconnect ends its session, and while it is in one it is the client
  the caller waits on;
* the thread keeps its `shared_ptr` until it exits;
* `NoLostWakeup` and `ChallengeReadWhole` themselves.

Each part has a lemma that a step of a CoreClient's thread preserves it
(`CoreKeeps...`), and the steps of the caller and of everybody else follow.
The theorems are corollaries.

`Refinement` needs `SessionInv` as well: that `connected_` and `need_reauth_`
are what the server thinks, which in turn needs that the filter removes
`auth-retry` (`NeverRetriesAuth`). Every step of the caller, of the others and
of the thread of the client that is waited for maps to a step of `VpnSession`
or a stutter; threads of other clients always stutter.

`HonestWait` and `DbusWaitsForSignal` are action properties, about the steps out
of `wait_for_disconnect()`. The first follows from `IInv` and `SessionInv`:
`SessionIsWaitedFor` says whose events the caller reads and that the final
disconnect is over, `SessionInv` that `need_reauth_` is the server's word. The
second has an invariant of its own, `NeverAnswers`: in DBUS mode no CoreClient
is ever given an answer to a challenge. Without one a client never has a
session (`SessionIsWaitedFor`, `SessionInv`), so nothing that the wait looks at
is ever set.

### DBusClient

`IInv` has, beside typing, what each stage of the conversation knows:

* `Created`: what was imported and created before each call, from which
  `RetriesAreSafe` follows: only calls that were not executed are repeated;
* `PathKnown`: from Ready on, the path is that of the session, so that
  `disconnect()` is not a no-op there;
* `Accepted`: an accepted attempt is in the wait loop or at its end;
* `Reported`: before Connect the backend has nothing to report but the end, and
  it forwards only to a subscriber. `NoMissedOutcome` follows because the
  subscription precedes Connect: every later change is known or queued, and the
  handler turns what it takes out of the queue into a flag.

`Confirmed` is inductive for all wordings: a flag or a signal that says
"connected" means that the session has been up, or that the services write in
capitals and it was cut (`Misread`), and the loop is left with one of the flags
set. `Misread` needs a service that writes in capitals, hence `PlainSuccess`.

`DBusRefinement` maps each step to one of `PhaseTwo` (`PhaseStep`). It needs
`Staged`: a session that is known exists, one that was not created or not
connected has never been up, and when the reply to Connect arrives the session
has left its first state. `Accepted` of `PhaseTwo` uses the latter,
`Fails` uses `PathKnown`, `Succeeds` uses `Confirmed`.

`BoundedSteps` is the part of `ConnectEnds` that is within reach of a proof: the
number `StepsLeft` is a natural number, every step of `connect()` takes at
least one from it, and no step of anybody else adds to it. That it is never
negative needs `TriesCounted`: a loop is left with its last try. With the
constants of the code it starts at 959 for 180 passes of the wait loop; what is
left to TLC is only that a step which can be taken is taken.

### SamlCapture

The thread of a login completes its promise in the step that takes it to its
return (`PromiseKept`), and the caller passes on only then (`InTurn`), so only
the current login's thread is anywhere else: no promise is completed twice and a
port that is taken belongs to another program or to a server about to close
(`Holder`). That the token is whole (`ReadWhole`) rests on arithmetic modulo the
width of `size_t`: `NothingRemains` shows that `remaining` is 0 only if the whole
body has come, and a `remaining` that wrapped around is too large to allocate.
`remaining` does wrap around when more than the declared body is in the buffer;
`WrapIsRefused` states what becomes of that (`OverlongErrs`): an exception, which
the caller gets, and never a token. A request that does not declare its length is
outside both theorems.

### VpnService

Clients are created in order (`BornInOrder`), so the one in the mutex is the
newest, and the service's own commands are what it meets when it reads the pointer
again: clicks in the meantime are in the queue. `OwnClientIsLive` and
`OnlyConnectLosesAClient` are inductive together with that and with
`HandlesTheBorn` (a signal is handled only for a client that exists or has
existed). `ShownConnectedIsReal` is about what is shown; `OnlyTheTruth`
strengthens it to everything on its way to the screen: events, signals in the
queue and the one being handled are true of a session that has been up, unless
`quoted`. `ReadsStates` says which lines are read as Connected, `TextShows` that a
line with a text does so only if its own words do or the text is recorded in
`quoted`, `HandledShows` the same for the message of a signal, and `NotYetStarted`
that a session starts from nothing. The theorem does not say that a quoted text
cannot be misread; the code has no way to tell it from a line of its own.

### ProfileStore

An id belongs to one import (`Unused`) and nobody sees the profile before that
import has ended (`Unseen`). `ConfigFirst` holds the order of the two writes:
wherever there is a `meta.json`, the `config.ovpn` beside it is whole. After
that a file may only vanish, hence `Kept` and, for the two readings of a login,
`Reading`.

`ProfileStoreRefinement` maps every step to one of `AtomicStore` or a stutter.
It needs two more facts about what is on a screen: `Listed` (what a window shows
or a login uses is on the disk, unless it is `hurt`, and an import that has not
written `meta.json` is not) and `Ended` (a login that is over has forgotten
what it read). The mapping is a set of functions, so each step is shown point
by point: the one profile, window or login that changes, and all others equal.

## 7. What is only model-checked

* Liveness: `AttemptsEnd`, `TornDownIsNoticed`, `ConnectEnds`,
  `OutcomeReachesCaller`, `ServiceReturns`, `FailureIsShown`, and the liveness
  halves of the two refinements (`Vpn!Spec` and `Phase!Spec` are `Vpn!Safety` and
  `Phase!Safety` with a fairness condition): there is no support here for
  proofs with fairness and ENABLED.
  `ConnectEnds` is split: that only finitely many steps are left is proved
  (`BoundedSteps`), that they are taken is fairness.
* The disagreements of section 3 that have a run, which are counterexamples.

## 8. What is not modelled

* The TunBuilder callbacks and `tun_builder_establish()`
  (`linux/src/libopenlawsvpn.cpp:84-142`, `256-308`): they pass the pushed
  configuration on to openvpn3-core or to a platform's callback and change
  nothing the control flow reads.
* Setters, argument parsing, and printing to the terminal. `log()` prints too, but
  in the GTK program its lines reach `log_callback()`, and `VpnService` has them
  (`CoreLogs`); what its filters drop is a line that is not logged.
* In `config_path()` (`gui-gtk/src/profile_store.rs`), the difference between a file
  that is absent and one whose status cannot be read.
* The text of tokens and challenges: base64 normalisation in both languages, URL
  decoding, and the splitting of the CRV1 text. No property here tells
  their results apart, and what they do is a loop over characters that tests
  reach well.
* A panic of the service's task (`CString::new(...).unwrap()` on text with a NUL
  in it): neither an endpoint's state id nor a base64 token has one.
* Tray, log view and about view: displays of events that `VpnService` has in its
  queue. Packaging, scripts, the website.
* openvpn3-core, openvpn3-linux, the VPN servers, the browser and the file system
  are not in the repository; they are modelled as freely as the code that uses
  them provides for.

What could come next: the pure functions against reference definitions; an
abstract token capture that `SamlCapture` and `SamlServer` both implement; and
`VpnService` with `CoreClient` and `DBusClient` in full instead of their abstract
steps, which is beyond what TLC can enumerate at these bounds.

## 9. Running

    tlc -config MCCli_direct.cfg MCCli
    tlc -config DBusClient.cfg DBusClient
    tlc -config MCSamlCapture.cfg MCSamlCapture
    tlc -config VpnService.cfg VpnService
    tlc -config MCProfileStore.cfg MCProfileStore
    tlapm CliProofs.tla
    tlapm CliRefinement.tla
    tlapm DBusClientProofs.tla
    tlapm DBusRefinement.tla
    tlapm SamlCaptureProofs.tla
    tlapm VpnServiceProofs.tla
    tlapm ProfileStoreProofs.tla
    tlapm ProfileStoreRefinement.tla
