----------------------------- MODULE CoreClient -----------------------------
(***************************************************************************)
(* CoreClient (linux/src/libopenlawsvpn.cpp:80-379): the object on which   *)
(* openvpn3-core delivers its events and on whose condition variable the   *)
(* caller of the library waits.                                            *)
(*                                                                         *)
(* Every CoreClient is driven by a thread of its own that runs connect();  *)
(* that thread calls socket_protect() and event() on the object.  The      *)
(* caller (module Cli) reads what event() stores, under mutex_.  A branch  *)
(* of event() is one action when all it changes is changed under mutex_;   *)
(* the DYNAMIC_CHALLENGE branch stores its fields before it takes mutex_   *)
(* and is two actions.                                                     *)
(*                                                                         *)
(* openvpn3-core itself is not in the repository.  What the actions say    *)
(* of it is what event() relies on: a session that was started ends with   *)
(* DISCONNECTED, AUTH_FAILED and the other fatal events stop the session   *)
(* unless the profile asks for "auth-retry", and a server accepts only a   *)
(* state id that it issued.                                                *)
(***************************************************************************)

CONSTANTS
  Clients,  \* CoreClient objects that can exist at the same time
  Servers,  \* the addresses behind the profile's remote host name
  Profile,  \* the directives of the .ovpn file
  None      \* no client, no server, no state id

ASSUME CoreClientAssumption == None \notin Clients \cup Servers

VARIABLES
  client,   \* client[c]: the fields event() and socket_protect() write
  config,   \* config[c]: credentials and server override given to c
  core,     \* core[c]: what the thread that runs c's connect() is doing
  peer,     \* peer[c]: the server that thread has a socket to
  session,  \* session[c]: what the server thinks of c's VPN session
  holders,  \* holders[c]: the owners of the shared_ptr to c
  asleep    \* the client on whose cv_ the caller is blocked, or None

coreVars == <<client, config, core, peer, session, holders, asleep>>

-----------------------------------------------------------------------------

\* The state id that saml_url_/state_id_ hold is named by the server that
\* issued it.
Fields == [done : BOOLEAN, connected : BOOLEAN, error : BOOLEAN,
           need_reauth : BOOLEAN, final_disconnect : BOOLEAN,
           state_id : Servers \cup {None}, remote_ip : Servers \cup {None}]

Constructed == [done |-> FALSE, connected |-> FALSE, error |-> FALSE,
                need_reauth |-> FALSE, final_disconnect |-> FALSE,
                state_id |-> None, remote_ip |-> None]

\* "N/A" / "ACS::35001" and no serverOverride: the Phase 1 credentials.
Phase1Config == [state_id |-> None, server_override |-> None]

Configs == [state_id : Servers \cup {None},
            server_override : Servers \cup {None}]

\* "spawned": the thread exists, connect() has not opened a socket yet;
\* "parsed": inside event(), between the fields and the lock;
\* "stopping": the session is ending, DISCONNECTED is still to come;
\* "unwinding": connect() is returning.
Stages == {"spawned", "trying", "parsed", "up", "stopping", "unwinding",
           "exited"}

Sessions == {"none", "established", "rejected"}

\* read_and_filter_config drops every line with one of these.
filter_mutant_keeps_auth_retry(profile) ==
  profile \ {"auth-federate", "resolv-retry"}

read_and_filter_config(profile) ==
  profile \ {"auth-federate", "auth-retry", "resolv-retry"}

RetriesAuth == "auth-retry" \in read_and_filter_config(Profile)

\* cv_.notify_all(): wakes the caller if it sleeps on c's condition variable.
notify_mutant_dropped(c) == asleep' = asleep

notify_all(c) == asleep' = IF asleep = c THEN None ELSE asleep

-----------------------------------------------------------------------------

CoreTypeOK ==
  /\ client \in [Clients -> Fields]
  /\ config \in [Clients -> Configs]
  /\ core \in [Clients -> Stages]
  /\ peer \in [Clients -> Servers \cup {None}]
  /\ session \in [Clients -> Sessions]
  /\ holders \in [Clients -> SUBSET {"impl_", "thread"}]
  /\ asleep \in Clients \cup {None}

CoreInit ==
  /\ client = [c \in Clients |-> Constructed]
  /\ config = [c \in Clients |-> Phase1Config]
  /\ core = [c \in Clients |-> "exited"]
  /\ peer = [c \in Clients |-> None]
  /\ session = [c \in Clients |-> "none"]
  /\ holders = [c \in Clients |-> {}]
  /\ asleep = None

-----------------------------------------------------------------------------
(* What the library does to a CoreClient.                                  *)

\* impl_->core_client = make_shared<CoreClient>(); eval_config();
\* provide_creds(); and a detached thread that captures the shared_ptr.
\* The object impl_ held before loses one owner, and dies with the last.
start_mutant_thread_owns_nothing(c, cfg) ==
  /\ holders[c] = {}
  /\ client' = [client EXCEPT ![c] = Constructed]
  /\ config' = [config EXCEPT ![c] = cfg]
  /\ core' = [core EXCEPT ![c] = "spawned"]
  /\ peer' = [peer EXCEPT ![c] = None]
  /\ session' = [session EXCEPT ![c] = "none"]
  /\ holders' = [d \in Clients |-> IF d = c THEN {"impl_"}
                                   ELSE holders[d] \ {"impl_"}]
  /\ asleep' = None

StartClient(c, cfg) ==
  /\ holders[c] = {}
  /\ client' = [client EXCEPT ![c] = Constructed]
  /\ config' = [config EXCEPT ![c] = cfg]
  /\ core' = [core EXCEPT ![c] = "spawned"]
  /\ peer' = [peer EXCEPT ![c] = None]
  /\ session' = [session EXCEPT ![c] = "none"]
  /\ holders' = [d \in Clients |-> IF d = c THEN {"impl_", "thread"}
                                   ELSE holders[d] \ {"impl_"}]
  /\ asleep' = None

-----------------------------------------------------------------------------
(* The thread inside connect().                                            *)

\* connect() returns an error before it started a session: no event at all.
ConnectFails(c) ==
  /\ core[c] = "spawned"
  /\ core' = [core EXCEPT ![c] = "unwinding"]
  /\ UNCHANGED <<client, config, peer, session, holders, asleep>>

\* A socket to the next server is opened; the address is always recorded.
protect_mutant_keeps_first(c, s) ==
  /\ core[c] \in {"spawned", "trying"}
  /\ config[c].server_override \in {None, s}
  /\ core' = [core EXCEPT ![c] = "trying"]
  /\ peer' = [peer EXCEPT ![c] = s]
  /\ client' = [client EXCEPT ![c].remote_ip = IF @ = None THEN s ELSE @]
  /\ UNCHANGED <<config, session, holders, asleep>>

socket_protect(c, s) ==
  /\ core[c] \in {"spawned", "trying"}
  /\ config[c].server_override \in {None, s}
  /\ core' = [core EXCEPT ![c] = "trying"]
  /\ peer' = [peer EXCEPT ![c] = s]
  /\ client' = [client EXCEPT ![c].remote_ip = s]
  /\ UNCHANGED <<config, session, holders, asleep>>

\* DYNAMIC_CHALLENGE with a well formed CRV1 text: state_id_ and saml_url_
\* are assigned before mutex_ is taken ...
ChallengeParsed(c) ==
  /\ core[c] = "trying"
  /\ peer[c] # None
  /\ client' = [client EXCEPT ![c].state_id = peer[c]]
  /\ core' = [core EXCEPT ![c] = "parsed"]
  /\ UNCHANGED <<config, peer, session, holders, asleep>>

\* ... and done_ under it; then stop().
ChallengeDone(c) ==
  /\ core[c] = "parsed"
  /\ client' = [client EXCEPT ![c].done = TRUE]
  /\ core' = [core EXCEPT ![c] = "stopping"]
  /\ notify_all(c)
  /\ UNCHANGED <<config, peer, session, holders>>

\* CONNECTED: the server accepted the answer to its challenge, or the
\* session token it gave out with an earlier CONNECTED.
Connected(c) ==
  /\ core[c] = "trying"
  /\ peer[c] # None
  /\ config[c].state_id = peer[c]
  /\ client' = [client EXCEPT ![c].connected = TRUE]
  /\ core' = [core EXCEPT ![c] = "up"]
  /\ session' = [session EXCEPT ![c] = "established"]
  /\ notify_all(c)
  /\ UNCHANGED <<config, peer, holders>>

\* The transport is lost and openvpn3-core dials again; event() ignores it.
Reconnecting(c) ==
  /\ core[c] = "up"
  /\ core' = [core EXCEPT ![c] = "trying"]
  /\ peer' = [peer EXCEPT ![c] = None]
  /\ UNCHANGED <<client, config, session, holders, asleep>>

Rejected(c) ==
  IF session[c] = "established"
  THEN session' = [session EXCEPT ![c] = "rejected"]
  ELSE UNCHANGED session

\* NEED_CREDS: the stored credentials no longer do.
need_creds_mutant_wakes_early(c) ==
  /\ core[c] \in {"trying", "up"}
  /\ IF client[c].connected
     THEN /\ client' = [client EXCEPT ![c].need_reauth = TRUE,
                                       ![c].final_disconnect = TRUE]
          /\ notify_all(c)
     ELSE UNCHANGED <<client, asleep>>
  /\ core' = [core EXCEPT ![c] = "stopping"]
  /\ Rejected(c)
  /\ UNCHANGED <<config, peer, holders>>

NeedCreds(c) ==
  /\ core[c] \in {"trying", "up"}
  /\ client' = IF client[c].connected
               THEN [client EXCEPT ![c].need_reauth = TRUE]
               ELSE client
  /\ core' = [core EXCEPT ![c] = "stopping"]
  /\ Rejected(c)
  /\ UNCHANGED <<config, peer, holders, asleep>>

\* AUTH_FAILED: an error before the first CONNECTED, a session to renew after.
AuthFailed(c) ==
  /\ core[c] \in {"trying", "up"}
  /\ peer[c] # None
  /\ IF client[c].connected
     THEN /\ client' = [client EXCEPT ![c].need_reauth = TRUE]
          /\ UNCHANGED asleep
     ELSE /\ client' = [client EXCEPT ![c].error = TRUE]
          /\ notify_all(c)
  /\ core' = [core EXCEPT ![c] = IF RetriesAuth THEN "trying" ELSE "stopping"]
  /\ Rejected(c)
  /\ UNCHANGED <<config, peer, holders>>

\* FATAL_ERROR: reported to the caller only before the first CONNECTED.
FatalError(c) ==
  /\ core[c] \in {"trying", "up"}
  /\ IF client[c].connected
     THEN UNCHANGED <<client, asleep>>
     ELSE /\ client' = [client EXCEPT ![c].error = TRUE]
          /\ notify_all(c)
  /\ core' = [core EXCEPT ![c] = "stopping"]
  /\ UNCHANGED <<config, peer, session, holders>>

\* A fatal event without a branch in event() (CONNECTION_TIMEOUT,
\* TUN_SETUP_FAILED, ...), or a DYNAMIC_CHALLENGE with fewer than four parts.
UnhandledFatal(c) ==
  /\ core[c] \in {"trying", "up"}
  /\ core' = [core EXCEPT ![c] = "stopping"]
  /\ UNCHANGED <<client, config, peer, session, holders, asleep>>

\* DISCONNECTED, the last event of a session; only a client that has been
\* connected tells the caller.
disconnected_mutant_silent(c) ==
  /\ core[c] = "stopping"
  /\ client' = IF client[c].connected
               THEN [client EXCEPT ![c].final_disconnect = TRUE]
               ELSE client
  /\ core' = [core EXCEPT ![c] = "unwinding"]
  /\ UNCHANGED <<config, peer, session, holders, asleep>>

Disconnected(c) ==
  /\ core[c] = "stopping"
  /\ IF client[c].connected
     THEN /\ client' = [client EXCEPT ![c].final_disconnect = TRUE]
          /\ notify_all(c)
     ELSE UNCHANGED <<client, asleep>>
  /\ core' = [core EXCEPT ![c] = "unwinding"]
  /\ UNCHANGED <<config, peer, session, holders>>

\* The thread function returns and drops its shared_ptr.
ThreadExits(c) ==
  /\ core[c] = "unwinding"
  /\ core' = [core EXCEPT ![c] = "exited"]
  /\ holders' = [holders EXCEPT ![c] = @ \ {"thread"}]
  /\ UNCHANGED <<client, config, peer, session, asleep>>

\* What the network and the server decide.
Environment(c) ==
  \/ ConnectFails(c)
  \/ \E s \in Servers : socket_protect(c, s)
  \/ ChallengeParsed(c)
  \/ Connected(c)
  \/ Reconnecting(c)
  \/ NeedCreds(c)
  \/ AuthFailed(c)
  \/ FatalError(c)
  \/ UnhandledFatal(c)

\* What the thread does by itself once the session has to end.
Teardown(c) ==
  \/ ChallengeDone(c)
  \/ Disconnected(c)
  \/ ThreadExits(c)

=============================================================================
