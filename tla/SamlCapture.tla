---------------------------- MODULE SamlCapture ----------------------------
(***************************************************************************)
(* SAMLCapture (linux/src/saml_capture.cpp): the one-shot HTTP server that *)
(* the command line client starts for every browser login.  start() spawns *)
(* a detached thread and returns a future; the thread binds the port,      *)
(* accepts one connection, reads one request and completes the promise.    *)
(*                                                                         *)
(* Beside the caller (do_connect() in linux/src/main.cpp) and the server   *)
(* threads there are the browser, which opens connections as it likes,     *)
(* sends its bytes when it likes and may close at any time, and other      *)
(* programs, which may hold the port.  A body is counted in units, the     *)
(* first of which holds the key "SAMLResponse=" if the body has it; what   *)
(* the units decode to is left out.                                        *)
(***************************************************************************)
EXTENDS Integers, Sequences, Functions

CONSTANTS
  Connections,  \* the connections a browser may open
  Logins,       \* how many logins one run of the program goes through
  Requests,     \* the requests a browser may send
  HalfSize,     \* half of the values of size_t: 2^63
  None          \* no connection, nothing in a promise

\* length: units of the body; has_key: it starts with "SAMLResponse=";
\* declares: the header "Content-Length: " is there, spelled exactly so;
\* trails: units sent after the body (old browsers add a line break).
ASSUME SamlCaptureAssumption ==
  /\ Logins \in Nat \ {0}
  /\ HalfSize \in Nat \ {0}
  /\ None \notin Connections
  /\ \A r \in Requests :
       /\ r.length \in Nat /\ r.trails \in Nat
       /\ r.length + r.trails < HalfSize
       /\ {r.has_key, r.declares} \subseteq BOOLEAN
       /\ r.has_key => r.length > 0

VARIABLES
  caller,   \* where do_connect() is
  login,    \* the number of the current login
  port,     \* who has bound the port: Free, Other or a login
  server,   \* server[i]: where the server thread of login i is
  socket,   \* socket[i]: the connection it has accepted
  body,     \* body[i]: the units of the body it has read
  promise,  \* promise[i]: the shared state of the future of login i
  conn,     \* conn[c]: the browser's end of connection c
  backlog   \* connections that wait for accept()

vars == <<caller, login, port, server, socket, body, promise, conn, backlog>>

-----------------------------------------------------------------------------

LoginIds == 1..Logins

\* The port is bound by nobody, by another program, or by a login's server.
Free == 0
Other == -1

\* "aborted": std::terminate().
Callers == {"start", "get", "has_token", "failed", "aborted"}

Threads == {"none", "spawned", "accepting", "reading", "reading_rest",
            "replying", "fulfilling", "returning", "gone"}

\* sent counts the header as one unit.
Unopened == [state |-> "unopened", request |-> None, sent |-> 0, page |-> FALSE]

Empty == [kind |-> "empty", from |-> None, units |-> 0]
Exception == [kind |-> "exception", from |-> None, units |-> 0]

Size(r) == 1 + r.length + r.trails

\* Units of the body, and of what follows it, that have arrived.
Arrived(c) == IF conn[c].sent = 0 THEN 0 ELSE conn[c].sent - 1

TypeOK ==
  /\ caller \in Callers
  /\ login \in LoginIds
  /\ port \in {Free, Other} \cup LoginIds
  /\ server \in [LoginIds -> Threads]
  /\ socket \in [LoginIds -> Connections \cup {None}]
  /\ body \in [LoginIds -> Nat]
  /\ promise \in [LoginIds -> [kind : {"empty", "token", "exception"},
                               from : Connections \cup {None}, units : Nat]]
  /\ conn \in [Connections -> [state : {"unopened", "open", "closed"},
                               request : Requests \cup {None}, sent : Nat,
                               page : BOOLEAN]]
  /\ backlog \in Seq(Connections)
  /\ \A i \in LoginIds :
       server[i] \in {"reading", "reading_rest", "replying", "fulfilling"}
         => socket[i] # None /\ conn[socket[i]].state # "unopened"

Init ==
  /\ caller = "start"
  /\ login = 1
  /\ port \in {Free, Other}
  /\ server = [i \in LoginIds |-> "none"]
  /\ socket = [i \in LoginIds |-> None]
  /\ body = [i \in LoginIds |-> 0]
  /\ promise = [i \in LoginIds |-> Empty]
  /\ conn = [c \in Connections |-> Unopened]
  /\ backlog = <<>>

-----------------------------------------------------------------------------
(* The caller.                                                             *)

callerOnly == <<port, socket, body, promise, conn, backlog>>

\* SAMLCapture::start(): the thread is detached, the future returned.
start ==
  /\ caller = "start"
  /\ server' = [server EXCEPT ![login] = "spawned"]
  /\ caller' = "get"
  /\ UNCHANGED <<login, callerOnly>>

\* token_future.get(); an exception ends the program.
FutureReady ==
  /\ caller = "get"
  /\ promise[login].kind # "empty"
  /\ caller' = IF promise[login].kind = "token" THEN "has_token" ELSE "failed"
  /\ UNCHANGED <<login, server, callerOnly>>

\* The session expires and do_connect() runs again.
Reauthenticate ==
  /\ caller = "has_token"
  /\ login < Logins
  /\ login' = login + 1
  /\ caller' = "start"
  /\ UNCHANGED <<server, callerOnly>>

-----------------------------------------------------------------------------
(* The server thread of login i.                                           *)

\* set_value() and set_exception() throw on a promise that is satisfied; out
\* of the handler in run() that means std::terminate().
Satisfy(i, outcome) ==
  /\ promise' = IF promise[i] = Empty THEN [promise EXCEPT ![i] = outcome]
                ELSE promise
  /\ caller' = IF promise[i] = Empty THEN caller ELSE "aborted"
  /\ UNCHANGED login

\* catch (std::exception&): whatever went wrong is the future's result.
Catch(i) ==
  /\ Satisfy(i, Exception)
  /\ server' = [server EXCEPT ![i] = "returning"]
  /\ UNCHANGED <<port, socket, body, conn, backlog>>

\* The acceptor is opened, bound and listening after the constructor.
Bind(i) ==
  /\ server[i] = "spawned"
  /\ port = Free
  /\ port' = i
  /\ server' = [server EXCEPT ![i] = "accepting"]
  /\ UNCHANGED <<caller, login, socket, body, promise, conn, backlog>>

\* The constructor throws outside the try block of run(), in a thread.
BindFails(i) ==
  /\ server[i] = "spawned"
  /\ port # Free
  /\ caller' = "aborted"
  /\ UNCHANGED <<login, port, server, socket, body, promise, conn, backlog>>

accept_mutant_drops_socket(i) ==
  /\ server[i] = "accepting"
  /\ backlog # <<>>
  /\ backlog' = Tail(backlog)
  /\ server' = [server EXCEPT ![i] = "reading"]
  /\ UNCHANGED <<caller, login, port, socket, body, promise, conn>>

Accept(i) ==
  /\ server[i] = "accepting"
  /\ backlog # <<>>
  /\ socket' = [socket EXCEPT ![i] = Head(backlog)]
  /\ backlog' = Tail(backlog)
  /\ server' = [server EXCEPT ![i] = "reading"]
  /\ UNCHANGED <<caller, login, port, body, promise, conn>>

\* size_t remaining = content_length; remaining -= is.gcount();
Remaining(r, early) == (r.length - early) % (2 * HalfSize)

\* No vector<char> is larger than half of the address space.
TooLarge(size) == size >= HalfSize

\* body.find("SAMLResponse=") and the branches that follow it; units is the
\* length of the body that was read.
Extract(i, units) ==
  IF conn[socket[i]].request.has_key /\ units > 0
  THEN /\ body' = [body EXCEPT ![i] = units]
       /\ server' = [server EXCEPT ![i] = "replying"]
       /\ UNCHANGED <<caller, login, promise, port, socket, conn, backlog>>
  ELSE Catch(i)

\* read_until() returns with the header and what came along with it.
read_mutant_takes_first_segment(i) ==
  LET early == Arrived(socket[i])
  IN  /\ server[i] = "reading"
      /\ conn[socket[i]].sent > 0
      /\ Extract(i, early)

ReadHeader(i) ==
  LET r     == conn[socket[i]].request
      early == Arrived(socket[i])
  IN  /\ server[i] = "reading"
      /\ conn[socket[i]].sent > 0
      /\ IF ~r.declares \/ r.length = 0 \/ Remaining(r, early) = 0
         THEN Extract(i, early)
         ELSE IF TooLarge(Remaining(r, early))
         THEN Catch(i)
         ELSE /\ server' = [server EXCEPT ![i] = "reading_rest"]
              /\ UNCHANGED <<caller, login, promise, port, socket, body, conn,
                             backlog>>

\* asio::read() of the remaining bytes of the body.
body_mutant_counts_early_twice(i) ==
  /\ server[i] = "reading_rest"
  /\ Arrived(socket[i]) >= conn[socket[i]].request.length + 1
  /\ Extract(i, conn[socket[i]].request.length)

ReadBody(i) ==
  /\ server[i] = "reading_rest"
  /\ Arrived(socket[i]) >= conn[socket[i]].request.length
  /\ Extract(i, conn[socket[i]].request.length)

\* The browser has closed the connection before the request was complete.
ReadFails(i) ==
  /\ server[i] \in {"reading", "reading_rest"}
  /\ conn[socket[i]].state = "closed"
  /\ \/ server[i] = "reading" /\ conn[socket[i]].sent = 0
     \/ /\ server[i] = "reading_rest"
        /\ Arrived(socket[i]) < conn[socket[i]].request.length
  /\ Catch(i)

\* "Login successful!"
reply_mutant_value_first(i) ==
  /\ server[i] = "replying"
  /\ promise[i] = Empty
  /\ promise' = [promise EXCEPT ![i] = [kind |-> "token", from |-> socket[i],
                                        units |-> body[i]]]
  /\ UNCHANGED <<caller, login, port, server, socket, body, conn, backlog>>

reply_mutant_forgets_value(i) ==
  /\ server[i] = "replying"
  /\ conn' = [conn EXCEPT ![socket[i]].page = TRUE]
  /\ server' = [server EXCEPT ![i] = "returning"]
  /\ UNCHANGED <<caller, login, port, socket, body, promise, backlog>>

Reply(i) ==
  /\ server[i] = "replying"
  /\ conn' = [conn EXCEPT ![socket[i]].page = TRUE]
  /\ server' = [server EXCEPT ![i] = "fulfilling"]
  /\ UNCHANGED <<caller, login, port, socket, body, promise, backlog>>

\* The browser has gone away: the token is lost with the reply.
ReplyFails(i) ==
  /\ server[i] = "replying"
  /\ conn[socket[i]].state = "closed"
  /\ Catch(i)

Fulfil(i) ==
  /\ server[i] = "fulfilling"
  /\ Satisfy(i, [kind |-> "token", from |-> socket[i], units |-> body[i]])
  /\ server' = [server EXCEPT ![i] = "returning"]
  /\ UNCHANGED <<port, socket, body, conn, backlog>>

\* run() returns, the server is destroyed: the socket and the acceptor are
\* closed, and with it every connection that was not accepted.  The promise
\* goes too; one without a value leaves a broken_promise in its future.
ServerReturns(i) ==
  /\ server[i] = "returning"
  /\ server' = [server EXCEPT ![i] = "gone"]
  /\ port' = Free
  /\ backlog' = <<>>
  /\ conn' = [c \in Connections |->
                IF c = socket[i] \/ c \in Range(backlog)
                THEN [conn[c] EXCEPT !.state = "closed"] ELSE conn[c]]
  /\ promise' = [promise EXCEPT ![i] = IF @ = Empty THEN Exception ELSE @]
  /\ UNCHANGED <<caller, login, socket, body>>

-----------------------------------------------------------------------------
(* The browser and the other programs.                                     *)

othersOnly == <<caller, login, server, socket, body, promise>>

\* Nobody listens before the port is bound, and then the attempt leaves no
\* trace.
Open(c, r) ==
  /\ conn[c].state = "unopened"
  /\ port \in LoginIds
  /\ conn' = [conn EXCEPT ![c] = [Unopened EXCEPT !.state = "open",
                                                 !.request = r]]
  /\ backlog' = Append(backlog, c)
  /\ UNCHANGED <<port, othersOnly>>

\* The bytes may arrive one by one or all together.
Send(c) ==
  /\ conn[c].state = "open"
  /\ \E n \in (conn[c].sent + 1)..Size(conn[c].request) :
       conn' = [conn EXCEPT ![c].sent = n]
  /\ UNCHANGED <<port, backlog, othersOnly>>

Close(c) ==
  /\ conn[c].state = "open"
  /\ conn' = [conn EXCEPT ![c].state = "closed"]
  /\ UNCHANGED <<port, backlog, othersOnly>>

OtherProgram ==
  /\ \/ port = Free /\ port' = Other
     \/ port = Other /\ port' = Free
  /\ UNCHANGED <<conn, backlog, othersOnly>>

-----------------------------------------------------------------------------

Running == caller \notin {"failed", "aborted"}

CallerStep == start \/ FutureReady

ServerStep(i) ==
  \/ Bind(i)
  \/ BindFails(i)
  \/ Accept(i)
  \/ ReadHeader(i)
  \/ ReadBody(i)
  \/ ReadFails(i)
  \/ Reply(i)
  \/ ReplyFails(i)
  \/ Fulfil(i)
  \/ ServerReturns(i)

BrowserStep ==
  \/ \E c \in Connections, r \in Requests : Open(c, r)
  \/ \E c \in Connections : Send(c) \/ Close(c)

\* The program has ended, or it has its last token.
Finished == ~Running /\ UNCHANGED vars

Next ==
  \/ Running /\ CallerStep
  \/ Running /\ Reauthenticate
  \/ Running /\ \E i \in LoginIds : ServerStep(i)
  \/ Running /\ BrowserStep
  \/ Running /\ OtherProgram
  \/ Finished

Spec == Init /\ [][Next]_vars

\* The threads of the program are scheduled; of the browser, of its user and
\* of other programs nothing is assumed.
Fairness ==
  /\ WF_vars(Running /\ CallerStep)
  /\ \A i \in LoginIds : WF_vars(Running /\ ServerStep(i))

FairSpec == Spec /\ Fairness

-----------------------------------------------------------------------------
(* Safety.                                                                 *)

\* A token that reaches the caller is all of what the browser posted, however
\* its bytes were cut into segments and whatever followed them, if the browser
\* declared the length in the spelling run() looks for.
TokenIsWhole ==
  \A i \in LoginIds :
    promise[i].kind = "token" =>
      LET r == conn[promise[i].from].request
      IN  r.declares => r.has_key /\ promise[i].units = r.length

\* Every error after the port is bound reaches the future: std::terminate() is
\* called only by the thread of the current login that finds its port taken,
\* never because a promise is completed twice (the reply is written before
\* set_value(), and a reply that cannot be written ends in set_exception()).
\* Who has the port then is another program, or the server of an earlier login
\* that has completed its promise and has not closed its acceptor yet.
AbortsOnlyWhenPortTaken ==
  caller = "aborted" =>
    /\ server[login] = "spawned"
    /\ port = Other \/ \E i \in LoginIds : i < login /\ server[i] = "returning"

\* The page that tells the user to close the window is only shown for a token
\* that the program has: it is still to be handed over, or it was.
PageMeansToken ==
  \A c \in Connections :
    conn[c].page =>
      \E i \in LoginIds :
        /\ socket[i] = c
        /\ server[i] = "fulfilling" \/ promise[i].from = c

\* "stop immediately after the token is captured", and "if port 35001 is
\* occupied, Phase 1 must fail gracefully": the program never ends because a
\* server of its own, whose token it has, still holds the port.
OwnPortIsNoConflict == caller = "aborted" => port = Other

-----------------------------------------------------------------------------
(* Liveness.                                                               *)

\* Once the browser is done with the connection that was accepted, having
\* sent everything or closed it, the caller learns the outcome.
OutcomeReachesCaller ==
  \A i \in LoginIds :
    (/\ caller = "get" /\ login = i /\ socket[i] # None
     /\ \/ conn[socket[i]].state = "closed"
        \/ conn[socket[i]].sent = Size(conn[socket[i]].request))
      ~> ~(caller = "get" /\ login = i)

=============================================================================
