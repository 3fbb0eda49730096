------------------------- MODULE SamlCaptureProofs -------------------------
(***************************************************************************)
(* Proofs about the capture server of the command line client: for any     *)
(* number of logins and connections, any requests and any width of size_t. *)
(*                                                                         *)
(* The argument: a thread completes its promise in the step that takes it  *)
(* to "returning", so a promise is complete exactly from there on, and the *)
(* caller passes a login only then.  Hence only the thread of the current  *)
(* login can be anywhere else.                                             *)
(***************************************************************************)
EXTENDS SamlCapture, TLAPS

\* Before the accept the thread has no socket.
NotYetAccepted ==
  \A i \in LoginIds :
    server[i] \in {"none", "spawned", "accepting"} => socket[i] = None

\* A thread that is through with its request has completed its promise.
PromiseKept ==
  \A i \in LoginIds :
    /\ promise[i] = Empty <=> server[i] \notin {"returning", "gone"}
    /\ promise[i].kind = "empty" => promise[i] = Empty

\* Logins come one after the other.
InTurn ==
  /\ \A i \in LoginIds : /\ i > login => server[i] = "none"
                         /\ i < login => server[i] \in {"returning", "gone"}
  /\ caller = "start" => server[login] = "none"
  /\ caller = "has_token" => server[login] \in {"returning", "gone"}

\* Whoever holds the port among the servers is between bind and return.
Holder ==
  port \in LoginIds => server[port] \notin {"none", "spawned", "gone"}

\* What a server waits for, reads or has read was opened.
Opened ==
  /\ \A k \in DOMAIN backlog : conn[backlog[k]].state # "unopened"
  /\ \A c \in Connections :
       conn[c].state # "unopened" =>
         conn[c].request \in Requests /\ conn[c].sent <= Size(conn[c].request)
  /\ \A i \in LoginIds :
       socket[i] # None => conn[socket[i]].state # "unopened"
  /\ \A i \in LoginIds :
       promise[i].kind = "token" =>
         promise[i].from # None /\ conn[promise[i].from].state # "unopened"

\* The body a server has accepted is the one that was declared.
ReadWhole ==
  \A i \in LoginIds :
    server[i] \in {"replying", "fulfilling"} =>
      LET r == conn[socket[i]].request
      IN  r.declares => r.has_key /\ body[i] = r.length

IInv ==
  /\ TypeOK
  /\ NotYetAccepted
  /\ PromiseKept
  /\ InTurn
  /\ Holder
  /\ Opened
  /\ ReadWhole
  /\ TokenIsWhole
  /\ PageMeansToken
  /\ AbortsOnlyWhenPortTaken

-----------------------------------------------------------------------------
(* The steps of a server thread, by what they do.                          *)

\* The constant's parts that are needed, one by one.
LEMMA ConstantFacts ==
  /\ Logins \in Nat \ {0}
  /\ HalfSize \in Nat \ {0}
  /\ None \notin Connections
  /\ \A r \in Requests : /\ r.length \in Nat /\ r.trails \in Nat
                         /\ r.length + r.trails < HalfSize
                         /\ {r.has_key, r.declares} \subseteq BOOLEAN
                         /\ r.has_key => r.length > 0
BY SamlCaptureAssumption DEF SamlCaptureAssumption

\* Nothing remains, modulo the width of size_t, only if nothing remains.
LEMMA NothingRemains ==
  ASSUME NEW n \in Nat, NEW early \in Nat, NEW half \in Nat \ {0},
         n < half, early < half,
         (n - early) % (2 * half) = 0
  PROVE  early = n
<1>1. CASE n = early
  BY <1>1
<1>2. CASE n > early
  <2>1. n - early \in 0..(2 * half - 1)
    BY <1>2
  <2>2. (n - early) % (2 * half) = n - early
    BY <2>1
  <2> QED BY <1>2, <2>2
<1>3. CASE n < early
  <2>1. n - early + 2 * half \in 1..(2 * half - 1)
    BY <1>3
  <2>2. (n - early) % (2 * half) = n - early + 2 * half
    BY <2>1
  <2> QED BY <2>1, <2>2
<1> QED
  BY <1>1, <1>2, <1>3

\* An error ends the request.
Errs(i) ==
  /\ server[i] \in {"reading", "reading_rest", "replying"}
  /\ server' = [server EXCEPT ![i] = "returning"]
  /\ promise' = [promise EXCEPT ![i] = Exception]
  /\ UNCHANGED <<caller, login, port, socket, body, conn, backlog>>

\* The key is found in a body, which is whole if its length was declared.
Takes(i, units) ==
  /\ server[i] \in {"reading", "reading_rest"}
  /\ server' = [server EXCEPT ![i] = "replying"]
  /\ body' = [body EXCEPT ![i] = units]
  /\ conn[socket[i]].request.has_key
  /\ conn[socket[i]].request.declares => units = conn[socket[i]].request.length
  /\ UNCHANGED <<caller, login, port, socket, promise, conn, backlog>>

ReadsOn(i) ==
  /\ server[i] = "reading"
  /\ server' = [server EXCEPT ![i] = "reading_rest"]
  /\ UNCHANGED <<caller, login, port, socket, body, promise, conn, backlog>>

Delivers(i) ==
  /\ server[i] = "fulfilling"
  /\ server' = [server EXCEPT ![i] = "returning"]
  /\ promise' = [promise EXCEPT ![i] =
                   [kind |-> "token", from |-> socket[i], units |-> body[i]]]
  /\ UNCHANGED <<caller, login, port, socket, body, conn, backlog>>

\* What ServerReturns does when the promise is kept: none is broken.
Closes(i) ==
  /\ server[i] = "returning"
  /\ server' = [server EXCEPT ![i] = "gone"]
  /\ port' = Free
  /\ backlog' = <<>>
  /\ conn' = [c \in Connections |->
                IF c = socket[i] \/ c \in Range(backlog)
                THEN [conn[c] EXCEPT !.state = "closed"] ELSE conn[c]]
  /\ UNCHANGED <<caller, login, socket, body, promise>>

LEMMA ReturnsCloses ==
  ASSUME TypeOK, PromiseKept, NEW i \in LoginIds, ServerReturns(i)
  PROVE  Closes(i)
<1>1. server[i] = "returning"
  BY DEF ServerReturns
<1>2. promise[i] # Empty
  BY <1>1 DEF PromiseKept
<1>3. promise' = promise
  <2>1. promise \in [LoginIds -> [kind : {"empty", "token", "exception"},
                                  from : Connections \cup {None}, units : Nat]]
    BY DEF TypeOK
  <2>2. promise' = [promise EXCEPT ![i] = promise[i]]
    BY <1>2 DEF ServerReturns
  <2> QED BY <2>1, <2>2
<1> QED
  BY <1>3 DEF ServerReturns, Closes

\* A thread that is not through completes a promise that is empty.
LEMMA CatchErrs ==
  ASSUME PromiseKept, NEW i \in LoginIds, Catch(i),
         server[i] \in {"reading", "reading_rest", "replying"}
  PROVE  Errs(i)
BY DEF PromiseKept, Catch, Satisfy, Errs

LEMMA ExtractKinds ==
  ASSUME PromiseKept, NEW i \in LoginIds, NEW units \in Nat, Extract(i, units),
         server[i] \in {"reading", "reading_rest"},
         conn[socket[i]].request.declares /\ conn[socket[i]].request.has_key =>
           units = conn[socket[i]].request.length
  PROVE  Errs(i) \/ Takes(i, units)
<1>1. CASE conn[socket[i]].request.has_key /\ units > 0
  BY <1>1 DEF Extract, Takes
<1>2. CASE ~(conn[socket[i]].request.has_key /\ units > 0)
  BY <1>2, CatchErrs DEF Extract
<1> QED
  BY <1>1, <1>2

\* A connection that is read from, its request and what has arrived of it.
LEMMA ReadFrom ==
  ASSUME TypeOK, Opened, NEW i \in LoginIds,
         server[i] \in {"reading", "reading_rest", "replying", "fulfilling"}
  PROVE  /\ socket[i] \in Connections
         /\ conn[socket[i]].state # "unopened"
         /\ conn[socket[i]].request \in Requests
         /\ Arrived(socket[i]) \in Nat
         /\ Arrived(socket[i]) <= conn[socket[i]].request.length
                                    + conn[socket[i]].request.trails
<1>1. socket[i] \in Connections /\ conn[socket[i]].state # "unopened"
  BY DEF TypeOK
<1>2. /\ conn[socket[i]].request \in Requests
      /\ conn[socket[i]].sent <= Size(conn[socket[i]].request)
  BY <1>1 DEF Opened
<1>3. conn[socket[i]].sent \in Nat
  BY <1>1 DEF TypeOK
<1>4. conn[socket[i]].request.length \in Nat /\ conn[socket[i]].request.trails \in Nat
  BY <1>2, ConstantFacts
<1> QED
  BY <1>1, <1>2, <1>3, <1>4 DEF Arrived, Size

\* Too much has arrived: "remaining" wraps around to a size no vector has.
LEMMA WrapsToTooLarge ==
  ASSUME NEW n \in Nat, NEW early \in Nat, NEW half \in Nat \ {0},
         n < early, early < half
  PROVE  (n - early) % (2 * half) >= half
<1>1. n - early + 2 * half \in half..(2 * half - 1)
  OBVIOUS
<1>2. (n - early) % (2 * half) = n - early + 2 * half
  BY <1>1
<1> QED
  BY <1>1, <1>2

LEMMA HeaderKinds ==
  ASSUME TypeOK, PromiseKept, Opened, NEW i \in LoginIds, ReadHeader(i)
  PROVE  \/ Errs(i)
         \/ \E units \in Nat : Takes(i, units)
         \/ ReadsOn(i)
<1> DEFINE r == conn[socket[i]].request
           early == Arrived(socket[i])
<1>1. server[i] = "reading"
  BY DEF ReadHeader
<1>2. /\ r \in Requests
      /\ early \in Nat
      /\ early <= r.length + r.trails
  BY <1>1, ReadFrom
<1>3. /\ r.length \in Nat /\ r.trails \in Nat /\ r.length + r.trails < HalfSize
      /\ r.has_key => r.length > 0
  BY <1>2, ConstantFacts
<1>4. CASE ~r.declares \/ r.length = 0 \/ Remaining(r, early) = 0
  <2>1. r.declares /\ r.has_key => early = r.length
    <3>1. HalfSize \in Nat \ {0}
      BY ConstantFacts
    <3>2. r.length < HalfSize /\ early < HalfSize
      BY <1>2, <1>3, <3>1
    <3>3. Remaining(r, early) = 0 => early = r.length
      BY <1>2, <1>3, <3>1, <3>2, NothingRemains DEF Remaining
    <3> QED BY <1>3, <1>4, <3>3
  <2>2. Extract(i, early)
    BY <1>4 DEF ReadHeader
  <2> QED BY <1>1, <1>2, <2>1, <2>2, ExtractKinds
<1>5. CASE ~(~r.declares \/ r.length = 0 \/ Remaining(r, early) = 0)
  <2>1. CASE TooLarge(Remaining(r, early))
    BY <1>1, <1>5, <2>1, CatchErrs DEF ReadHeader
  <2>2. CASE ~TooLarge(Remaining(r, early))
    BY <1>1, <1>5, <2>2 DEF ReadHeader, ReadsOn
  <2> QED BY <2>1, <2>2
<1> QED
  BY <1>4, <1>5

ServerKinds(i) ==
  \/ Bind(i) \/ BindFails(i) \/ Accept(i)
  \/ Errs(i)
  \/ \E units \in Nat : Takes(i, units)
  \/ ReadsOn(i)
  \/ Reply(i) \/ Delivers(i) \/ Closes(i)

LEMMA ServerStepKinds ==
  ASSUME TypeOK, PromiseKept, Opened, NEW i \in LoginIds, ServerStep(i)
  PROVE  ServerKinds(i)
<1>1. CASE Bind(i) \/ BindFails(i) \/ Accept(i) \/ Reply(i) \/ ServerReturns(i)
  BY <1>1, ReturnsCloses DEF ServerKinds
<1>2. CASE ReadHeader(i)
  BY <1>2, HeaderKinds DEF ServerKinds
<1>3. CASE ReadBody(i)
  <2>1. server[i] = "reading_rest" /\ Extract(i, conn[socket[i]].request.length)
    BY <1>3 DEF ReadBody
  <2>2. conn[socket[i]].request.length \in Nat
    BY <2>1, ReadFrom, ConstantFacts
  <2> QED BY <2>1, <2>2, ExtractKinds DEF ServerKinds
<1>4. CASE ReadFails(i) \/ ReplyFails(i)
  BY <1>4, CatchErrs DEF ReadFails, ReplyFails, ServerKinds
<1>5. CASE Fulfil(i)
  BY <1>5 DEF Fulfil, Satisfy, PromiseKept, Delivers, ServerKinds
<1> QED
  BY <1>1, <1>2, <1>3, <1>4, <1>5 DEF ServerStep

\* Every step is one of these.
LEMMA Kinds ==
  ASSUME TypeOK, PromiseKept, Opened, [Next]_vars
  PROVE  \/ Running /\ (start \/ FutureReady \/ Reauthenticate)
         \/ Running /\ \E i \in LoginIds : ServerKinds(i)
         \/ Running /\ \E c \in Connections, r \in Requests : Open(c, r)
         \/ Running /\ \E c \in Connections : Send(c)
         \/ Running /\ \E c \in Connections : Close(c)
         \/ Running /\ OtherProgram
         \/ UNCHANGED vars
BY ServerStepKinds DEF Next, CallerStep, BrowserStep, Finished

-----------------------------------------------------------------------------
(* The invariant at the start.                                             *)

ConnType == [state : {"unopened", "open", "closed"},
             request : Requests \cup {None}, sent : Nat, page : BOOLEAN]

PromiseType == [kind : {"empty", "token", "exception"},
                from : Connections \cup {None}, units : Nat]

LEMMA InitType == Init => TypeOK
<1> SUFFICES ASSUME Init PROVE TypeOK
  OBVIOUS
<1>1. 1 \in LoginIds /\ Free \notin LoginIds /\ Other \notin LoginIds
  BY ConstantFacts DEF LoginIds, Free, Other
<1>2. Empty \in PromiseType /\ Unopened \in ConnType
  BY DEF Empty, Unopened, PromiseType, ConnType
<1>3. <<>> \in Seq(Connections)
  OBVIOUS
<1>4. caller \in Callers /\ login \in LoginIds /\ port \in {Free, Other}
  BY <1>1 DEF Init, Callers
<1>5. /\ server \in [LoginIds -> Threads]
      /\ socket \in [LoginIds -> Connections \cup {None}]
      /\ body \in [LoginIds -> Nat]
  BY DEF Init, Threads
<1>6. /\ promise \in [LoginIds -> PromiseType]
      /\ conn \in [Connections -> ConnType]
      /\ backlog \in Seq(Connections)
  BY <1>2, <1>3 DEF Init
<1>7. \A i \in LoginIds : server[i] = "none"
  BY DEF Init
<1> QED
  BY <1>4, <1>5, <1>6, <1>7 DEF TypeOK, PromiseType, ConnType

LEMMA InitIInv == Init => IInv
<1> SUFFICES ASSUME Init PROVE IInv
  OBVIOUS
<1>1. TypeOK
  BY InitType
<1>2. /\ caller = "start" /\ login = 1 /\ port \in {Free, Other}
      /\ backlog = <<>>
  BY DEF Init
<1>3. \A i \in LoginIds :
        server[i] = "none" /\ socket[i] = None /\ promise[i] = Empty
  BY DEF Init
<1>4. \A c \in Connections : conn[c] = Unopened
  BY DEF Init
<1>5. /\ Empty.kind = "empty" /\ Unopened.state = "unopened"
      /\ Unopened.page = FALSE
  BY DEF Empty, Unopened
<1>6. NotYetAccepted /\ PromiseKept /\ ReadWhole
  BY <1>3 DEF NotYetAccepted, PromiseKept, ReadWhole
<1>7. InTurn /\ Holder
  BY <1>2, <1>3, ConstantFacts DEF InTurn, Holder, LoginIds, Free, Other
<1>8. Opened /\ TokenIsWhole
  <2>1. DOMAIN backlog = {}
    BY <1>2
  <2> QED BY <1>3, <1>4, <1>5, <2>1 DEF Opened, TokenIsWhole
<1>9. PageMeansToken /\ AbortsOnlyWhenPortTaken
  BY <1>2, <1>4, <1>5 DEF PageMeansToken, AbortsOnlyWhenPortTaken
<1> QED
  BY <1>1, <1>6, <1>7, <1>8, <1>9 DEF IInv

-----------------------------------------------------------------------------
(* The invariant under every step.                                         *)

\* What a step does to a connection: it may be opened, its bytes arrive, it
\* is closed, it is shown the page; its request stays.
LEMMA ConnectionsStay ==
  ASSUME TypeOK, NEW i \in LoginIds, Closes(i)
  PROVE  /\ \A k \in DOMAIN backlog : backlog[k] \in Range(backlog)
         /\ \A c \in Connections :
              /\ conn'[c] = conn[c] \/ conn'[c] = [conn[c] EXCEPT !.state = "closed"]
              /\ conn'[c].request = conn[c].request
              /\ conn'[c].sent = conn[c].sent
              /\ conn'[c].page = conn[c].page
              /\ conn[c].state # "unopened" => conn'[c].state # "unopened"
<1>1. conn \in [Connections -> ConnType]
  BY DEF TypeOK, ConnType
<1>2. \A c \in Connections :
        conn'[c] = conn[c] \/ conn'[c] = [conn[c] EXCEPT !.state = "closed"]
  BY DEF Closes
<1>3. \A k \in DOMAIN backlog : backlog[k] \in Range(backlog)
  BY DEF Range
<1> QED
  BY <1>1, <1>2, <1>3 DEF ConnType

\* A connection as it is when it has been opened.
Opening(r) == [Unopened EXCEPT !.state = "open", !.request = r]

LEMMA OpeningFields ==
  ASSUME NEW r
  PROVE  Opening(r) \in [state : {"open"}, request : {r}, sent : {0},
                         page : {FALSE}]
<1>1. Unopened \in [state : {"unopened"}, request : {None}, sent : {0},
                    page : {FALSE}]
  BY DEF Unopened
<1>2. [Unopened EXCEPT !.state = "open"] \in
        [state : {"open"}, request : {None}, sent : {0}, page : {FALSE}]
  BY <1>1
<1>3. Opening(r) = [[Unopened EXCEPT !.state = "open"] EXCEPT !.request = r]
  BY <1>1 DEF Opening
<1> QED
  BY <1>2, <1>3

LEMMA NextType ==
  ASSUME TypeOK, PromiseKept, Opened, [Next]_vars
  PROVE  TypeOK'
<1> DEFINE Conns == conn \in [Connections -> ConnType]
           Promises == promise \in [LoginIds -> PromiseType]
           Reads == \A i \in LoginIds :
                      server[i] \in {"reading", "reading_rest", "replying",
                                     "fulfilling"}
                        => socket[i] # None /\ conn[socket[i]].state # "unopened"
<1>a. Conns /\ Promises /\ Reads
  BY DEF TypeOK, ConnType, PromiseType
<1>b. TypeOK' <=>
        /\ caller' \in Callers
        /\ login' \in LoginIds
        /\ port' \in {Free, Other} \cup LoginIds
        /\ server' \in [LoginIds -> Threads]
        /\ socket' \in [LoginIds -> Connections \cup {None}]
        /\ body' \in [LoginIds -> Nat]
        /\ Promises'
        /\ Conns'
        /\ backlog' \in Seq(Connections)
        /\ Reads'
  BY DEF TypeOK, ConnType, PromiseType
<1>1. ASSUME start \/ FutureReady \/ Reauthenticate
      PROVE  TypeOK'
  <2>1. UNCHANGED <<port, socket, body, promise, conn, backlog>>
    BY <1>1 DEF start, FutureReady, Reauthenticate, callerOnly
  <2>2. caller' \in Callers /\ server' \in [LoginIds -> Threads]
    BY <1>1 DEF start, FutureReady, Reauthenticate, Callers, Threads, TypeOK
  <2>3. login' \in LoginIds
    BY <1>1, ConstantFacts DEF start, FutureReady, Reauthenticate, LoginIds, TypeOK
  <2>4. Reads'
    BY <1>1, <1>a, <2>1 DEF start, FutureReady, Reauthenticate, TypeOK
  <2> QED BY <1>a, <1>b, <2>1, <2>2, <2>3, <2>4 DEF TypeOK
<1>2. ASSUME NEW i \in LoginIds, ServerKinds(i)
      PROVE  TypeOK'
  <2>1. CASE Bind(i)
    BY <1>a, <1>b, <2>1 DEF Bind, TypeOK, Threads
  <2>2. CASE BindFails(i)
    BY <1>a, <1>b, <2>2 DEF BindFails, TypeOK, Callers
  <2>3. CASE Accept(i)
    <3>1. /\ UNCHANGED <<caller, login, port, body, promise, conn>>
          /\ server' = [server EXCEPT ![i] = "reading"]
          /\ socket' = [socket EXCEPT ![i] = Head(backlog)]
          /\ backlog' = Tail(backlog)
          /\ backlog # <<>>
      BY <2>3 DEF Accept
    <3>2. backlog \in Seq(Connections)
      BY DEF TypeOK
    <3>3. /\ Head(backlog) \in Connections /\ Tail(backlog) \in Seq(Connections)
          /\ 1 \in DOMAIN backlog /\ Head(backlog) = backlog[1]
      BY <3>1, <3>2
    <3>4. conn[Head(backlog)].state # "unopened" /\ Head(backlog) # None
      BY <3>3, ConstantFacts DEF Opened
    <3>5. server' \in [LoginIds -> Threads]
      BY <3>1 DEF TypeOK, Threads
    <3>6. socket' \in [LoginIds -> Connections \cup {None}]
      BY <3>1, <3>3 DEF TypeOK
    <3>7. Reads'
      BY <1>a, <3>1, <3>4 DEF TypeOK
    <3> QED BY <1>a, <1>b, <3>1, <3>3, <3>5, <3>6, <3>7 DEF TypeOK
  <2>4. CASE Errs(i)
    <3>1. Exception \in PromiseType
      BY DEF Exception, PromiseType
    <3> QED BY <1>a, <1>b, <2>4, <3>1 DEF Errs, TypeOK, Threads
  <2>5. ASSUME NEW units \in Nat, Takes(i, units)
        PROVE  TypeOK'
    BY <1>a, <1>b, <2>5 DEF Takes, TypeOK, Threads
  <2>6. CASE ReadsOn(i)
    BY <1>a, <1>b, <2>6 DEF ReadsOn, TypeOK, Threads
  <2>7. CASE Reply(i)
    <3>1. /\ UNCHANGED <<caller, login, port, socket, body, promise, backlog>>
          /\ server' = [server EXCEPT ![i] = "fulfilling"]
          /\ server[i] = "replying"
          /\ conn' = [conn EXCEPT ![socket[i]].page = TRUE]
      BY <2>7 DEF Reply
    <3>2. conn' = [conn EXCEPT ![socket[i]] = [conn[socket[i]] EXCEPT !.page = TRUE]]
      BY <3>1
    <3>3. socket[i] \in Connections
      BY <3>1, ReadFrom
    <3>4. [conn[socket[i]] EXCEPT !.page = TRUE] \in ConnType
      BY <1>a, <3>3 DEF ConnType
    <3>5. Conns'
      BY <1>a, <3>2, <3>4
    <3>6. \A c \in Connections : conn'[c].state = conn[c].state
      BY <1>a, <3>2, <3>3 DEF ConnType
    <3>7. server' \in [LoginIds -> Threads]
      BY <3>1 DEF TypeOK, Threads
    <3>8. Reads'
      BY <1>a, <3>1, <3>6 DEF TypeOK
    <3> QED BY <1>a, <1>b, <3>1, <3>5, <3>7, <3>8 DEF TypeOK
  <2>8. CASE Delivers(i)
    <3>1. [kind |-> "token", from |-> socket[i], units |-> body[i]] \in PromiseType
      BY DEF PromiseType, TypeOK
    <3> QED BY <1>a, <1>b, <2>8, <3>1 DEF Delivers, TypeOK, Threads
  <2>9. CASE Closes(i)
    <3>1. /\ UNCHANGED <<caller, login, socket, body, promise>>
          /\ server' = [server EXCEPT ![i] = "gone"]
          /\ port' = Free
          /\ backlog' = <<>>
      BY <2>9 DEF Closes
    <3>2. <<>> \in Seq(Connections)
      OBVIOUS
    <3>3. Conns'
      <4>1. conn' = [c \in Connections |-> conn'[c]]
        BY <2>9 DEF Closes
      <4>2. \A c \in Connections :
              conn'[c] = conn[c] \/ conn'[c] = [conn[c] EXCEPT !.state = "closed"]
        BY <2>9, ConnectionsStay
      <4>3. \A c \in Connections : conn'[c] \in ConnType
        BY <1>a, <4>2 DEF ConnType
      <4> QED BY <4>1, <4>3
    <3>4. server' \in [LoginIds -> Threads]
      BY <3>1 DEF TypeOK, Threads
    <3>5. Reads'
      BY <1>a, <2>9, <3>1, ConnectionsStay DEF TypeOK
    <3> QED BY <1>a, <1>b, <3>1, <3>2, <3>3, <3>4, <3>5 DEF TypeOK
  <2> QED
    BY <1>2, <2>1, <2>2, <2>3, <2>4, <2>5, <2>6, <2>7, <2>8, <2>9 DEF ServerKinds
<1>3. ASSUME NEW c \in Connections, NEW r \in Requests, Open(c, r)
      PROVE  TypeOK'
  <2>1. /\ UNCHANGED <<port, caller, login, server, socket, body, promise>>
        /\ conn' = [conn EXCEPT ![c] = Opening(r)]
        /\ backlog' = Append(backlog, c)
    BY <1>3 DEF Open, othersOnly, Opening
  <2>o. Opening(r) \in ConnType /\ Opening(r).state # "unopened"
    <3>1. Opening(r) \in [state : {"open"}, request : {r}, sent : {0},
                          page : {FALSE}]
      BY OpeningFields
    <3>2. {r} \subseteq Requests \cup {None} /\ {0} \subseteq Nat
          /\ {FALSE} \subseteq BOOLEAN
      OBVIOUS
    <3> QED BY <3>1, <3>2 DEF ConnType
  <2>2. Conns'
    BY <1>a, <2>1, <2>o
  <2>3. backlog' \in Seq(Connections)
    BY <2>1 DEF TypeOK
  <2>4. Reads'
    BY <1>a, <2>1, <2>o DEF TypeOK
  <2> QED BY <1>a, <1>b, <2>1, <2>2, <2>3, <2>4 DEF TypeOK
<1>4. ASSUME NEW c \in Connections, Send(c)
      PROVE  TypeOK'
  <2>1. PICK n \in (conn[c].sent + 1)..Size(conn[c].request) :
          conn' = [conn EXCEPT ![c].sent = n]
    BY <1>4 DEF Send
  <2>2. UNCHANGED <<port, backlog, caller, login, server, socket, body, promise>>
    BY <1>4 DEF Send, othersOnly
  <2>3. n \in Nat
    <3>1. conn[c].sent \in Nat
      BY <1>a DEF ConnType
    <3> QED BY <3>1
  <2>4. conn' = [conn EXCEPT ![c] = [conn[c] EXCEPT !.sent = n]]
    BY <2>1
  <2>5. [conn[c] EXCEPT !.sent = n] \in ConnType
    BY <1>a, <2>3 DEF ConnType
  <2>6. Conns'
    BY <1>a, <2>4, <2>5
  <2>7. \A d \in Connections : conn'[d].state = conn[d].state
    BY <1>a, <2>4 DEF ConnType
  <2>8. Reads'
    BY <1>a, <2>2, <2>7 DEF TypeOK
  <2> QED BY <1>a, <1>b, <2>2, <2>6, <2>8 DEF TypeOK
<1>5. ASSUME NEW c \in Connections, Close(c)
      PROVE  TypeOK'
  <2>1. /\ UNCHANGED <<port, backlog, caller, login, server, socket, body, promise>>
        /\ conn' = [conn EXCEPT ![c] = [conn[c] EXCEPT !.state = "closed"]]
    BY <1>5 DEF Close, othersOnly
  <2>2. [conn[c] EXCEPT !.state = "closed"] \in ConnType
    BY <1>a DEF ConnType
  <2>3. Conns'
    BY <1>a, <2>1, <2>2
  <2>4. \A d \in Connections :
          conn[d].state # "unopened" => conn'[d].state # "unopened"
    BY <1>a, <2>1 DEF ConnType
  <2>5. Reads'
    BY <1>a, <2>1, <2>4 DEF TypeOK
  <2> QED BY <1>a, <1>b, <2>1, <2>3, <2>5 DEF TypeOK
<1>6. CASE OtherProgram
  BY <1>6 DEF OtherProgram, othersOnly, TypeOK
<1>7. CASE UNCHANGED vars
  BY <1>7 DEF vars, TypeOK
<1> QED
  BY <1>1, <1>2, <1>3, <1>4, <1>5, <1>6, <1>7, Kinds

\* What a step does to the connections: one that is open keeps its request.
LEMMA ConnectionsMove ==
  ASSUME TypeOK, PromiseKept, Opened, [Next]_vars
  PROVE  \A c \in Connections :
           /\ conn[c].state # "unopened" =>
                /\ conn'[c].state # "unopened"
                /\ conn'[c].request = conn[c].request
           /\ conn'[c].state # "unopened" =>
                /\ conn'[c].request \in Requests
                /\ conn'[c].sent <= Size(conn'[c].request)
<1>a. conn \in [Connections -> ConnType]
  BY DEF TypeOK, ConnType
<1>b. \A c \in Connections :
        conn[c].state # "unopened" =>
          conn[c].request \in Requests /\ conn[c].sent <= Size(conn[c].request)
  BY DEF Opened
<1>1. CASE UNCHANGED conn
  BY <1>1, <1>b
<1>2. ASSUME NEW i \in LoginIds, Reply(i)
      PROVE  \A c \in Connections :
               /\ conn'[c].state = conn[c].state
               /\ conn'[c].request = conn[c].request
               /\ conn'[c].sent = conn[c].sent
  <2>1. conn' = [conn EXCEPT ![socket[i]] = [conn[socket[i]] EXCEPT !.page = TRUE]]
    BY <1>2 DEF Reply
  <2> QED BY <1>a, <2>1 DEF ConnType
<1>3. ASSUME NEW i \in LoginIds, Closes(i), NEW c \in Connections
      PROVE  /\ conn'[c].state # "unopened" <=> conn[c].state # "unopened"
             /\ conn'[c].request = conn[c].request
             /\ conn'[c].sent = conn[c].sent
  <2>1. CASE c = socket[i] \/ c \in Range(backlog)
    <3>1. conn[c].state # "unopened"
      BY <2>1, ConstantFacts DEF Opened, Range
    <3> QED BY <1>3, <3>1, ConnectionsStay
  <2>2. CASE ~(c = socket[i] \/ c \in Range(backlog))
    BY <1>3, <2>2 DEF Closes
  <2> QED BY <2>1, <2>2
<1>4. ASSUME NEW d \in Connections, NEW r \in Requests, Open(d, r),
             NEW c \in Connections
      PROVE  /\ conn[c].state # "unopened" => conn'[c] = conn[c]
             /\ conn'[c] # conn[c] =>
                  conn'[c].request = r /\ conn'[c].sent = 0
  <2>1. conn' = [conn EXCEPT ![d] = Opening(r)] /\ conn[d].state = "unopened"
    BY <1>4 DEF Open, Opening
  <2>2. Opening(r) \in [state : {"open"}, request : {r}, sent : {0},
                        page : {FALSE}]
    BY OpeningFields
  <2> QED BY <1>a, <2>1, <2>2
<1>5. ASSUME NEW d \in Connections, Send(d), NEW c \in Connections
      PROVE  /\ conn'[c].state = conn[c].state
             /\ conn'[c].request = conn[c].request
             /\ conn'[c].sent = conn[c].sent
                  \/ conn'[c].sent <= Size(conn[c].request)
  <2>1. PICK n \in (conn[d].sent + 1)..Size(conn[d].request) :
          conn' = [conn EXCEPT ![d].sent = n]
    BY <1>5 DEF Send
  <2>2. conn' = [conn EXCEPT ![d] = [conn[d] EXCEPT !.sent = n]]
    BY <2>1
  <2>3. n <= Size(conn[d].request)
    <3>1. conn[d].state = "open"
      BY <1>5 DEF Send
    <3>2. Size(conn[d].request) \in Nat /\ conn[d].sent \in Nat
      BY <1>a, <1>b, <3>1, ConstantFacts DEF Size, ConnType
    <3> QED BY <3>2
  <2> QED BY <1>a, <2>2, <2>3 DEF ConnType
<1>6. ASSUME NEW d \in Connections, Close(d), NEW c \in Connections
      PROVE  /\ conn'[c].state # "unopened" <=> conn[c].state # "unopened"
             /\ conn'[c].request = conn[c].request
             /\ conn'[c].sent = conn[c].sent
  <2>1. /\ conn' = [conn EXCEPT ![d] = [conn[d] EXCEPT !.state = "closed"]]
        /\ conn[d].state = "open"
    BY <1>6 DEF Close
  <2> QED BY <1>a, <2>1 DEF ConnType
<1>7. \/ UNCHANGED conn
      \/ \E i \in LoginIds : Reply(i) \/ Closes(i)
      \/ \E d \in Connections, r \in Requests : Open(d, r)
      \/ \E d \in Connections : Send(d) \/ Close(d)
  BY Kinds DEF ServerKinds, start, FutureReady, Reauthenticate, callerOnly,
       Bind, BindFails, Accept, Errs, Takes, ReadsOn, Delivers, OtherProgram, vars
<1>8. CASE \E i \in LoginIds : Reply(i)
  BY <1>8, <1>2, <1>b
<1>9. CASE \E i \in LoginIds : Closes(i)
  BY <1>9, <1>3, <1>b
<1>10. CASE \E d \in Connections, r \in Requests : Open(d, r)
  <2>1. \A r \in Requests : 0 <= Size(r)
    BY ConstantFacts DEF Size
  <2> QED BY <1>10, <1>4, <1>b, <2>1
<1>11. CASE \E d \in Connections : Send(d)
  BY <1>11, <1>5, <1>b
<1>12. CASE \E d \in Connections : Close(d)
  BY <1>12, <1>6, <1>b
<1> QED
  BY <1>1, <1>7, <1>8, <1>9, <1>10, <1>11, <1>12

\* What a step does to the threads, the sockets and the promises: it is the
\* step of one thread, the start of one, or leaves them alone.
Alone == UNCHANGED <<server, socket, body, promise>>

LEMMA Movers ==
  ASSUME TypeOK, PromiseKept, Opened, [Next]_vars
  PROVE  \/ Alone
         \/ start
         \/ \E i \in LoginIds : ServerKinds(i)
BY Kinds DEF Alone, FutureReady, Reauthenticate, callerOnly, Open, Send, Close,
     OtherProgram, othersOnly, vars

LEMMA NextOpened ==
  ASSUME TypeOK, PromiseKept, Opened, [Next]_vars
  PROVE  Opened'
<1>a. /\ backlog \in Seq(Connections)
      /\ socket \in [LoginIds -> Connections \cup {None}]
      /\ promise \in [LoginIds -> PromiseType]
      /\ server \in [LoginIds -> Threads]
  BY DEF TypeOK, PromiseType
<1>b. \A c \in Connections :
        conn[c].state # "unopened" => conn'[c].state # "unopened"
  BY ConnectionsMove
<1>1. \A k \in DOMAIN backlog' : conn'[backlog'[k]].state # "unopened"
  <2>1. CASE backlog' = backlog \/ backlog' = <<>>
    BY <1>a, <1>b, <2>1 DEF Opened
  <2>2. CASE \E i \in LoginIds : Accept(i)
    <3>1. backlog # <<>> /\ backlog' = Tail(backlog)
      BY <2>2 DEF Accept
    <3>2. \A k \in DOMAIN Tail(backlog) :
            k + 1 \in DOMAIN backlog /\ Tail(backlog)[k] = backlog[k + 1]
      BY <1>a, <3>1
    <3> QED BY <1>a, <1>b, <3>1, <3>2 DEF Opened
  <2>3. ASSUME NEW c \in Connections, NEW r \in Requests, Open(c, r)
        PROVE  \A k \in DOMAIN backlog' : conn'[backlog'[k]].state # "unopened"
    <3>1. backlog' = Append(backlog, c) /\ conn' = [conn EXCEPT ![c] = Opening(r)]
      BY <2>3 DEF Open, Opening
    <3>2. Opening(r).state # "unopened"
      BY OpeningFields
    <3>3. conn'[c].state # "unopened"
      BY <3>1, <3>2 DEF TypeOK
    <3>4. \A k \in DOMAIN backlog' :
            (k \in DOMAIN backlog /\ backlog'[k] = backlog[k]) \/ backlog'[k] = c
      BY <1>a, <3>1
    <3> QED BY <1>a, <1>b, <3>3, <3>4 DEF Opened
  <2> QED
    BY <2>1, <2>2, <2>3, Kinds DEF ServerKinds, start, FutureReady, Reauthenticate,
       callerOnly, Bind, BindFails, Errs, Takes, ReadsOn, Reply, Delivers,
       Closes, Send, Close, OtherProgram, vars
<1>2. \A c \in Connections :
        conn'[c].state # "unopened" =>
          conn'[c].request \in Requests /\ conn'[c].sent <= Size(conn'[c].request)
  BY ConnectionsMove
<1>3. \A i \in LoginIds :
        socket'[i] # None =>
          \/ socket'[i] = socket[i]
          \/ socket'[i] \in Connections /\ conn[socket'[i]].state # "unopened"
  <2>1. CASE UNCHANGED socket
    BY <2>1
  <2>2. ASSUME NEW i \in LoginIds, Accept(i)
        PROVE  \A j \in LoginIds :
                 \/ socket'[j] = socket[j]
                 \/ /\ socket'[j] \in Connections
                    /\ conn[socket'[j]].state # "unopened"
    <3>1. backlog # <<>> /\ socket' = [socket EXCEPT ![i] = Head(backlog)]
      BY <2>2 DEF Accept
    <3>2. 1 \in DOMAIN backlog /\ Head(backlog) = backlog[1]
          /\ Head(backlog) \in Connections
      BY <1>a, <3>1
    <3>3. conn[Head(backlog)].state # "unopened"
      BY <3>2 DEF Opened
    <3> QED BY <1>a, <3>1, <3>2, <3>3
  <2> QED
    BY <2>1, <2>2, Movers DEF Alone, ServerKinds, start, callerOnly, Bind, BindFails,
       Errs, Takes, ReadsOn, Reply, Delivers, Closes
<1>4. \A i \in LoginIds :
        socket'[i] # None => conn'[socket'[i]].state # "unopened"
  BY <1>a, <1>b, <1>3 DEF Opened
<1>5. \A i \in LoginIds :
        promise'[i] = promise[i] \/ promise'[i] = Exception
          \/ /\ promise'[i].from = socket[i]
             /\ server[i] = "fulfilling"
  BY <1>a, Movers DEF Alone, ServerKinds, start, callerOnly, Bind, BindFails, Accept,
     Errs, Takes, ReadsOn, Reply, Delivers, Closes
<1>6. Exception.kind # "token"
  BY DEF Exception
<1>7. \A i \in LoginIds :
        promise'[i].kind = "token" =>
          promise'[i].from # None /\ conn'[promise'[i].from].state # "unopened"
  <2> SUFFICES ASSUME NEW i \in LoginIds, promise'[i].kind = "token"
               PROVE  promise'[i].from # None
                        /\ conn'[promise'[i].from].state # "unopened"
    OBVIOUS
  <2>1. CASE promise'[i] = promise[i]
    <3>1. promise[i].from \in Connections
          /\ conn[promise[i].from].state # "unopened"
      BY <1>a, <2>1 DEF Opened, PromiseType
    <3> QED BY <1>b, <2>1, <3>1, ConstantFacts
  <2>2. CASE promise'[i].from = socket[i] /\ server[i] = "fulfilling"
    <3>1. socket[i] \in Connections /\ conn[socket[i]].state # "unopened"
      BY <2>2, ReadFrom
    <3> QED BY <1>b, <2>2, <3>1, ConstantFacts
  <2> QED BY <1>5, <1>6, <2>1, <2>2
<1> QED
  BY <1>1, <1>2, <1>4, <1>7 DEF Opened

LEMMA NextNotYetAccepted ==
  ASSUME TypeOK, PromiseKept, Opened, NotYetAccepted, InTurn, [Next]_vars
  PROVE  NotYetAccepted'
<1>a. /\ socket \in [LoginIds -> Connections \cup {None}]
      /\ server \in [LoginIds -> Threads]
      /\ login \in LoginIds
  BY DEF TypeOK
<1>1. CASE Alone
  BY <1>1 DEF Alone, NotYetAccepted
<1>2. CASE start
  BY <1>a, <1>2 DEF start, callerOnly, NotYetAccepted, InTurn
<1>3. ASSUME NEW i \in LoginIds, ServerKinds(i)
      PROVE  NotYetAccepted'
  BY <1>a, <1>3 DEF ServerKinds, NotYetAccepted, Bind, BindFails, Accept, Errs, Takes,
     ReadsOn, Reply, Delivers, Closes
<1> QED
  BY <1>1, <1>2, <1>3, Movers

LEMMA NextPromiseKept ==
  ASSUME TypeOK, PromiseKept, Opened, InTurn, [Next]_vars
  PROVE  PromiseKept'
<1>a. /\ promise \in [LoginIds -> PromiseType]
      /\ server \in [LoginIds -> Threads]
      /\ login \in LoginIds
  BY DEF TypeOK, PromiseType
<1>b. Exception.kind = "exception" /\ Empty.kind = "empty"
  BY DEF Exception, Empty
<1>1. CASE Alone
  BY <1>1 DEF Alone, PromiseKept
<1>2. CASE start
  BY <1>a, <1>2 DEF start, callerOnly, PromiseKept, InTurn
<1>3. ASSUME NEW i \in LoginIds, ServerKinds(i)
      PROVE  PromiseKept'
  <2>1. CASE Bind(i) \/ BindFails(i) \/ Accept(i) \/ ReadsOn(i) \/ Reply(i)
    BY <1>a, <2>1 DEF Bind, BindFails, Accept, ReadsOn, Reply, PromiseKept
  <2>2. CASE Errs(i)
    BY <1>a, <1>b, <2>2 DEF Errs, PromiseKept
  <2>3. CASE \E units \in Nat : Takes(i, units)
    BY <1>a, <2>3 DEF Takes, PromiseKept
  <2>4. CASE Delivers(i)
    <3>1. promise' = [promise EXCEPT ![i] =
                       [kind |-> "token", from |-> socket[i], units |-> body[i]]]
      BY <2>4 DEF Delivers
    <3>2. promise'[i].kind = "token"
      BY <1>a, <3>1
    <3>3. \A j \in LoginIds : j # i => promise'[j] = promise[j]
      BY <1>a, <3>1
    <3> QED BY <1>a, <1>b, <2>4, <3>2, <3>3 DEF Delivers, PromiseKept
  <2>5. CASE Closes(i)
    BY <1>a, <2>5 DEF Closes, PromiseKept
  <2> QED BY <1>3, <2>1, <2>2, <2>3, <2>4, <2>5 DEF ServerKinds
<1> QED
  BY <1>1, <1>2, <1>3, Movers

LEMMA NextInTurn ==
  ASSUME TypeOK, PromiseKept, Opened, InTurn, [Next]_vars
  PROVE  InTurn'
<1>a. /\ server \in [LoginIds -> Threads]
      /\ login \in LoginIds
      /\ LoginIds \subseteq Nat
      /\ promise \in [LoginIds -> PromiseType]
  BY DEF TypeOK, LoginIds, PromiseType
<1>1. CASE start
  BY <1>a, <1>1 DEF start, InTurn
<1>2. CASE FutureReady
  <2>1. promise[login].kind # "empty" /\ UNCHANGED <<server, login>>
    BY <1>2 DEF FutureReady
  <2>2. promise[login] # Empty
    BY <2>1 DEF Empty
  <2>3. server[login] \in {"returning", "gone"}
    BY <1>a, <2>2 DEF PromiseKept
  <2>4. caller' # "start"
    BY <1>2 DEF FutureReady
  <2> QED BY <2>1, <2>3, <2>4 DEF InTurn
<1>3. CASE Reauthenticate
  <2>1. /\ login' = login + 1 /\ caller' = "start" /\ UNCHANGED server
        /\ server[login] \in {"returning", "gone"}
        /\ login < Logins
    BY <1>3 DEF Reauthenticate, InTurn
  <2>2. login' \in LoginIds /\ login' > login
    BY <1>a, <2>1, ConstantFacts DEF LoginIds
  <2>3. \A i \in LoginIds : /\ i > login' => i > login
                            /\ i < login' => i < login \/ i = login
    BY <1>a, <2>1
  <2> QED BY <1>a, <2>1, <2>2, <2>3 DEF InTurn
<1>4. ASSUME NEW i \in LoginIds, ServerKinds(i)
      PROVE  InTurn'
  <2>1. UNCHANGED login /\ (caller' = caller \/ caller' = "aborted")
    BY <1>4 DEF ServerKinds, Bind, BindFails, Accept, Errs, Takes, ReadsOn, Reply,
       Delivers, Closes
  <2>2. /\ server[i] # "none"
        /\ server' = [server EXCEPT ![i] = server'[i]]
        /\ server[i] \in {"returning", "gone"} => server'[i] \in {"returning", "gone"}
    BY <1>a, <1>4 DEF ServerKinds, Bind, BindFails, Accept, Errs, Takes, ReadsOn, Reply,
       Delivers, Closes
  <2>3. server'[i] \in Threads
    BY <1>a, <1>4 DEF ServerKinds, Bind, BindFails, Accept, Errs, Takes, ReadsOn, Reply,
       Delivers, Closes, Threads
  <2> QED BY <1>a, <2>1, <2>2, <2>3 DEF InTurn
<1>5. CASE UNCHANGED <<caller, login, server>>
  BY <1>5 DEF InTurn
<1> QED
  BY <1>1, <1>2, <1>3, <1>4, <1>5, Kinds DEF Open, Send, Close, OtherProgram, othersOnly,
     vars

LEMMA NextHolder ==
  ASSUME TypeOK, PromiseKept, Opened, InTurn, Holder, [Next]_vars
  PROVE  Holder'
<1>a. /\ server \in [LoginIds -> Threads]
      /\ login \in LoginIds
      /\ Free \notin LoginIds /\ Other \notin LoginIds
  BY DEF TypeOK, LoginIds, Free, Other
<1>1. CASE UNCHANGED server
  <2>1. port' = port \/ port' \in {Free, Other}
    BY <1>1, <1>a, Kinds DEF start, FutureReady, Reauthenticate, callerOnly, ServerKinds,
       Bind, BindFails, Accept, Errs, Takes, ReadsOn, Reply, Delivers, Closes,
       Open, Send, Close, OtherProgram, vars
  <2> QED BY <1>1, <1>a, <2>1 DEF Holder
<1>2. CASE start
  BY <1>a, <1>2 DEF start, callerOnly, Holder, InTurn
<1>3. ASSUME NEW i \in LoginIds, ServerKinds(i)
      PROVE  Holder'
  BY <1>a, <1>3 DEF ServerKinds, Holder, Bind, BindFails, Accept, Errs, Takes, ReadsOn,
     Reply, Delivers, Closes
<1> QED
  BY <1>1, <1>2, <1>3, Movers DEF Alone

-----------------------------------------------------------------------------
(* What the runs check.                                                    *)

LEMMA NextWhole ==
  ASSUME TypeOK, PromiseKept, Opened, ReadWhole, TokenIsWhole, [Next]_vars
  PROVE  ReadWhole' /\ TokenIsWhole'
<1>a. /\ server \in [LoginIds -> Threads]
      /\ socket \in [LoginIds -> Connections \cup {None}]
      /\ body \in [LoginIds -> Nat]
      /\ promise \in [LoginIds -> PromiseType]
      /\ login \in LoginIds
  BY DEF TypeOK, PromiseType
<1>b. \A c \in Connections :
        conn[c].state # "unopened" => conn'[c].request = conn[c].request
  BY ConnectionsMove
<1>c. \A i \in LoginIds :
        server[i] \in {"reading", "reading_rest", "replying", "fulfilling"} =>
          /\ socket[i] \in Connections
          /\ conn'[socket[i]].request = conn[socket[i]].request
  BY <1>b, ReadFrom
<1>d. \A i \in LoginIds :
        promise[i].kind = "token" =>
          conn'[promise[i].from].request = conn[promise[i].from].request
  BY <1>a, <1>b DEF Opened, PromiseType
<1>1. ReadWhole'
  <2> SUFFICES ASSUME NEW i \in LoginIds, server'[i] \in {"replying", "fulfilling"},
                      conn'[socket'[i]].request.declares
               PROVE  /\ conn'[socket'[i]].request.has_key
                      /\ body'[i] = conn'[socket'[i]].request.length
    BY DEF ReadWhole
  <2>1. CASE \E units \in Nat : Takes(i, units)
    BY <1>a, <1>c, <2>1 DEF Takes
  <2>2. CASE ~\E units \in Nat : Takes(i, units)
    <3>1. /\ server[i] \in {"replying", "fulfilling"}
          /\ socket'[i] = socket[i] /\ body'[i] = body[i]
      <4>1. CASE Alone \/ start
        BY <1>a, <4>1 DEF Alone, start, callerOnly
      <4>2. ASSUME NEW j \in LoginIds, ServerKinds(j), j # i
            PROVE  server'[i] = server[i] /\ socket'[i] = socket[i] /\ body'[i] = body[i]
        BY <1>a, <4>2 DEF ServerKinds, Bind, BindFails, Accept, Errs, Takes, ReadsOn,
           Reply, Delivers, Closes
      <4>3. CASE ServerKinds(i)
        <5>1. CASE Reply(i)
          BY <1>a, <5>1 DEF Reply
        <5>2. CASE ~Reply(i)
          BY <1>a, <2>2, <4>3, <5>2 DEF ServerKinds, Bind, BindFails, Accept, Errs,
             ReadsOn, Delivers, Closes
        <5> QED BY <5>1, <5>2
      <4> QED BY <4>1, <4>2, <4>3, Movers
    <3> QED BY <1>c, <3>1 DEF ReadWhole
  <2> QED BY <2>1, <2>2
<1>2. TokenIsWhole'
  <2> SUFFICES ASSUME NEW i \in LoginIds, promise'[i].kind = "token",
                      conn'[promise'[i].from].request.declares
               PROVE  /\ conn'[promise'[i].from].request.has_key
                      /\ promise'[i].units = conn'[promise'[i].from].request.length
    BY DEF TokenIsWhole
  <2>1. CASE Delivers(i)
    <3>1. /\ promise'[i].from = socket[i] /\ promise'[i].units = body[i]
          /\ server[i] = "fulfilling"
      BY <1>a, <2>1 DEF Delivers
    <3> QED BY <1>c, <3>1 DEF ReadWhole
  <2>2. CASE ~Delivers(i)
    <3>1. promise'[i] = promise[i] \/ promise'[i] = Exception
      BY <1>a, <2>2, Movers DEF Alone, start, callerOnly, ServerKinds, Bind, BindFails,
         Accept, Errs, Takes, ReadsOn, Reply, Delivers, Closes
    <3>2. promise'[i] = promise[i]
      BY <3>1 DEF Exception
    <3> QED BY <1>d, <3>2 DEF TokenIsWhole
  <2> QED BY <2>1, <2>2
<1> QED
  BY <1>1, <1>2

LEMMA NextPageMeansToken ==
  ASSUME TypeOK, PromiseKept, Opened, InTurn, PageMeansToken, [Next]_vars
  PROVE  PageMeansToken'
<1>a. /\ server \in [LoginIds -> Threads]
      /\ socket \in [LoginIds -> Connections \cup {None}]
      /\ promise \in [LoginIds -> PromiseType]
      /\ conn \in [Connections -> ConnType]
      /\ login \in LoginIds
  BY DEF TypeOK, PromiseType, ConnType
<1>b. ASSUME NEW i \in LoginIds, NEW c \in Connections,
             socket[i] = c, server[i] = "fulfilling" \/ promise[i].from = c
      PROVE  socket'[i] = c /\ (server'[i] = "fulfilling" \/ promise'[i].from = c)
  <2>1. Empty.from = None /\ None \notin Connections
    BY ConstantFacts DEF Empty
  <2>2. server[i] \in {"fulfilling", "returning", "gone"}
    BY <1>b, <2>1 DEF PromiseKept
  <2>3. CASE Delivers(i)
    BY <1>a, <1>b, <2>3 DEF Delivers
  <2>4. CASE ~Delivers(i)
    <3>1. /\ socket'[i] = socket[i]
          /\ server[i] = "fulfilling" => server'[i] = "fulfilling"
          /\ promise'[i] = promise[i]
      <4>1. CASE Alone
        BY <4>1 DEF Alone
      <4>2. CASE start
        BY <1>a, <2>2, <4>2 DEF start, callerOnly, InTurn
      <4>3. ASSUME NEW j \in LoginIds, ServerKinds(j), j # i
            PROVE  /\ server'[i] = server[i] /\ socket'[i] = socket[i]
                   /\ promise'[i] = promise[i]
        BY <1>a, <4>3 DEF ServerKinds, Bind, BindFails, Accept, Errs, Takes, ReadsOn,
           Reply, Delivers, Closes
      <4>4. CASE ServerKinds(i)
        <5>1. Closes(i)
          BY <2>2, <2>4, <4>4 DEF ServerKinds, Bind, BindFails, Accept, Errs, Takes,
             ReadsOn, Reply
        <5> QED BY <5>1 DEF Closes
      <4> QED BY <4>1, <4>2, <4>3, <4>4, Movers
    <3> QED BY <1>b, <3>1
  <2> QED BY <2>3, <2>4
<1>c. ASSUME NEW c \in Connections, conn'[c].page
      PROVE  conn[c].page \/ \E i \in LoginIds :
                               socket'[i] = c /\ server'[i] = "fulfilling"
  <2>1. ASSUME NEW i \in LoginIds, Reply(i)
        PROVE  conn[c].page \/ (socket'[i] = c /\ server'[i] = "fulfilling")
    <3>1. conn' = [conn EXCEPT ![socket[i]] = [conn[socket[i]] EXCEPT !.page = TRUE]]
      BY <2>1 DEF Reply
    <3> QED BY <1>a, <1>c, <2>1, <3>1 DEF Reply
  <2>2. ASSUME NEW i \in LoginIds, Closes(i)
        PROVE  conn[c].page
    BY <1>c, <2>2, ConnectionsStay
  <2>3. ASSUME NEW d \in Connections, NEW r \in Requests, Open(d, r)
        PROVE  conn[c].page
    <3>1. conn' = [conn EXCEPT ![d] = Opening(r)]
      BY <2>3 DEF Open, Opening
    <3>2. Opening(r).page = FALSE
      BY OpeningFields
    <3> QED BY <1>a, <1>c, <3>1, <3>2
  <2>4. ASSUME NEW d \in Connections, Send(d)
        PROVE  conn[c].page
    <3>1. PICK n \in (conn[d].sent + 1)..Size(conn[d].request) :
            conn' = [conn EXCEPT ![d].sent = n]
      BY <2>4 DEF Send
    <3>2. conn' = [conn EXCEPT ![d] = [conn[d] EXCEPT !.sent = n]]
      BY <3>1
    <3> QED BY <1>a, <1>c, <3>2 DEF ConnType
  <2>5. ASSUME NEW d \in Connections, Close(d)
        PROVE  conn[c].page
    <3>1. conn' = [conn EXCEPT ![d] = [conn[d] EXCEPT !.state = "closed"]]
      BY <2>5 DEF Close
    <3> QED BY <1>a, <1>c, <3>1 DEF ConnType
  <2>6. CASE UNCHANGED conn
    BY <1>c, <2>6
  <2> QED
    BY <2>1, <2>2, <2>3, <2>4, <2>5, <2>6, Kinds DEF ServerKinds, start, FutureReady,
       Reauthenticate, callerOnly, Bind, BindFails, Accept, Errs, Takes, ReadsOn,
       Delivers, OtherProgram, vars
<1> QED
  BY <1>b, <1>c DEF PageMeansToken

LEMMA NextAborts ==
  ASSUME TypeOK, PromiseKept, Opened, InTurn, Holder, AbortsOnlyWhenPortTaken,
         [Next]_vars
  PROVE  AbortsOnlyWhenPortTaken'
<1>a. /\ server \in [LoginIds -> Threads]
      /\ login \in LoginIds
      /\ LoginIds \subseteq Nat
      /\ port \in {Free, Other} \cup LoginIds
  BY DEF TypeOK, LoginIds
<1>1. CASE UNCHANGED vars
  BY <1>1 DEF vars, AbortsOnlyWhenPortTaken
<1>2. ASSUME NEW i \in LoginIds, BindFails(i)
      PROVE  AbortsOnlyWhenPortTaken'
  <2>1. server[i] = "spawned" /\ port # Free /\ UNCHANGED <<login, port, server>>
    BY <1>2 DEF BindFails
  <2>2. i = login
    BY <1>a, <2>1 DEF InTurn
  <2>3. port = Other \/ \E j \in LoginIds : j < login /\ server[j] = "returning"
    <3>1. CASE port \in LoginIds
      <4>1. server[port] \notin {"none", "spawned", "gone"}
        BY <3>1 DEF Holder
      <4>2. port < login
        BY <1>a, <2>1, <2>2, <3>1, <4>1 DEF InTurn
      <4> QED BY <3>1, <4>1, <4>2 DEF InTurn
    <3> QED BY <1>a, <2>1, <3>1
  <2> QED BY <2>1, <2>2, <2>3 DEF AbortsOnlyWhenPortTaken
<1>3. CASE Running /\ ~\E i \in LoginIds : BindFails(i)
  <2>1. caller' # "aborted"
    BY <1>3, Kinds DEF Running, start, FutureReady, Reauthenticate, ServerKinds, Bind,
       Accept, Errs, Takes, ReadsOn, Reply, Delivers, Closes, Open, Send, Close,
       OtherProgram, othersOnly, vars
  <2> QED BY <2>1 DEF AbortsOnlyWhenPortTaken
<1> QED
  BY <1>1, <1>2, <1>3, Kinds

-----------------------------------------------------------------------------
(* The theorems.                                                           *)

\* The inductive invariant holds in every state.
THEOREM Invariance == Spec => []IInv
<1>1. IInv /\ [Next]_vars => IInv'
  BY NextType, NextOpened, NextNotYetAccepted, NextPromiseKept, NextInTurn, NextHolder,
     NextWhole, NextPageMeansToken, NextAborts DEF IInv
<1> QED
  BY <1>1, InitIInv, PTL DEF Spec

\* The type invariant.
THEOREM TypeCorrect == Spec => []TypeOK
<1>1. IInv => TypeOK
  BY DEF IInv
<1> QED
  BY <1>1, Invariance, PTL

\* A token from a request that declares its length is the whole body, for any
\* segmentation, any trailing bytes and any width of size_t.  Of requests that
\* do not declare it nothing is said.
THEOREM WholeTokens == Spec => []TokenIsWhole
<1>1. IInv => TokenIsWhole
  BY DEF IInv
<1> QED
  BY <1>1, Invariance, PTL

\* More than the declared length has come with the header.
Overlong(i) ==
  /\ server[i] = "reading"
  /\ conn[socket[i]].request.declares
  /\ Arrived(socket[i]) > conn[socket[i]].request.length

OverlongIsRefused ==
  [][\A i \in LoginIds :
       Overlong(i) /\ server'[i] # server[i] => promise'[i] = Exception]_vars

LEMMA OverlongErrs ==
  ASSUME TypeOK, PromiseKept, Opened, NEW i \in LoginIds, Overlong(i), ServerStep(i)
  PROVE  Errs(i)
<1> DEFINE r == conn[socket[i]].request
           early == Arrived(socket[i])
<1>1. /\ r \in Requests /\ early \in Nat /\ early <= r.length + r.trails
      /\ r.length < early /\ r.declares /\ server[i] = "reading"
  BY ReadFrom DEF Overlong
<1>2. /\ r.length \in Nat /\ r.trails \in Nat /\ r.length + r.trails < HalfSize
      /\ r.has_key => r.length > 0
      /\ HalfSize \in Nat \ {0}
  BY <1>1, ConstantFacts
<1>3. TooLarge(Remaining(r, early))
  BY <1>1, <1>2, WrapsToTooLarge DEF Remaining, TooLarge
<1>4. Remaining(r, early) # 0
  BY <1>2, <1>3 DEF TooLarge
<1>5. ReadHeader(i) \/ ReadFails(i)
  BY <1>1 DEF ServerStep, Bind, BindFails, Accept, ReadBody, Reply, ReplyFails,
     Fulfil, ServerReturns
<1>6. CASE ReadHeader(i)
  <2>1. CASE r.length = 0
    <3>1. Extract(i, early) /\ ~r.has_key
      BY <1>2, <1>6, <2>1 DEF ReadHeader
    <3>2. Catch(i)
      BY <3>1 DEF Extract
    <3> QED BY <1>1, <3>2, CatchErrs
  <2>2. CASE r.length # 0
    <3>1. Catch(i)
      BY <1>1, <1>3, <1>4, <1>6, <2>2 DEF ReadHeader
    <3> QED BY <1>1, <3>1, CatchErrs
  <2> QED BY <2>1, <2>2
<1>7. CASE ReadFails(i)
  BY <1>1, <1>7, CatchErrs DEF ReadFails
<1> QED
  BY <1>5, <1>6, <1>7

\* Where the subtraction wraps around, because something follows the body, the
\* login fails: no part of the body and no more than the body is a token.
THEOREM WrapIsRefused == Spec => OverlongIsRefused
<1>1. ASSUME IInv, [Next]_vars, NEW i \in LoginIds, Overlong(i),
             server'[i] # server[i]
      PROVE  promise'[i] = Exception
  <2>a. server \in [LoginIds -> Threads] /\ login \in LoginIds
    BY <1>1 DEF IInv, TypeOK
  <2>b. promise \in [LoginIds -> [kind : {"empty", "token", "exception"},
                                  from : Connections \cup {None}, units : Nat]]
    BY <1>1 DEF IInv, TypeOK
  <2>1. CASE start
    <3>1. server[login] = "none"
      BY <1>1, <2>1 DEF start, IInv, InTurn
    <3> QED BY <1>1, <2>a, <2>1, <3>1 DEF start, Overlong
  <2>2. ASSUME NEW j \in LoginIds, ServerStep(j) PROVE promise'[i] = Exception
    <3>1. ServerKinds(j)
      BY <1>1, <2>2, ServerStepKinds DEF IInv
    <3>2. j = i
      BY <1>1, <2>a, <3>1 DEF ServerKinds, Bind, BindFails, Accept, Errs, Takes,
         ReadsOn, Reply, Delivers, Closes
    <3>3. Errs(i)
      BY <1>1, <2>2, <3>2, OverlongErrs DEF IInv
    <3> QED BY <2>b, <3>3 DEF Errs
  <2>3. CASE FutureReady \/ Reauthenticate \/ BrowserStep \/ OtherProgram
             \/ Finished \/ UNCHANGED vars
    BY <1>1, <2>3 DEF FutureReady, Reauthenticate, BrowserStep, Open, Send, Close,
       OtherProgram, Finished, othersOnly, vars
  <2> QED BY <1>1, <2>1, <2>2, <2>3 DEF Next, CallerStep
<1>2. IInv /\ [Next]_vars =>
        [\A i \in LoginIds :
           Overlong(i) /\ server'[i] # server[i] => promise'[i] = Exception]_vars
  BY <1>1
<1> QED
  BY <1>2, Invariance, PTL DEF Spec, OverlongIsRefused

\* No promise is completed twice, and no error but that of the bind escapes: the
\* port is then held by another program or by an earlier login's own server.
THEOREM OneOutcome == Spec => []AbortsOnlyWhenPortTaken
<1>1. IInv => AbortsOnlyWhenPortTaken
  BY DEF IInv
<1> QED
  BY <1>1, Invariance, PTL

\* Success is shown to the user only for a token the program has.
THEOREM HonestPage == Spec => []PageMeansToken
<1>1. IInv => PageMeansToken
  BY DEF IInv
<1> QED
  BY <1>1, Invariance, PTL

=============================================================================
