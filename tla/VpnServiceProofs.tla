--------------------------- MODULE VpnServiceProofs ---------------------------
(***************************************************************************)
(* Proofs about the GTK program, for any number of clicks and clients, any *)
(* length of the queues and any profiles.                                  *)
(***************************************************************************)
EXTENDS VpnService, TLAPS

-----------------------------------------------------------------------------
(* The inductive invariant.                                                *)

\* Clients are created in order, and one that was not created has nothing.
BornInOrder ==
  \A o \in Objects :
    object[o].life = "unborn" =>
      /\ object[o] = NoObject
      /\ \A q \in Objects : q > o => object[q].life = "unborn"

\* on_status_change() runs for a client that exists or has existed.
HandlesTheBorn ==
  handler # NoSignal => object[handler.of].life # "unborn"

\* Until Phase 2 calls Connect, its client has no session and no subscription.
NotYetStarted ==
  worker.pc \in {"phase1", "saml", "phase2_call"} =>
    object[self].session = "none" /\ ~object[self].subscribed

HasBeenUp == \E o \in Objects : object[o].session \in {"up", "down"}

Shows(states) == \E i \in 1..Len(states) : states[i] = "Connected"

Tells(signals) == \E i \in 1..Len(signals) : signals[i].status = "connected"

\* "Connected" is shown, or on its way to the screen.
Announced ==
  \/ screen.state = "Connected"
  \/ Shows(events)
  \/ Tells(inbox)
  \/ handler # NoSignal /\ handler.status = "connected"

OnlyTheTruth == Announced => HasBeenUp \/ quoted

\* Whose the clients are.
Ownership ==
  /\ OwnClientIsLive
  /\ OnlyConnectLosesAClient
  /\ BornInOrder
  /\ HandlesTheBorn

IInv ==
  /\ TypeOK
  /\ Ownership
  /\ NotYetStarted
  /\ OnlyTheTruth

-----------------------------------------------------------------------------
(* Log lines and the events they give rise to.                             *)

\* A line gives rise to one event at most, and to "Connected" only if it has
\* the words for it.
LEMMA ReadsStates ==
  ASSUME NEW line
  PROVE  /\ Reads(line) \in Seq(States)
         /\ Shows(Reads(line)) => "up" \in line
<1>1. ASSUME NEW s \in States
      PROVE  <<s>> \in Seq(States) /\ (Shows(<<s>>) => s = "Connected")
  BY DEF Shows
<1>2. <<>> \in Seq(States) /\ ~Shows(<<>>)
  BY DEF Shows
<1>3. {"Connected", "Error", "NeedReauth", "Idle"} \subseteq States
  BY DEF States
<1>4. CASE "up" \in line
  <2>1. Reads(line) = <<"Connected">>
    BY <1>4 DEF Reads
  <2> QED BY <1>1, <1>3, <1>4, <2>1
<1>5. ASSUME "up" \notin line
      PROVE  Reads(line) \in Seq(States) /\ ~Shows(Reads(line))
  <2>1. Reads(line) \in {<<"Error">>, <<"NeedReauth">>, <<"Idle">>, <<>>}
    BY <1>5 DEF Reads
  <2>2. /\ <<"Error">> \in Seq(States) /\ ~Shows(<<"Error">>)
        /\ <<"NeedReauth">> \in Seq(States) /\ ~Shows(<<"NeedReauth">>)
        /\ <<"Idle">> \in Seq(States) /\ ~Shows(<<"Idle">>)
    BY <1>1, <1>3
  <2> QED BY <1>2, <2>1, <2>2
<1> QED
  BY <1>4, <1>5

\* The queue of events shows what it showed and what is appended.
LEMMA SendsShows ==
  ASSUME NEW s \in Seq(States), NEW t \in Seq(States)
  PROVE  /\ s \o t \in Seq(States)
         /\ Shows(s \o t) => Shows(s) \/ Shows(t)
BY DEF Shows

\* One state that is emitted.
LEMMA EmitShows ==
  ASSUME TypeOK, NEW s \in States, emit(s)
  PROVE  /\ events' \in Seq(States)
         /\ quotes' \in 0..MaxQuotes /\ quoted' \in BOOLEAN
         /\ Shows(events)' => Shows(events) \/ s = "Connected"
<1>0. events \in Seq(States) /\ quotes \in 0..MaxQuotes /\ quoted \in BOOLEAN
  BY DEF TypeOK
<1>1. <<s>> \in Seq(States) /\ (Shows(<<s>>) => s = "Connected")
  BY DEF Shows
<1>2. Shows(events)' <=> Shows(events')
  BY DEF Shows
<1>3. events' = events \o <<s>> /\ quotes' = quotes /\ quoted' = quoted
  BY DEF emit, Sends
<1> QED
  BY <1>0, <1>1, <1>2, <1>3, SendsShows

\* One line that the program has written itself.
LEMMA LogShows ==
  ASSUME TypeOK, NEW line, emit_log(line)
  PROVE  /\ events' \in Seq(States)
         /\ quotes' \in 0..MaxQuotes /\ quoted' \in BOOLEAN
<1>0. events \in Seq(States) /\ quotes \in 0..MaxQuotes /\ quoted \in BOOLEAN
  BY DEF TypeOK
<1>1. events' = events \o Reads(line) /\ quotes' = quotes /\ quoted' = quoted
  BY DEF emit_log, Sends
<1> QED
  BY <1>0, <1>1, ReadsStates, SendsShows

\* Words that are not a line's own are remembered.
LEMMA QuotesType ==
  ASSUME TypeOK, NEW words, Quotes(words)
  PROVE  /\ quotes' \in 0..MaxQuotes /\ quoted' \in BOOLEAN
         /\ quoted \/ "up" \in words => quoted'
<1>1. quotes \in 0..MaxQuotes /\ quoted \in BOOLEAN /\ MaxQuotes \in Nat
  BY VpnServiceAssumption DEF TypeOK
<1>2. /\ quotes' \in {quotes, quotes + 1} /\ quotes' <= MaxQuotes
      /\ quoted' = (quoted \/ "up" \in words)
  BY DEF Quotes
<1>3. quotes' \in 0..MaxQuotes
  BY <1>1, <1>2
<1>4. quoted' \in BOOLEAN /\ (quoted \/ "up" \in words => quoted')
  BY <1>2
<1> QED
  BY <1>3, <1>4

\* One line with a text: it shows "Connected" if that is its own word, or
\* because the text quotes it.
LEMMA TextShows ==
  ASSUME TypeOK, NEW own, emit_text(own)
  PROVE  /\ events' \in Seq(States)
         /\ quotes' \in 0..MaxQuotes /\ quoted' \in BOOLEAN
         /\ quoted => quoted'
         /\ Shows(events)' => Shows(events) \/ "up" \in own \/ quoted'
<1>0. events \in Seq(States)
  BY DEF TypeOK
<1>1. PICK text \in Texts :
        events' = events \o Reads(own \cup text) /\ Quotes(text \ own)
  BY DEF emit_text, Sends
<1>2. Shows(events)' <=> Shows(events')
  BY DEF Shows
<1>3. /\ events' \in Seq(States)
      /\ Shows(events') => Shows(events) \/ "up" \in own \cup text
  BY <1>0, <1>1, ReadsStates, SendsShows
<1> QED
  BY <1>1, <1>2, <1>3, QuotesType

-----------------------------------------------------------------------------
(* Signals.                                                                *)

\* What one step of the user interface's thread with a signal does: it handles
\* a message of a client that is subscribed or whose signal was dispatched, and
\* the words of a success are the message's own only if the signal says so.
Handles(o, status, own, line) ==
  /\ Handled(o, status, own, line)
  /\ line \in {<<>>, Reads({"down"})}
  /\ "up" \in own => status = "connected"
  /\ status = "connected" => handler # NoSignal /\ handler.status = "connected"
  /\ object[o].subscribed \/ (handler # NoSignal /\ handler.of = o)

LEMMA SignalHandles ==
  ASSUME TypeOK, on_status_change \/ \E o \in Objects : OtherSignal(o)
  PROVE  \E o \in Objects : \E status, own, line : Handles(o, status, own, line)
<1>1. CASE on_status_change
  <2>1. handler # NoSignal /\ handler.of \in Objects /\ handler.status \in Statuses
    BY <1>1 DEF on_status_change, TypeOK, Signals
  <2>2. PICK own \in SUBSET Phrases(handler.status),
             line \in OwnLine(handler.status, object[handler.of].connected) :
               Handled(handler.of, handler.status, own, line)
    BY <1>1 DEF on_status_change
  <2>3. "up" \in own => handler.status = "connected"
    BY <2>1, <2>2 DEF Phrases, Statuses
  <2>4. line \in {<<>>, Reads({"down"})}
    BY <2>2 DEF OwnLine
  <2> QED
    BY <2>1, <2>2, <2>3, <2>4 DEF Handles
<1>2. ASSUME NEW o \in Objects, OtherSignal(o)
      PROVE  Handles(o, "other", {}, <<>>)
  BY <1>2 DEF OtherSignal, Handles
<1> QED
  BY <1>1, <1>2

\* The handler changes one flag of one client.
LEMMA HandledObject ==
  ASSUME TypeOK, NEW o \in Objects, NEW status, NEW own, NEW line,
         Handled(o, status, own, line)
  PROVE  /\ object' \in [Objects -> ObjectType]
         /\ \A q \in Objects \ {o} : object'[q] = object[q]
         /\ object'[o].life = object[o].life
         /\ object'[o].session = object[o].session
         /\ object'[o].subscribed = object[o].subscribed
<1>1. object \in [Objects -> ObjectType] /\ object[o] \in ObjectType
  BY DEF TypeOK
<1>2. object[o].connected \in BOOLEAN
  BY <1>1 DEF ObjectType
<1>3. PICK c \in BOOLEAN : object' = [object EXCEPT ![o].connected = c]
  BY <1>2 DEF Handled, SetsConnected
<1>4. object' = [object EXCEPT ![o] = [object[o] EXCEPT !.connected = c]]
  BY <1>1, <1>3
<1>5. [object[o] EXCEPT !.connected = c] \in ObjectType
  BY <1>1 DEF ObjectType
<1> QED
  BY <1>1, <1>4, <1>5 DEF ObjectType

\* The lines of a signal.
LEMMA HandledShows ==
  ASSUME TypeOK, NEW o, NEW status, NEW own, "up" \in own => status = "connected",
         NEW line \in {<<>>, Reads({"down"})}, Handled(o, status, own, line)
  PROVE  /\ events' \in Seq(States)
         /\ quotes' \in 0..MaxQuotes /\ quoted' \in BOOLEAN
         /\ quoted => quoted'
         /\ Shows(events)' => Shows(events) \/ status = "connected" \/ quoted'
<1>0. events \in Seq(States)
  BY DEF TypeOK
<1>1. PICK text \in Texts : /\ events' = events \o Reads(own \cup text) \o line
                            /\ Quotes(text \ own)
  BY DEF Handled
<1>2. line \in Seq(States) /\ ~Shows(line)
  <2>1. <<>> \in Seq(States) /\ ~Shows(<<>>)
    BY DEF Shows
  <2>2. Reads({"down"}) \in Seq(States) /\ ~Shows(Reads({"down"}))
    BY ReadsStates
  <2> QED BY <2>1, <2>2
<1>3. /\ events \o Reads(own \cup text) \in Seq(States)
      /\ Shows(events \o Reads(own \cup text)) =>
           Shows(events) \/ "up" \in own \cup text
  BY <1>0, ReadsStates, SendsShows
<1>4. events' \in Seq(States) /\ (Shows(events') => Shows(events) \/ "up" \in own \cup text)
  BY <1>1, <1>2, <1>3, SendsShows
<1>5. Shows(events)' <=> Shows(events')
  BY DEF Shows
<1> QED
  BY <1>1, <1>4, <1>5, QuotesType

-----------------------------------------------------------------------------
(* Type correctness.                                                       *)

\* A record of a client with one field changed.
LEMMA ObjectFields ==
  ASSUME NEW r \in ObjectType
  PROVE  /\ [r EXCEPT !.connected = TRUE] \in ObjectType
         /\ \A s \in {"started", "up", "failed", "down"} :
              [r EXCEPT !.session = s] \in ObjectType
         /\ [r EXCEPT !.life = "freed", !.subscribed = FALSE] \in ObjectType
         /\ [r EXCEPT !.subscribed = TRUE, !.session = "started"] \in ObjectType
         /\ [r EXCEPT !.life = "live"] \in ObjectType
         /\ [r EXCEPT !.life = "live", !.core = "dialling"] \in ObjectType
         /\ [r EXCEPT !.core = "ending", !.challenged = TRUE] \in ObjectType
         /\ [r EXCEPT !.core = "ending"] \in ObjectType
         /\ [r EXCEPT !.core = "exited"] \in ObjectType
BY DEF ObjectType, Cores

\* The request to end a session keeps the clients typed.
LEMMA AskedType ==
  ASSUME object \in [Objects -> ObjectType], NEW o, NEW f \in AskedToEnd(o)
  PROVE  f \in [Objects -> ObjectType]
<1>1. CASE o \in Objects
  <2>1. object[o] \in ObjectType
    BY <1>1
  <2>2. /\ [object EXCEPT ![o].session = "down"] \in [Objects -> ObjectType]
        /\ [object EXCEPT ![o].session = "failed"] \in [Objects -> ObjectType]
        /\ [object EXCEPT ![o].session = @] \in [Objects -> ObjectType]
    BY <1>1, <2>1, ObjectFields DEF ObjectType
  <2> QED
    BY <2>1, <2>2 DEF AskedToEnd
<1>2. CASE o \notin Objects
  BY <1>2 DEF AskedToEnd
<1> QED BY <1>1, <1>2

LEMMA InitType == Init => TypeOK
<1> SUFFICES ASSUME Init PROVE TypeOK
  OBVIOUS
<1>1. object \in [Objects -> ObjectType]
  BY DEF Init, NoObject, ObjectType, Cores
<1>2. /\ screen \in [state : States, active : Profiles \cup {None}]
      /\ worker \in [pc : Points, object : Objects \cup {None}]
  BY DEF Init, States, Points
<1>3. clicks \in 0..MaxClicks /\ quotes \in 0..MaxQuotes
  BY VpnServiceAssumption DEF Init
<1>4. SamlTypeOK
  BY DEF Init, SamlInit, SamlTypeOK
<1>5. /\ cmds \in Seq({"Connect", "Disconnect"})
      /\ events \in Seq(States)
      /\ inbox \in Seq(Signals)
  BY DEF Init
<1> QED
  BY <1>1, <1>2, <1>3, <1>4, <1>5 DEF Init, TypeOK

\* The service's thread, Phase 1.
LEMMA LoginType ==
  ASSUME TypeOK,
         \/ \E o \in Objects : StartConnect(o)
         \/ Phase1Returns \/ Phase1Fails \/ CaptureReturns \/ CaptureTimesOut
  PROVE  TypeOK'
<1> USE DEF TypeOK, Goes, Points, LoginPoints
<1>0. {"Connecting", "WaitingSaml"} \subseteq States
  BY DEF States
<1>1. ASSUME NEW o \in Objects, StartConnect(o)
      PROVE  TypeOK'
  <2>1. object[o] \in ObjectType
    OBVIOUS
  <2>2. object' \in [Objects -> ObjectType]
    BY <1>1, <2>1, ObjectFields DEF StartConnect
  <2>3. /\ events' \in Seq(States)
        /\ quotes' \in 0..MaxQuotes /\ quoted' \in BOOLEAN
    BY <1>0, <1>1, EmitShows DEF StartConnect
  <2>4. cmds' \in Seq({"Connect", "Disconnect"})
    BY <1>1 DEF StartConnect
  <2> QED
    BY <1>1, <2>2, <2>3, <2>4
       DEF StartConnect, uiVars, eventVars, samlVars, SamlTypeOK
<1>2. CASE Phase1Returns
  <2>1. /\ events' \in Seq(States)
        /\ quotes' \in 0..MaxQuotes /\ quoted' \in BOOLEAN
    BY <1>0, <1>2, EmitShows DEF Phase1Returns
  <2> QED
    BY <1>2, <2>1
       DEF Phase1Returns, uiVars, eventVars, samlVars, SamlTypeOK, Bind, CannotBind
<1>3. CASE Phase1Fails
  BY <1>3 DEF Phase1Fails, uiVars, eventVars, samlVars, SamlTypeOK
<1>4. CASE CaptureReturns
  <2>1. /\ events' \in Seq(States)
        /\ quotes' \in 0..MaxQuotes /\ quoted' \in BOOLEAN
    BY <1>0, <1>4, EmitShows DEF CaptureReturns
  <2> QED
    BY <1>4, <2>1
       DEF CaptureReturns, uiVars, eventVars, SamlTypeOK, Captured, Returns
<1>5. CASE CaptureTimesOut
  BY <1>5 DEF CaptureTimesOut, uiVars, eventVars, SamlTypeOK, TimedOut, Returns
<1> QED
  BY <1>1, <1>2, <1>3, <1>4, <1>5

\* The service's thread, Phase 2.
LEMMA Phase2Type ==
  ASSUME TypeOK,
         \/ Phase2Starts \/ Phase2Returns \/ Phase2Polled \/ Phase2Throws
         \/ LogsError \/ EmitsError \/ Phase2Ends
  PROVE  TypeOK'
<1> USE DEF TypeOK, Goes, Points, LoginPoints
<1>0. "Error" \in States
  BY DEF States
<1>a. \A o \in Objects : object[o] \in ObjectType
  OBVIOUS
<1>1. CASE Phase2Starts
  <2>1. ASSUME NEW o \in Objects,
               object' = [object EXCEPT ![o].subscribed = TRUE,
                                        ![o].session = "started"]
        PROVE  object' \in [Objects -> ObjectType]
    <3>1. object' = [object EXCEPT ![o] = [object[o] EXCEPT
                       !.subscribed = TRUE, !.session = "started"]]
      BY <2>1, <1>a DEF ObjectType
    <3> QED BY <3>1, <1>a, ObjectFields
  <2>2. object' \in [Objects -> ObjectType]
    BY <1>1, <2>1 DEF Phase2Starts
  <2> QED
    BY <1>1, <2>2 DEF Phase2Starts, uiVars, eventVars, samlVars, SamlTypeOK
<1>2. CASE Phase2Returns
  <2>1. object' \in [Objects -> ObjectType]
    BY <1>2, <1>a, ObjectFields DEF Phase2Returns
  <2> QED
    BY <1>2, <2>1 DEF Phase2Returns, uiVars, eventVars, samlVars, SamlTypeOK
<1>3. CASE Phase2Polled
  <2>1. object' \in [Objects -> ObjectType]
    BY <1>3, <1>a, ObjectFields DEF Phase2Polled
  <2>2. /\ events' \in Seq(States)
        /\ quotes' \in 0..MaxQuotes /\ quoted' \in BOOLEAN
    BY <1>3, LogShows DEF Phase2Polled
  <2> QED
    BY <1>3, <2>1, <2>2
       DEF Phase2Polled, uiVars, eventVars, samlVars, SamlTypeOK
<1>4. CASE Phase2Throws
  <2>1. object' \in [Objects -> ObjectType]
    BY <1>4, AskedType DEF Phase2Throws
  <2> QED
    BY <1>4, <2>1 DEF Phase2Throws, uiVars, eventVars, samlVars, SamlTypeOK
<1>5. CASE LogsError
  <2>1. /\ events' \in Seq(States)
        /\ quotes' \in 0..MaxQuotes /\ quoted' \in BOOLEAN
    BY <1>5, TextShows DEF LogsError
  <2> QED
    BY <1>5, <2>1 DEF LogsError, uiVars, eventVars, samlVars, SamlTypeOK
<1>6. CASE EmitsError
  <2>1. /\ events' \in Seq(States)
        /\ quotes' \in 0..MaxQuotes /\ quoted' \in BOOLEAN
    BY <1>0, <1>6, EmitShows DEF EmitsError
  <2> QED
    BY <1>6, <2>1 DEF EmitsError, uiVars, eventVars, samlVars, SamlTypeOK
<1>7. CASE Phase2Ends
  BY <1>7 DEF Phase2Ends, uiVars, eventVars, samlVars, SamlTypeOK
<1> QED
  BY <1>1, <1>2, <1>3, <1>4, <1>5, <1>6, <1>7

\* The service's thread, Disconnect.
LEMMA DisconnectType ==
  ASSUME TypeOK,
         StartDisconnect \/ Disconnects \/ Frees \/ EmitsIdle
  PROVE  TypeOK'
<1> USE DEF TypeOK, Goes, Points, LoginPoints
<1>0. {"Disconnecting", "Idle"} \subseteq States
  BY DEF States
<1>1. CASE StartDisconnect
  <2>1. /\ events' \in Seq(States)
        /\ quotes' \in 0..MaxQuotes /\ quoted' \in BOOLEAN
    BY <1>0, <1>1, EmitShows DEF StartDisconnect
  <2>2. cmds' \in Seq({"Connect", "Disconnect"})
    BY <1>1 DEF StartDisconnect
  <2> QED
    BY <1>1, <2>1, <2>2
       DEF StartDisconnect, AfterTake, Taken, uiVars, eventVars, samlVars,
           SamlTypeOK
<1>2. CASE Disconnects
  <2>1. object' \in [Objects -> ObjectType]
    BY <1>2, AskedType DEF Disconnects
  <2> QED
    BY <1>2, <2>1 DEF Disconnects, uiVars, eventVars, samlVars, SamlTypeOK
<1>3. CASE Frees
  <2>1. \A o \in Objects : object[o] \in ObjectType
    OBVIOUS
  <2>2. object' \in [Objects -> ObjectType]
    BY <1>3, <2>1, ObjectFields DEF Frees
  <2> QED
    BY <1>3, <2>2 DEF Frees, uiVars, eventVars, samlVars, SamlTypeOK
<1>4. CASE EmitsIdle
  <2>1. /\ events' \in Seq(States)
        /\ quotes' \in 0..MaxQuotes /\ quoted' \in BOOLEAN
    BY <1>0, <1>4, EmitShows DEF EmitsIdle
  <2> QED
    BY <1>4, <2>1 DEF EmitsIdle, uiVars, eventVars, samlVars, SamlTypeOK
<1> QED
  BY <1>1, <1>2, <1>3, <1>4

\* The user interface's thread.
LEMMA InterfaceType ==
  ASSUME TypeOK,
         \/ \E p \in Profiles : Click(p)
         \/ HandleEvent \/ SignalDispatched \/ on_status_change
         \/ \E o \in Objects : OtherSignal(o)
  PROVE  TypeOK'
<1> USE DEF TypeOK
<1>1. ASSUME NEW p \in Profiles, Click(p)
      PROVE  TypeOK'
  <2>1. clicks' \in 0..MaxClicks
    BY <1>1, VpnServiceAssumption DEF Click
  <2>2. screen' \in [state : States, active : Profiles \cup {None}]
    BY <1>1 DEF Click
  <2>3. cmds' \in Seq({"Connect", "Disconnect"})
    BY <1>1 DEF Click
  <2> QED
    BY <1>1, <2>1, <2>2, <2>3
       DEF Click, eventVars, serviceVars, samlVars, SamlTypeOK
<1>2. CASE HandleEvent
  <2>1. Head(events) \in States /\ Tail(events) \in Seq(States)
    BY <1>2 DEF HandleEvent
  <2>2. sensitive' \in BOOLEAN
    BY <1>2 DEF HandleEvent, Sensitive, is_busy
  <2>3. screen' \in [state : States, active : Profiles \cup {None}]
    BY <1>2, <2>1 DEF HandleEvent
  <2> QED
    BY <1>2, <2>1, <2>2, <2>3
       DEF HandleEvent, serviceVars, samlVars, SamlTypeOK
<1>3. CASE SignalDispatched
  <2>1. Head(inbox) \in Signals /\ Tail(inbox) \in Seq(Signals)
    BY <1>3 DEF SignalDispatched
  <2> QED
    BY <1>3, <2>1
       DEF SignalDispatched, uiVars, eventVars, serviceVars, samlVars, SamlTypeOK
<1>4. CASE on_status_change \/ \E o \in Objects : OtherSignal(o)
  <2>1. PICK o \in Objects : \E status, own, line : Handles(o, status, own, line)
    BY <1>4, SignalHandles
  <2>2. PICK status, own, line : Handles(o, status, own, line)
    BY <2>1
  <2>3. object' \in [Objects -> ObjectType]
    BY <2>2, HandledObject DEF Handles
  <2>4. /\ events' \in Seq(States)
        /\ quotes' \in 0..MaxQuotes /\ quoted' \in BOOLEAN
    BY <2>2, HandledShows DEF Handles
  <2>5. crashed' \in BOOLEAN /\ handler' \in Signals \cup {NoSignal}
    BY <1>4 DEF on_status_change, OtherSignal, Survives
  <2>6. UNCHANGED <<uiVars, cmds, serviceVars, inbox, samlVars>>
    BY <1>4 DEF on_status_change, OtherSignal
  <2> QED
    BY <2>3, <2>4, <2>5, <2>6 DEF uiVars, serviceVars, samlVars, SamlTypeOK
<1> QED
  BY <1>1, <1>2, <1>3, <1>4

\* The threads of the cores, the services and the browser.
LEMMA OthersType ==
  ASSUME TypeOK,
         \/ \E o \in Objects : CoreStep(o) \/ Backend(o)
         \/ Browser \/ Quiet
  PROVE  TypeOK'
<1> USE DEF TypeOK
<1>a. \A o \in Objects : object[o] \in ObjectType
  OBVIOUS
<1>1. ASSUME NEW o \in Objects, CoreAnswered(o)
      PROVE  TypeOK'
  <2>1. object' \in [Objects -> ObjectType]
    <3>1. CASE object' = [object EXCEPT ![o].core = "ending",
                                        ![o].challenged = TRUE]
      <4>1. object' = [object EXCEPT ![o] = [object[o] EXCEPT
                         !.core = "ending", !.challenged = TRUE]]
        BY <1>a, <3>1 DEF ObjectType
      <4> QED BY <1>a, <4>1, ObjectFields
    <3>2. CASE object' = [object EXCEPT ![o].core = "ending"]
      BY <1>a, <3>2, ObjectFields
    <3> QED BY <1>1, <3>1, <3>2 DEF CoreAnswered
  <2>2. /\ events' \in Seq(States)
        /\ quotes' \in 0..MaxQuotes /\ quoted' \in BOOLEAN
    BY <1>1, TextShows DEF CoreAnswered
  <2> QED
    BY <1>1, <2>1, <2>2
       DEF CoreAnswered, Survives, uiVars, eventVars, serviceVars, samlVars,
           SamlTypeOK
<1>2. ASSUME NEW o \in Objects, CoreDisconnected(o)
      PROVE  TypeOK'
  <2>1. object' \in [Objects -> ObjectType]
    BY <1>2, <1>a, ObjectFields DEF CoreDisconnected
  <2>2. /\ events' \in Seq(States)
        /\ quotes' \in 0..MaxQuotes /\ quoted' \in BOOLEAN
    BY <1>2, TextShows DEF CoreDisconnected
  <2> QED
    BY <1>2, <2>1, <2>2
       DEF CoreDisconnected, Survives, uiVars, eventVars, serviceVars,
           samlVars, SamlTypeOK
<1>6. ASSUME NEW o \in Objects, CoreLogs(o)
      PROVE  TypeOK'
  <2>1. /\ events' \in Seq(States)
        /\ quotes' \in 0..MaxQuotes /\ quoted' \in BOOLEAN
    BY <1>6, TextShows DEF CoreLogs
  <2> QED
    BY <1>6, <2>1
       DEF CoreLogs, Survives, uiVars, eventVars, serviceVars, samlVars,
           SamlTypeOK
<1>3. ASSUME NEW o \in Objects, Backend(o)
      PROVE  TypeOK'
  <2>1. PICK from, to, status :
          /\ to \in {"up", "failed", "down"} /\ status \in Statuses
          /\ SessionGoes(o, from, to, status)
    BY <1>3 DEF Backend, Statuses
  <2>2. [of |-> o, status |-> status] \in Signals
    BY <2>1 DEF Signals
  <2>3. inbox' \in Seq(Signals)
    <3>1. \/ inbox' = inbox
          \/ inbox' = Append(inbox, [of |-> o, status |-> status])
      BY <2>1 DEF SessionGoes
    <3>2. inbox \in Seq(Signals)
      OBVIOUS
    <3>3. \A s \in Signals : Append(inbox, s) \in Seq(Signals)
      BY <3>2
    <3> HIDE DEF TypeOK
    <3> QED BY <2>2, <3>1, <3>2, <3>3
  <2>4. object' \in [Objects -> ObjectType]
    BY <2>1, <1>a, ObjectFields DEF SessionGoes
  <2> QED
    BY <2>1, <2>3, <2>4
       DEF SessionGoes, uiVars, eventVars, serviceVars, samlVars, SamlTypeOK
<1>4. CASE Browser
  BY <1>4
     DEF Browser, Request, Forwarded, uiVars, eventVars, serviceVars, SamlTypeOK
<1>5. CASE Quiet
  BY <1>5 DEF Quiet, vars, uiVars, eventVars, serviceVars, samlVars, SamlTypeOK
<1> QED
  BY <1>1, <1>2, <1>3, <1>4, <1>5, <1>6 DEF CoreStep

LEMMA NextType ==
  ASSUME TypeOK, [Next]_vars
  PROVE  TypeOK'
<1>1. CASE Next
  BY <1>1, LoginType, Phase2Type, DisconnectType, InterfaceType, OthersType
     DEF Next, MainLoop, ServiceStep
<1>2. CASE UNCHANGED vars
  BY <1>2
     DEF vars, uiVars, eventVars, serviceVars, samlVars, TypeOK, SamlTypeOK
<1> QED
  BY <1>1, <1>2

-----------------------------------------------------------------------------
(* Ownership.                                                              *)

\* A step that creates no client and frees none ...
KeepsLives ==
  \A o \in Objects : /\ object'[o].life = object[o].life
                     /\ object[o].life = "unborn" => object'[o] = object[o]

\* ... and leaves the mutex alone: the service's thread stays in a login, in a
\* disconnect, or leaves it.
Stays ==
  /\ handle' = handle
  /\ self' = self
  /\ worker'.pc \in LoginPoints => worker.pc \in LoginPoints
  /\ worker'.pc \in {"disconnect", "free"} <=> worker.pc \in {"disconnect", "free"}
  /\ KeepsLives

\* Such a step keeps every client where it is.
LEMMA OwnershipStays ==
  ASSUME TypeOK, TypeOK', Ownership, Stays, HandlesTheBorn'
  PROVE  Ownership'
<1>0. None \notin Objects
  BY VpnServiceAssumption DEF Objects
<1>1. OwnClientIsLive'
  <2>1. handle \in Objects \cup {None} /\ self \in Objects \cup {None}
    BY DEF TypeOK, self
  <2>2. handle' # None => object'[handle'].life = "live"
    BY <2>1 DEF Ownership, OwnClientIsLive, Stays, KeepsLives
  <2>3. worker'.pc \in LoginPoints =>
          self' # None /\ handle' = self' /\ object'[self'].life = "live"
    BY <2>1 DEF Ownership, OwnClientIsLive, Stays, KeepsLives
  <2>4. worker'.pc \in {"disconnect", "free"} =>
          self' # None /\ handle' = None /\ object'[self'].life = "live"
    BY <2>1 DEF Ownership, OwnClientIsLive, Stays, KeepsLives
  <2> QED
    BY <2>2, <2>3, <2>4 DEF OwnClientIsLive
<1>2. OnlyConnectLosesAClient'
  BY DEF Ownership, OnlyConnectLosesAClient, Stays, KeepsLives
<1>3. BornInOrder'
  BY DEF Ownership, BornInOrder, Stays, KeepsLives
<1> QED
  BY <1>1, <1>2, <1>3 DEF Ownership

\* openvpn_client_new(), and the pointer of an older client is overwritten.
LEMMA OwnershipConnect ==
  ASSUME TypeOK, TypeOK', Ownership, NEW o \in Objects, StartConnect(o)
  PROVE  Ownership'
<1> USE DEF Ownership
<1>1. /\ handle' = o
      /\ object[o] \in ObjectType
      /\ object'[o].life = "live"
      /\ \A q \in Objects \ {o} : object'[q] = object[q]
      /\ self' = o
      /\ worker'.pc \in {"phase1", "failed"}
  BY DEF StartConnect, TypeOK, self, ObjectType
<1>2. o \in 1..MaxClicks /\ o # None /\ MaxClicks \in Nat
  BY VpnServiceAssumption DEF Objects
<1>3. OwnClientIsLive'
  BY <1>1, <1>2 DEF OwnClientIsLive
<1>4. \A q \in Objects : q > o => object[q].life = "unborn"
  BY DEF BornInOrder, StartConnect
<1>5. OnlyConnectLosesAClient'
  <2> SUFFICES ASSUME NEW q \in Objects, object'[q].life = "live", q # o
               PROVE  \E z \in Objects : z > q /\ object'[z].life # "unborn"
    BY <1>1 DEF OnlyConnectLosesAClient
  <2>1. ~(q > o)
    BY <1>1, <1>4
  <2>2. o > q
    BY <1>2, <2>1 DEF Objects
  <2> QED
    BY <1>1, <2>2
<1>6. BornInOrder'
  <2> SUFFICES ASSUME NEW q \in Objects, object'[q].life = "unborn"
               PROVE  /\ object'[q] = NoObject
                      /\ \A z \in Objects : z > q => object'[z].life = "unborn"
    BY DEF BornInOrder
  <2>1. q # o /\ object[q].life = "unborn" /\ object'[q] = object[q]
    BY <1>1
  <2>2. ~(q < o)
    BY <2>1, <1>2 DEF StartConnect, Objects
  <2>3. \A z \in Objects : z > q => z # o
    BY <2>2 DEF Objects
  <2> QED
    BY <1>1, <2>1, <2>3 DEF BornInOrder
<1>7. HandlesTheBorn'
  <2>1. handler' = handler
    BY DEF StartConnect
  <2>2. handler # NoSignal => handler.of \in Objects
    BY DEF TypeOK, Signals
  <2> QED
    BY <1>1, <2>1, <2>2 DEF HandlesTheBorn
<1> QED
  BY <1>3, <1>5, <1>6, <1>7

\* Disconnect takes the pointer out of the mutex.
LEMMA OwnershipTake ==
  ASSUME TypeOK, TypeOK', Ownership, StartDisconnect
  PROVE  Ownership'
<1> USE DEF Ownership
<1>1. /\ handle' = None /\ self' = handle /\ object' = object
      /\ handler' = handler
      /\ worker'.pc = IF handle # None THEN "disconnect" ELSE "freed"
      /\ worker.pc = "recv"
  BY DEF StartDisconnect, Taken, AfterTake, self
<1>2. OwnClientIsLive'
  BY <1>1 DEF OwnClientIsLive, LoginPoints
<1>3. OnlyConnectLosesAClient'
  BY <1>1 DEF OnlyConnectLosesAClient, OwnClientIsLive
<1>4. BornInOrder' /\ HandlesTheBorn'
  BY <1>1 DEF BornInOrder, HandlesTheBorn
<1> QED
  BY <1>2, <1>3, <1>4

\* openvpn_client_free().
LEMMA OwnershipFree ==
  ASSUME TypeOK, TypeOK', Ownership, Frees
  PROVE  Ownership'
<1> USE DEF Ownership
<1>1. /\ self \in Objects /\ handle = None /\ object[self].life = "live"
      /\ object[self] \in ObjectType
  BY DEF Frees, Goes, OwnClientIsLive, TypeOK, self
<1>2. /\ handle' = None /\ self' = self
      /\ worker.pc = "free" /\ worker'.pc = "freed"
      /\ handler' = handler
      /\ object'[self].life = "freed"
      /\ \A o \in Objects \ {self} : object'[o] = object[o]
  BY <1>1 DEF Frees, Goes, TypeOK, self, ObjectType
<1>3. OwnClientIsLive'
  BY <1>2 DEF OwnClientIsLive, LoginPoints
<1>4. OnlyConnectLosesAClient'
  <2> SUFFICES ASSUME NEW o \in Objects, object'[o].life = "live"
               PROVE  \E q \in Objects : q > o /\ object'[q].life # "unborn"
    BY DEF OnlyConnectLosesAClient
  <2>1. o # self /\ object[o].life = "live"
    BY <1>2
  <2>2. PICK q \in Objects : q > o /\ object[q].life # "unborn"
    BY <1>1, <2>1, VpnServiceAssumption DEF OnlyConnectLosesAClient, Objects
  <2>3. object'[q].life # "unborn"
    BY <1>2, <2>2
  <2> QED
    BY <2>2, <2>3
<1>5. BornInOrder'
  BY <1>1, <1>2 DEF BornInOrder
<1>6. HandlesTheBorn'
  <2>1. handler # NoSignal => handler.of \in Objects
    BY DEF TypeOK, Signals
  <2> QED
    BY <1>1, <1>2, <2>1 DEF HandlesTheBorn
<1> QED
  BY <1>3, <1>4, <1>5, <1>6

\* So is a step that changes fields of one client that was created.
LEMMA UpdateKeeps ==
  ASSUME TypeOK, NEW o \in Objects, object[o].life # "unborn",
         \A q \in Objects \ {o} : object'[q] = object[q],
         object'[o].life = object[o].life
  PROVE  KeepsLives
BY DEF KeepsLives

\* Every other step stays.
LEMMA ServiceStays ==
  ASSUME TypeOK, Ownership,
         \/ Phase1Returns \/ Phase1Fails \/ CaptureReturns \/ CaptureTimesOut
         \/ Phase2Starts \/ Phase2Returns \/ Phase2Polled \/ Phase2Throws
         \/ LogsError \/ EmitsError \/ Phase2Ends \/ Disconnects \/ EmitsIdle
  PROVE  Stays /\ HandlesTheBorn'
<1> USE DEF Goes, self
<1>0. \A o \in Objects : object[o] \in ObjectType
  BY DEF TypeOK
<1>a. /\ handle \in Objects \cup {None}
      /\ self \in Objects \cup {None}
      /\ worker \in [pc : Points, object : Objects \cup {None}]
  BY DEF TypeOK
<1>b. /\ handle # None => handle \in Objects /\ object[handle].life = "live"
      /\ worker.pc \in {"phase2", "disconnect"} =>
           self \in Objects /\ object[self].life = "live"
  BY <1>a DEF Ownership, OwnClientIsLive, LoginPoints
<1>1. /\ handle' = handle /\ self' = self /\ handler' = handler
      /\ worker'.pc \in LoginPoints => worker.pc \in LoginPoints
      /\ worker'.pc \in {"disconnect", "free"}
           <=> worker.pc \in {"disconnect", "free"}
  BY <1>a DEF LoginPoints, Phase1Returns, Phase1Fails, CaptureReturns,
     CaptureTimesOut, Phase2Starts, Phase2Returns, Phase2Polled, Phase2Throws,
     LogsError, EmitsError, Phase2Ends, Disconnects, EmitsIdle
<1>2. KeepsLives
  <2>1. CASE object' = object
    BY <2>1 DEF KeepsLives
  <2>2. CASE Phase2Starts
    <3>1. CASE /\ handle # None
               /\ object' = [object EXCEPT ![handle].subscribed = TRUE,
                                           ![handle].session = "started"]
      <4>1. /\ \A q \in Objects \ {handle} : object'[q] = object[q]
            /\ object'[handle].life = object[handle].life
        BY <1>0, <1>b, <3>1 DEF TypeOK, ObjectType
      <4> QED BY <1>b, <3>1, <4>1, UpdateKeeps
    <3> QED BY <2>1, <2>2, <3>1 DEF Phase2Starts
  <2>3. CASE Phase2Returns \/ Phase2Polled
    <3>1. /\ self \in Objects /\ object[self].life = "live"
          /\ object' = [object EXCEPT ![self].connected = TRUE]
      BY <1>b, <2>3 DEF Phase2Returns, Phase2Polled
    <3>2. /\ \A q \in Objects \ {self} : object'[q] = object[q]
          /\ object'[self].life = object[self].life
      BY <1>0, <3>1 DEF TypeOK, ObjectType
    <3> QED BY <3>1, <3>2, UpdateKeeps
  <2>4. CASE Phase2Throws \/ Disconnects
    <3>1. self \in Objects /\ object[self].life = "live" /\ object' \in AskedToEnd(self)
      BY <1>b, <2>4 DEF Phase2Throws, Disconnects
    <3>2. /\ \A q \in Objects \ {self} : object'[q] = object[q]
          /\ object'[self].life = object[self].life
      BY <1>0, <3>1 DEF AskedToEnd, TypeOK, ObjectType
    <3> QED BY <3>1, <3>2, UpdateKeeps
  <2> QED
    BY <2>1, <2>2, <2>3, <2>4
       DEF Phase1Returns, Phase1Fails, CaptureReturns, CaptureTimesOut,
           LogsError, EmitsError, Phase2Ends, EmitsIdle
<1>3. HandlesTheBorn'
  <2>1. handler # NoSignal => handler.of \in Objects
    BY DEF TypeOK, Signals
  <2> QED
    BY <1>1, <1>2, <2>1 DEF Ownership, HandlesTheBorn, KeepsLives
<1> QED
  BY <1>1, <1>2, <1>3 DEF Stays

LEMMA OthersStay ==
  ASSUME TypeOK, Ownership,
         \/ \E p \in Profiles : Click(p)
         \/ HandleEvent \/ SignalDispatched \/ on_status_change
         \/ \E o \in Objects : OtherSignal(o) \/ CoreStep(o) \/ Backend(o)
         \/ Browser \/ Quiet \/ UNCHANGED vars
  PROVE  Stays /\ HandlesTheBorn'
<1>0. \A o \in Objects : object[o] \in ObjectType
  BY DEF TypeOK
<1>a. /\ handler # NoSignal => handler.of \in Objects
      /\ inbox # <<>> => Head(inbox) \in Signals
  <2>1. inbox \in Seq(Signals) /\ handler \in Signals \cup {NoSignal}
    BY DEF TypeOK
  <2>2. inbox # <<>> => Head(inbox) \in Signals
    BY <2>1
  <2> QED BY <2>1, <2>2 DEF Signals
<1>1. handle' = handle /\ worker' = worker
  BY DEF Click, HandleEvent, SignalDispatched, on_status_change, OtherSignal,
     CoreStep, CoreAnswered, CoreDisconnected, CoreLogs, Backend, SessionGoes,
     Browser, Quiet, vars, serviceVars
<1>2. KeepsLives
  <2>1. CASE object' = object
    BY <2>1 DEF KeepsLives
  <2>2. CASE on_status_change \/ \E o \in Objects : OtherSignal(o)
    <3>1. PICK o \in Objects : \E status, own, line : Handles(o, status, own, line)
      BY <2>2, SignalHandles
    <3>2. object[o].life # "unborn"
      BY <3>1 DEF Handles, Ownership, HandlesTheBorn, BornInOrder, NoObject
    <3>3. /\ \A q \in Objects \ {o} : object'[q] = object[q]
          /\ object'[o].life = object[o].life
      BY <3>1, HandledObject DEF Handles
    <3> QED BY <3>2, <3>3, UpdateKeeps
  <2>3. ASSUME NEW o \in Objects, CoreStep(o)
        PROVE  KeepsLives
    <3>1. object[o].core # "none"
      BY <2>3 DEF CoreStep, CoreAnswered, CoreDisconnected, CoreLogs
    <3>2. object[o].life # "unborn"
      BY <3>1 DEF Ownership, BornInOrder, NoObject
    <3>3. /\ \A q \in Objects \ {o} : object'[q] = object[q]
          /\ object'[o].life = object[o].life
      BY <1>0, <2>3
         DEF CoreStep, CoreAnswered, CoreDisconnected, CoreLogs, TypeOK,
             ObjectType
    <3> QED BY <3>2, <3>3, UpdateKeeps
  <2>4. ASSUME NEW o \in Objects, Backend(o)
        PROVE  KeepsLives
    <3>1. object[o].subscribed
      BY <2>4 DEF Backend, SessionGoes
    <3>2. object[o].life # "unborn"
      BY <3>1 DEF Ownership, BornInOrder, NoObject
    <3>3. PICK to : object' = [object EXCEPT ![o].session = to]
      BY <2>4 DEF Backend, SessionGoes
    <3>4. /\ \A q \in Objects \ {o} : object'[q] = object[q]
          /\ object'[o].life = object[o].life
      BY <1>0, <3>3 DEF TypeOK, ObjectType
    <3> QED BY <3>2, <3>4, UpdateKeeps
  <2> QED
    BY <2>1, <2>2, <2>3, <2>4
       DEF Click, HandleEvent, SignalDispatched, Browser, Quiet, vars
<1>3. HandlesTheBorn'
  <2>1. CASE handler' \in {handler, NoSignal}
    BY <1>2, <1>a, <2>1 DEF Ownership, HandlesTheBorn, KeepsLives
  <2>2. CASE SignalDispatched
    <3>1. Head(inbox).of \in Objects /\ object' = object
      BY <1>a, <2>2 DEF SignalDispatched, Signals
    <3>2. object[Head(inbox).of].subscribed =>
            object[Head(inbox).of].life # "unborn"
      BY <3>1 DEF Ownership, BornInOrder, NoObject
    <3> QED
      BY <2>2, <3>1, <3>2 DEF SignalDispatched, HandlesTheBorn
  <2> QED
    BY <2>1, <2>2
       DEF Click, HandleEvent, on_status_change, OtherSignal, CoreStep,
           CoreAnswered, CoreDisconnected, CoreLogs, Backend, SessionGoes,
           Browser, Quiet, vars
<1> QED
  BY <1>1, <1>2, <1>3 DEF Stays, self

LEMMA InitOwnership == Init => Ownership
BY DEF Init, Ownership, OwnClientIsLive, LoginPoints, OnlyConnectLosesAClient,
   BornInOrder, HandlesTheBorn, NoObject

LEMMA NextOwnership ==
  ASSUME TypeOK, Ownership, [Next]_vars
  PROVE  Ownership'
<1>0. TypeOK'
  BY NextType
<1>1. CASE \E o \in Objects : StartConnect(o)
  BY <1>0, <1>1, OwnershipConnect
<1>2. CASE StartDisconnect
  BY <1>0, <1>2, OwnershipTake
<1>3. CASE Frees
  BY <1>0, <1>3, OwnershipFree
<1>4. CASE Stays /\ HandlesTheBorn'
  BY <1>0, <1>4, OwnershipStays
<1> QED
  BY <1>1, <1>2, <1>3, <1>4, ServiceStays, OthersStay DEF Next, MainLoop, ServiceStep

-----------------------------------------------------------------------------
(* What is shown.                                                          *)

\* No session that has been up becomes one that has not.
Remembers ==
  \A o \in Objects :
    object[o].session \in {"up", "down"} => object'[o].session \in {"up", "down"}

\* A step that keeps Phase 2 from being started, or starts nothing.
LEMMA NextNotYetStarted ==
  ASSUME TypeOK, Ownership, NotYetStarted, [Next]_vars
  PROVE  NotYetStarted' /\ Remembers
<1>0. \A o \in Objects : object[o] \in ObjectType
  BY DEF TypeOK
<1>a. /\ worker \in [pc : Points, object : Objects \cup {None}]
      /\ handle \in Objects \cup {None}
      /\ handler # NoSignal => handler.of \in Objects
  BY DEF TypeOK, Signals
<1>b. worker.pc \in LoginPoints =>
        self \in Objects /\ handle = self /\ object[self].life = "live"
  BY <1>a DEF Ownership, OwnClientIsLive, self
<1>c. worker.pc = "disconnect" => self \in Objects
  BY <1>a DEF Ownership, OwnClientIsLive, self
<1> USE DEF NotYetStarted, Remembers
<1>1. ASSUME \A o \in Objects : /\ object'[o].session = object[o].session
                                /\ object'[o].subscribed = object[o].subscribed,
             worker' = worker
             \/ /\ self' = self
                /\ worker.pc \in {"phase1", "saml"}
             \/ worker'.pc \notin {"phase1", "saml", "phase2_call"}
      PROVE  NotYetStarted' /\ Remembers
  BY <1>b, <1>1 DEF LoginPoints, self
<1>2. ASSUME NEW o \in Objects, StartConnect(o)
      PROVE  NotYetStarted' /\ Remembers
  <2>1. object[o] = NoObject
    BY <1>2 DEF StartConnect, Ownership, BornInOrder
  <2>2. /\ \A q \in Objects : /\ object'[q].session = object[q].session
                              /\ object'[q].subscribed = object[q].subscribed
        /\ self' = o
    <3>1. \A q \in Objects \ {o} : object'[q] = object[q]
      BY <1>2 DEF StartConnect, TypeOK
    <3>2. /\ object'[o].session = object[o].session
          /\ object'[o].subscribed = object[o].subscribed
      <4>1. CASE object' = [object EXCEPT ![o].life = "live", ![o].core = "dialling"]
        BY <1>0, <4>1 DEF TypeOK, ObjectType
      <4>2. CASE object' = [object EXCEPT ![o].life = "live"]
        BY <1>0, <4>2 DEF TypeOK, ObjectType
      <4> QED BY <1>2, <4>1, <4>2 DEF StartConnect
    <3>3. self' = o
      BY <1>2 DEF StartConnect, self
    <3> QED BY <3>1, <3>2, <3>3
  <2> QED
    BY <2>1, <2>2 DEF NoObject
<1>3. CASE Phase2Starts
  <2>1. worker.pc = "phase2_call" /\ worker'.pc \in {"failed", "threw", "phase2"}
    BY <1>3, <1>a DEF Phase2Starts, Goes
  <2>2. object[self].session = "none" /\ handle = self /\ self \in Objects
    BY <1>b, <2>1 DEF LoginPoints
  <2>3. \A o \in Objects \ {self} : object'[o] = object[o]
    BY <1>3, <2>2 DEF Phase2Starts, TypeOK
  <2> QED
    BY <2>1, <2>2, <2>3
<1>4. ASSUME worker'.pc \notin {"phase1", "saml", "phase2_call"},
             NEW o \in Objects, object' \in AskedToEnd(o)
      PROVE  NotYetStarted' /\ Remembers
  <2>1. \A q \in Objects \ {o} : object'[q] = object[q]
    BY <1>4 DEF AskedToEnd, TypeOK
  <2>2. object[o].session \in {"up", "down"} => object'[o].session \in {"up", "down"}
    <3> DEFINE end == IF object[o].session = "up" THEN "down"
                      ELSE IF object[o].session = "started" THEN "failed"
                      ELSE object[o].session
    <3>1. \/ object' = object
          \/ object' = [object EXCEPT ![o].session = end]
      BY <1>4 DEF AskedToEnd
    <3>2. [object EXCEPT ![o].session = end][o].session = end
      BY <1>0 DEF TypeOK, ObjectType
    <3> QED BY <3>1, <3>2
  <2> QED
    BY <1>4, <2>1, <2>2
<1>5. CASE Disconnects \/ Phase2Throws
  <2>1. worker'.pc \in {"free", "threw"} /\ self \in Objects /\ object' \in AskedToEnd(self)
    BY <1>5, <1>a, <1>b, <1>c DEF Disconnects, Phase2Throws, Goes, LoginPoints
  <2> QED
    BY <1>4, <2>1
<1>6. CASE Frees
  <2>1. worker'.pc = "freed"
    BY <1>6, <1>a DEF Frees, Goes
  <2>2. \A o \in Objects : object'[o].session = object[o].session
    BY <1>0, <1>6 DEF Frees, TypeOK, ObjectType
  <2> QED
    BY <2>1, <2>2
<1>7. CASE \/ Phase1Returns \/ Phase1Fails \/ CaptureReturns \/ CaptureTimesOut
           \/ LogsError \/ EmitsError \/ Phase2Ends \/ StartDisconnect \/ EmitsIdle
  <2>1. object' = object
    BY <1>7
       DEF Phase1Returns, Phase1Fails, CaptureReturns, CaptureTimesOut,
           LogsError, EmitsError, Phase2Ends, StartDisconnect, EmitsIdle
  <2>2. \/ self' = self /\ worker.pc \in {"phase1", "saml"}
        \/ worker'.pc \notin {"phase1", "saml", "phase2_call"}
    BY <1>7, <1>a
       DEF Phase1Returns, Phase1Fails, CaptureReturns, CaptureTimesOut,
           LogsError, EmitsError, Phase2Ends, StartDisconnect, AfterTake,
           EmitsIdle, Goes, self
  <2> QED
    BY <1>1, <2>1, <2>2
<1>8. CASE Phase2Returns \/ Phase2Polled
  <2>1. worker'.pc = "returned" /\ object' = [object EXCEPT ![self].connected = TRUE]
    BY <1>8, <1>a DEF Phase2Returns, Phase2Polled, Goes
  <2>2. \A o \in Objects : object'[o].session = object[o].session
    BY <1>0, <2>1 DEF TypeOK, ObjectType
  <2> QED
    BY <2>1, <2>2
<1>9. ASSUME NEW o \in Objects, Backend(o)
      PROVE  NotYetStarted' /\ Remembers
  <2>1. object[o].subscribed /\ worker' = worker
    BY <1>9 DEF Backend, SessionGoes, serviceVars
  <2>2. PICK to \in {"up", "failed", "down"} :
          /\ object' = [object EXCEPT ![o].session = to]
          /\ to = "failed" => object[o].session \notin {"up", "down"}
    BY <1>9 DEF Backend, SessionGoes
  <2>3. \A q \in Objects \ {o} : object'[q] = object[q]
    BY <2>2 DEF TypeOK
  <2>4. object'[o].session = to
    BY <1>0, <2>2 DEF TypeOK, ObjectType
  <2> QED
    BY <1>b, <2>1, <2>2, <2>3, <2>4 DEF LoginPoints, self
<1>10. CASE \/ \E p \in Profiles : Click(p)
            \/ HandleEvent \/ SignalDispatched \/ on_status_change
            \/ \E o \in Objects : OtherSignal(o) \/ CoreStep(o)
            \/ Browser \/ Quiet \/ UNCHANGED vars
  <2>1. worker' = worker
    BY <1>10
       DEF Click, HandleEvent, SignalDispatched, on_status_change, OtherSignal,
           CoreStep, CoreAnswered, CoreDisconnected, CoreLogs, Browser, Quiet,
           vars, serviceVars
  <2>2. \A o \in Objects : /\ object'[o].session = object[o].session
                           /\ object'[o].subscribed = object[o].subscribed
    <3>1. CASE on_status_change \/ \E o \in Objects : OtherSignal(o)
      <4>1. PICK o \in Objects : \E status, own, line : Handles(o, status, own, line)
        BY <3>1, SignalHandles
      <4> QED BY <4>1, HandledObject DEF Handles
    <3>2. ASSUME NEW o \in Objects, CoreStep(o)
          PROVE  <2>2
      <4>1. \A q \in Objects \ {o} : object'[q] = object[q]
        BY <3>2 DEF CoreStep, CoreAnswered, CoreDisconnected, CoreLogs, TypeOK
      <4>2. /\ object'[o].session = object[o].session
            /\ object'[o].subscribed = object[o].subscribed
        BY <1>0, <3>2
           DEF CoreStep, CoreAnswered, CoreDisconnected, CoreLogs, TypeOK,
               ObjectType
      <4> QED BY <4>1, <4>2
    <3>3. CASE object' = object
      BY <3>3
    <3> QED
      BY <1>10, <3>1, <3>2, <3>3
         DEF Click, HandleEvent, SignalDispatched, Browser, Quiet, vars
  <2> QED
    BY <1>1, <2>1, <2>2
<1> QED
  BY <1>2, <1>3, <1>5, <1>6, <1>7, <1>8, <1>9, <1>10 DEF Next, MainLoop, ServiceStep

\* A step that announces nothing new, or something that was quoted.
LEMMA NothingNew ==
  ASSUME OnlyTheTruth, Remembers, quoted => quoted',
         Announced' => Announced \/ quoted'
  PROVE  OnlyTheTruth'
BY DEF OnlyTheTruth, Remembers, HasBeenUp

LEMMA NextOnlyTheTruth ==
  ASSUME TypeOK, Ownership, OnlyTheTruth, Remembers, [Next]_vars
  PROVE  OnlyTheTruth'
<1>a. events \in Seq(States) /\ inbox \in Seq(Signals)
  BY DEF TypeOK
<1>b. \A o \in Objects : object[o] \in ObjectType
  BY DEF TypeOK
<1>u. /\ UNCHANGED events => (Shows(events)' <=> Shows(events))
      /\ UNCHANGED inbox => (Tells(inbox)' <=> Tells(inbox))
  BY DEF Shows, Tells
<1>1. ASSUME UNCHANGED <<screen, inbox, handler>>,
             \E s \in States \ {"Connected"} : emit(s)
      PROVE  OnlyTheTruth'
  <2>1. Shows(events)' => Shows(events)
    BY <1>1, EmitShows
  <2>2. quoted' = quoted
    BY <1>1 DEF emit
  <2> QED
    BY <1>1, <1>u, <2>1, <2>2, NothingNew DEF Announced
<1>2. ASSUME UNCHANGED <<screen, inbox, handler>>,
             NEW own, "up" \notin own, emit_text(own)
      PROVE  OnlyTheTruth'
  <2>1. (quoted => quoted') /\ (Shows(events)' => Shows(events) \/ quoted')
    BY <1>2, TextShows
  <2> QED
    BY <1>2, <1>u, <2>1, NothingNew DEF Announced
<1>3. ASSUME UNCHANGED <<screen, events, quoted, inbox, handler>>
      PROVE  OnlyTheTruth'
  BY <1>3, <1>u, NothingNew DEF Announced
<1>4. CASE \/ \E o \in Objects : StartConnect(o)
           \/ Phase1Returns \/ CaptureReturns \/ EmitsError
           \/ StartDisconnect \/ EmitsIdle
  <2>1. UNCHANGED <<screen, inbox, handler>>
    BY <1>4 DEF StartConnect, Phase1Returns, CaptureReturns, EmitsError,
       StartDisconnect, EmitsIdle, uiVars
  <2>2. {"Connecting", "WaitingSaml", "Error", "Disconnecting", "Idle"}
          \subseteq States \ {"Connected"}
    BY DEF States
  <2> QED
    BY <1>1, <1>4, <2>1, <2>2 DEF StartConnect, Phase1Returns, CaptureReturns,
       EmitsError, StartDisconnect, EmitsIdle
<1>5. CASE \/ Phase1Fails \/ CaptureTimesOut \/ Phase2Starts \/ Phase2Returns
           \/ Phase2Throws \/ Phase2Ends \/ Disconnects \/ Frees
           \/ Browser \/ Quiet \/ UNCHANGED vars
  BY <1>3, <1>5
     DEF Phase1Fails, CaptureTimesOut, Phase2Starts, Phase2Returns,
         Phase2Throws, Phase2Ends, Disconnects, Frees, Browser, Quiet, vars,
         uiVars, eventVars
<1>6. CASE Phase2Polled
  <2>1. PICK o \in Objects : object[o].session = "up"
    <3>1. object[self].session = "up" /\ worker.pc = "phase2"
      BY <1>6 DEF Phase2Polled, Goes
    <3>2. self \in Objects
      BY <3>1 DEF Ownership, OwnClientIsLive, LoginPoints, TypeOK, self
    <3> QED
      BY <3>1, <3>2
  <2> QED
    BY <2>1 DEF Remembers, OnlyTheTruth, HasBeenUp
<1>7. CASE LogsError
  <2>1. UNCHANGED <<screen, inbox, handler>> /\ emit_text(ErrorLine)
    BY <1>7 DEF LogsError, uiVars
  <2>2. "up" \notin ErrorLine
    BY DEF ErrorLine
  <2> QED
    BY <1>2, <2>1, <2>2
<1>8. ASSUME NEW o \in Objects, CoreStep(o)
      PROVE  OnlyTheTruth'
  <2>1. UNCHANGED <<screen, inbox, handler>>
    BY <1>8 DEF CoreStep, CoreAnswered, CoreDisconnected, CoreLogs, uiVars
  <2>2. \E own \in {{}, {"error"}, {"reauth"}, {"down"}} : emit_text(own)
    BY <1>8 DEF CoreStep, CoreAnswered, CoreDisconnected, CoreLogs
  <2>3. \A own \in {{}, {"error"}, {"reauth"}, {"down"}} : "up" \notin own
    OBVIOUS
  <2> QED
    BY <1>2, <2>1, <2>2, <2>3
<1>9. ASSUME NEW p \in Profiles, Click(p)
      PROVE  OnlyTheTruth'
  <2>1. screen'.state = screen.state /\ UNCHANGED <<events, quoted, inbox, handler>>
    BY <1>9 DEF Click, TypeOK, eventVars
  <2> QED
    BY <1>u, <2>1, NothingNew DEF Announced
<1>10. CASE HandleEvent
  <2>1. /\ screen'.state = Head(events) /\ events' = Tail(events)
        /\ UNCHANGED <<quoted, inbox, handler>> /\ events # <<>>
    BY <1>10 DEF HandleEvent, TypeOK
  <2>2. Shows(Tail(events)) \/ Head(events) = "Connected" => Shows(events)
    BY <1>a, <2>1 DEF Shows
  <2>3. Shows(events)' <=> Shows(Tail(events))
    BY <2>1 DEF Shows
  <2> QED
    BY <1>u, <2>1, <2>2, <2>3, NothingNew DEF Announced
<1>11. CASE SignalDispatched
  <2>1. /\ handler' \in {Head(inbox), NoSignal} /\ inbox' = Tail(inbox)
        /\ UNCHANGED <<screen, events, quoted>> /\ inbox # <<>>
    BY <1>11 DEF SignalDispatched, uiVars, eventVars
  <2>2. Tells(Tail(inbox)) \/ Head(inbox).status = "connected" => Tells(inbox)
    BY <1>a, <2>1 DEF Tells
  <2>3. Tells(inbox)' <=> Tells(Tail(inbox))
    BY <2>1 DEF Tells
  <2> QED
    BY <1>u, <2>1, <2>2, <2>3, NothingNew DEF Announced
<1>12. CASE on_status_change \/ \E o \in Objects : OtherSignal(o)
  <2>1. PICK o \in Objects : \E status, own, line : Handles(o, status, own, line)
    BY <1>12, SignalHandles
  <2>2. PICK status, own, line : Handles(o, status, own, line)
    BY <2>1
  <2>3. /\ quoted => quoted'
        /\ Shows(events)' => Shows(events) \/ status = "connected" \/ quoted'
    BY <2>2, HandledShows DEF Handles
  <2>4. screen' = screen /\ inbox' = inbox /\ handler' \in {NoSignal, handler}
    BY <1>12 DEF on_status_change, OtherSignal, uiVars
  <2>5. status = "connected" => Announced
    BY <2>2 DEF Handles, Announced
  <2> QED
    BY <1>u, <2>3, <2>4, <2>5, NothingNew DEF Announced
<1>13. ASSUME NEW o \in Objects, Backend(o)
       PROVE  OnlyTheTruth'
  <2>1. PICK to, status :
          /\ object' = [object EXCEPT ![o].session = to]
          /\ inbox' \in {inbox, Append(inbox, [of |-> o, status |-> status])}
          /\ status = "connected" => to = "up"
          /\ UNCHANGED <<screen, events, quoted, handler>>
    BY <1>13 DEF Backend, SessionGoes, uiVars, eventVars
  <2>2. CASE to = "up"
    BY <1>b, <2>1, <2>2 DEF OnlyTheTruth, HasBeenUp, TypeOK, ObjectType
  <2>3. CASE to # "up"
    <3>1. Tells(Append(inbox, [of |-> o, status |-> status])) => Tells(inbox)
      BY <1>a, <2>1, <2>3 DEF Tells
    <3>2. Tells(inbox)' <=> Tells(inbox')
      BY DEF Tells
    <3> QED
      BY <1>u, <2>1, <3>1, <3>2, NothingNew DEF Announced
  <2> QED BY <2>2, <2>3
<1> QED
  BY <1>4, <1>5, <1>6, <1>7, <1>8, <1>9, <1>10, <1>11, <1>12, <1>13
     DEF Next, MainLoop, ServiceStep

LEMMA InitOnlyTheTruth == Init => NotYetStarted /\ OnlyTheTruth
BY DEF Init, NotYetStarted, OnlyTheTruth, Announced, Shows, Tells, NoSignal

-----------------------------------------------------------------------------
(* The theorems.                                                           *)

\* The inductive invariant holds in every state.
THEOREM Invariance == Spec => []IInv
<1>1. Init => IInv
  BY InitType, InitOwnership, InitOnlyTheTruth DEF IInv
<1>2. IInv /\ [Next]_vars => IInv'
  BY NextType, NextOwnership, NextNotYetStarted, NextOnlyTheTruth
     DEF IInv
<1> QED
  BY <1>1, <1>2, PTL DEF Spec

\* The type invariant.
THEOREM TypeCorrect == Spec => []TypeOK
<1>1. IInv => TypeOK
  BY DEF IInv
<1> QED
  BY <1>1, Invariance, PTL

\* No client is used by the service after it was freed, or while another one
\* is in its place.
THEOREM OwnClientLives == Spec => []OwnClientIsLive
<1>1. IInv => OwnClientIsLive
  BY DEF IInv, Ownership
<1> QED
  BY <1>1, Invariance, PTL

\* A client that is lost was overwritten by a later one.
THEOREM NoOtherLoss == Spec => []OnlyConnectLosesAClient
<1>1. IInv => OnlyConnectLosesAClient
  BY DEF IInv, Ownership
<1> QED
  BY <1>1, Invariance, PTL

\* The screen says "Connected" only when some tunnel has been up, or when a text
\* that is not the program's held the words for it.
THEOREM ShownIsReal == Spec => []ShownConnectedIsReal
<1>1. IInv => ShownConnectedIsReal
  BY DEF IInv, OnlyTheTruth, Announced, HasBeenUp, ShownConnectedIsReal
<1> QED
  BY <1>1, Invariance, PTL

=============================================================================
