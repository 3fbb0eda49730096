----------------------------- MODULE VpnSession -----------------------------
(***************************************************************************)
(* What the command line client promises its user, without threads, events *)
(* or condition variables: the operational state machine of a connection   *)
(* in DIRECT mode.  A connection alternates between asking a server for a  *)
(* login, answering that same server, and being connected to it; a session *)
(* that the server no longer accepts is renewed, anything else that ends   *)
(* it ends the program.                                                    *)
(***************************************************************************)

CONSTANTS Servers, None

VARIABLES
  state,    \* where the connection is
  issuer,   \* the server whose login request is to be answered
  dialled   \* the server the answer, or the session, is sent to

vars == <<state, issuer, dialled>>

Live == {"connecting", "login", "answering", "connected", "expired"}

Init ==
  /\ state = "connecting"
  /\ issuer = None
  /\ dialled = None

\* A server refuses the placeholder credentials and asks for a login.
Challenge(s) ==
  /\ state = "connecting"
  /\ state' = "login"
  /\ issuer' = s
  /\ UNCHANGED dialled

\* The user has logged in; the token is on its way to the issuer.
Answer ==
  /\ state = "login"
  /\ state' = "answering"
  /\ UNCHANGED <<issuer, dialled>>

\* The issuer, and no other server, is contacted.
Dial ==
  /\ state \in {"answering", "connected"}
  /\ dialled' = issuer
  /\ UNCHANGED <<state, issuer>>

\* The connection to it breaks.
Drop ==
  /\ state = "connected"
  /\ dialled' = None
  /\ UNCHANGED <<state, issuer>>

Establish ==
  /\ state = "answering"
  /\ dialled = issuer
  /\ state' = "connected"
  /\ UNCHANGED <<issuer, dialled>>

\* The server rejects the stored session.
Expire ==
  /\ state = "connected"
  /\ state' = "expired"
  /\ UNCHANGED <<issuer, dialled>>

\* The only way on from an expired session is a new login.
Reauthenticate ==
  /\ state = "expired"
  /\ state' = "connecting"
  /\ issuer' = None
  /\ dialled' = None

\* The program ends with success after a session and with failure before it.
Finish ==
  /\ \/ state = "connected" /\ state' = "ended"
     \/ state \in {"connecting", "login", "answering"} /\ state' = "failed"
     \/ state \in Live /\ state' = "interrupted"
  /\ issuer' = None
  /\ dialled' = None

Next ==
  \/ \E s \in Servers : Challenge(s)
  \/ Answer
  \/ Dial
  \/ Drop
  \/ Establish
  \/ Expire
  \/ Reauthenticate
  \/ Finish

Safety == Init /\ [][Next]_vars

\* An expired session does not stay expired.
Spec == Safety /\ WF_vars(Reauthenticate)

=============================================================================
