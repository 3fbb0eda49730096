------------------------------ MODULE PhaseTwo ------------------------------
(***************************************************************************)
(* What connect_phase2() promises in DBUS mode to a caller who knows of no *)
(* calls, retries, polls and signals.  Module DBusClient implements it;    *)
(* module VpnService has these steps in the place of DBusClient's.         *)
(***************************************************************************)

CONSTANT
  MayMisread  \* TRUE if the services may word the end of a tunnel like its beginning

VARIABLES
  call,    \* "asking" until Connect was accepted, then "waiting", then its end
  session, \* "none", "started", "up", "down" (has been up), "cut" (disconnected
           \* before it was up), "failed" (over in another way, never been up)
  clean    \* the session is gone, or the backend was asked to end it

vars == <<call, session, clean>>

Init == call = "asking" /\ session = "none" /\ clean = FALSE

-----------------------------------------------------------------------------

Over(s) ==
  CASE s \in {"up", "down"} -> "down"
    [] s = "cut" -> "cut"
    [] OTHER -> "failed"

\* The sessions that a success may stand for.
Tunnels == {"up", "down"} \cup (IF MayMisread THEN {"cut"} ELSE {})

Connect ==
  /\ call = "asking" /\ session = "none"
  /\ session' = "started"
  /\ UNCHANGED <<call, clean>>

Accepted ==
  /\ call = "asking" /\ session # "none"
  /\ call' = "waiting"
  /\ UNCHANGED <<session, clean>>

\* An error before that; a session that exists is left as it is.
Refused ==
  /\ call = "asking"
  /\ call' = "threw"
  /\ UNCHANGED <<session, clean>>

\* Success means that the tunnel is, or has been, up, as far as the services'
\* words can be told apart.
Succeeds ==
  /\ call = "waiting" /\ session \in Tunnels
  /\ call' = "returned"
  /\ UNCHANGED <<session, clean>>

\* A failure or the time limit: nothing is left behind.
Fails ==
  /\ call = "waiting"
  /\ call' = "threw"
  /\ session' \in {session, Over(session)}
  /\ clean' = TRUE

\* The program ends: an accepted attempt leaves nothing behind either.
Stops ==
  /\ call \in {"asking", "waiting"}
  /\ call' = "stopped"
  /\ session' \in {session, Over(session)}
  /\ clean' \in {clean, TRUE}
  /\ call = "waiting" => clean'

Backend ==
  /\ \/ session = "started" /\ session' \in {"up", "cut"} /\ UNCHANGED clean
     \/ session' = Over(session) /\ clean' \in {clean, TRUE}
  /\ UNCHANGED call

Next ==
  \/ Connect \/ Accepted \/ Refused \/ Succeeds \/ Fails \/ Stops \/ Backend

Safety == Init /\ [][Next]_vars

\* A call that waits comes to its end.
Spec == Safety /\ WF_vars(Succeeds \/ Fails)

=============================================================================
