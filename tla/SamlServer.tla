----------------------------- MODULE SamlServer -----------------------------
(***************************************************************************)
(* capture_saml_token() (gui-gtk/src/saml_server.rs): the server of the    *)
(* GTK program for one browser login.  It serves any number of requests on *)
(* a single-threaded runtime until the first token was sent through the    *)
(* one-shot channel or 120 seconds are over; it is dropped when it         *)
(* returns, and the port is free again.  The service calls it for one      *)
(* login at a time (module VpnService).                                    *)
(***************************************************************************)

VARIABLES
  listening,  \* the server has bound 127.0.0.1:35001
  channel     \* what went through the one-shot channel: "none", "empty", "token"

samlVars == <<listening, channel>>

SamlTypeOK ==
  /\ listening \in BOOLEAN
  /\ channel \in {"none", "empty", "token"}
  /\ ~listening => channel = "none"

SamlInit ==
  /\ listening = FALSE
  /\ channel = "none"

-----------------------------------------------------------------------------

Bind ==
  /\ ~listening
  /\ listening' = TRUE
  /\ UNCHANGED channel

\* Another program has the port.
CannotBind == ~listening /\ UNCHANGED samlVars

\* The POST handler sends on whatever the form holds, a missing field too; the
\* GET handler only a field that is not empty.
Forwarded(method) == IF method = "POST" THEN {"empty", "token"} ELSE {"token"}

\* Only the first sender is there to be taken.
Request(method, form) ==
  /\ listening
  /\ channel = "none"
  /\ form \in Forwarded(method)
  /\ channel' = form
  /\ UNCHANGED listening

\* The server and the channel are dropped.
Returns == listening' = FALSE /\ channel' = "none"

\* The branch of select! that polls the receiver.
Captured == listening /\ channel # "none" /\ Returns

timeout_mutant_never == FALSE

\* timeout() polls the receiver before it looks at the clock.
TimedOut == listening /\ channel = "none" /\ Returns

=============================================================================
