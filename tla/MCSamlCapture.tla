--------------------------- MODULE MCSamlCapture ---------------------------
(***************************************************************************)
(* The SAML capture server on a small instance: two logins, so that the    *)
(* second server meets the first one, and two connections, so that one     *)
(* can be served while the other waits.  size_t has 8 values: 4 to 7 stand *)
(* for the sizes that wrapped around.                                      *)
(***************************************************************************)
EXTENDS SamlCapture

CONSTANTS k1, k2

MCConnections == {k1, k2}

\* A preconnect or a GET, another form, and the login form: as browsers send
\* it now, with a line break after it, and without a length run() recognises.
MCRequests ==
  {[length |-> 0, has_key |-> FALSE, declares |-> FALSE, trails |-> 0],
   [length |-> 1, has_key |-> FALSE, declares |-> TRUE,  trails |-> 0],
   [length |-> 2, has_key |-> TRUE,  declares |-> TRUE,  trails |-> 0],
   [length |-> 2, has_key |-> TRUE,  declares |-> TRUE,  trails |-> 1],
   [length |-> 2, has_key |-> TRUE,  declares |-> FALSE, trails |-> 0]}

=============================================================================
