------------------------------- MODULE MCCli -------------------------------
(***************************************************************************)
(* The command line client on a small instance.                            *)
(*                                                                         *)
(* Three CoreClients suffice: impl_ owns one, and a thread that is still   *)
(* unwinding may own the one before it; the third is free for the next     *)
(* call.  Two servers are enough to tell the issuer from another one.      *)
(***************************************************************************)
EXTENDS Cli, TLC

CONSTANTS c1, c2, c3, s1, s2

MCClients == {c1, c2, c3}
MCServers == {s1, s2}

\* Every directive read_and_filter_config() looks for, and one it keeps.
MCProfile == {"remote", "auth-federate", "auth-retry", "resolv-retry"}

\* Objects and servers are interchangeable (used by invariant-only runs).
MCSymmetry == Permutations(MCClients) \cup Permutations(MCServers)

=============================================================================
