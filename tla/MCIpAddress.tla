---------------------------- MODULE MCIpAddress -----------------------------
(* IpAddress with a few characters for TLC. *)
EXTENDS IpAddress

\* A digit, the separators of IPv4 and IPv6, and a character of neither.
MCIpPieces == {<<"1">>, <<":">>, <<".">>, <<"x">>}

MCSpec == IpInit /\ [][IpNext]_ipVars
=============================================================================
