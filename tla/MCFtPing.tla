------------------------------ MODULE MCFtPing ------------------------------
(* Command lines and bounds for model checking FtPing. *)
EXTENDS FtPing

CONSTANTS n1, h1, h2    \* a host name and two addresses

MCNames == {n1}
MCHosts == {h1, h2}

\* No argument, help, only an option, an address, and a name after another destination.
MCArgvs == {<<>>, <<h1, "-?">>, <<"-v">>, <<"-v", h1>>, <<h2, n1>>}
=============================================================================
