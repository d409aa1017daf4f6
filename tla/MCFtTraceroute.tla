--------------------------- MODULE MCFtTraceroute ---------------------------
(* Command lines and routers for model checking FtTraceroute. *)
EXTENDS FtTraceroute

\* No argument, help, one destination, too many arguments.
MCArgvs == {<<>>, <<"--help">>, <<"host">>, <<"host", "host">>}

\* One router at each hop: a probe that may go two hops is answered by either.
MCRouters == 1..2
MCNoOne == 0
MCAway == <<1, 2>>
=============================================================================
