------------------------------- MODULE MCFtLs -------------------------------
(***************************************************************************)
(* A small tree for model checking FtLs:                                   *)
(*   d/  A/  c/                                                            *)
(*           f        a file                                               *)
(*       b/           cannot be opened                                     *)
(*       .h/          hidden                                               *)
(*       e/           newer than A and b                                   *)
(*       k            a link to d                                          *)
(***************************************************************************)
EXTENDS FtLs

MCNodes == {"d", "A", "b", "h", "e", "c", "f", "k"}
MCKind == [n \in MCNodes |-> CASE n = "f" -> "file" [] n = "k" -> "link" [] OTHER -> "dir"]
MCChildren == [n \in MCNodes |-> CASE n = "d" -> {"A", "b", "h", "e", "k"}
                                   [] n = "A" -> {"c", "f"}
                                   [] OTHER -> {}]
MCNameOf == [n \in MCNodes |-> CASE n = "A" -> <<65>> [] n = "b" -> <<98>>
                                 [] n = "h" -> <<46, 104>> [] n = "e" -> <<101>>
                                 [] n = "c" -> <<99>> [] n = "f" -> <<102>>
                                 [] n = "k" -> <<107>> [] OTHER -> <<100>>]
MCTimeOf == [n \in MCNodes |-> CASE n = "A" -> 1 [] n = "b" -> 2 [] OTHER -> 3]

\* ls -R; ls d -R; ls -Ra; ls -r -R A e; ls -Rt; ls A - f; ls -R -x; ls -l e A; ls -lt;
\* ls -R A c
MCArgvs == {<< <<"-", "R">> >>, << <<"d">>, <<"-", "R">> >>, << <<"-", "R", "a">> >>,
            << <<"-", "r">>, <<"-", "R">>, <<"A">>, <<"e">> >>, << <<"-", "R", "t">> >>,
            << <<"A">>, <<"-">>, <<"f">> >>, << <<"-", "R">>, <<"-", "x">> >>,
            << <<"-", "l">>, <<"e">>, <<"A">> >>, << <<"-", "l", "t">> >>,
            << <<"-", "R">>, <<"A">>, <<"c">> >>}
=============================================================================
