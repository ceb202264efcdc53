------------------------------ MODULE MCFiles ------------------------------
(***************************************************************************)
(* Values for the constants of Files: /h stands for /home (opfs), /u and   *)
(* /u/m for /usr and /usr/local (tmpfs, sys).                              *)
(***************************************************************************)
EXTENDS Files

Root     == <<>>
Mounts   == <<>> :> "tmpfs" @@ <<"h">> :> "opfs" @@ <<"u", "m">> :> "sys"
Paths    == {<<>>, <<"h">>, <<"h", "a">>, <<"h", "a", "x">>, <<"h", "a", "y">>, <<"h", "b">>,
             <<"u">>, <<"u", "m">>, <<"v">>}
OpenPath == {<<"h", "b">>}
\* One file longer than MaxFileSize among them.
HostWrites == Paths \X {1} \cup OpenPath \X {3}
Links    == {<<"h", "a", "y">>, <<"h", "b">>, <<"v">>}
Targets  == {[absolute |-> FALSE, path |-> <<"a">>]}
Made     == <<<<"u">>, <<"u", "m">>, <<"h">>>>
=============================================================================
