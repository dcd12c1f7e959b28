------------------------------ MODULE MCRejoin ------------------------------
(* Small instances of Rejoin: one viewer on this machine, one on another.   *)
EXTENDS Rejoin

CONSTANTS here, there

TwoViewers == {here, there}
There == {there}
SomeCommands == {<<"kill", "told">>, <<"detach", "told">>}
=============================================================================
