------------------------------ MODULE MCTools -------------------------------
(* Tools for TLC: every command of ipc-modem alone, and the two pairs that *)
(* leave something to the next command.                                    *)
EXTENDS Tools

MCCommands == {<<"start">>, <<"boot">>, <<"power-on">>, <<"power-off">>,
               <<"boot", "start">>, <<"start", "start">>}
=============================================================================
