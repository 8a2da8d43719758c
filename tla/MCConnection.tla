---------------------------- MODULE MCConnection ----------------------------
(* Connection.tla for TLC.                                                  *)
EXTENDS Connection

MCMaxCalls == [a |-> 2, b |-> 2]
MCSyncCalls == {<<"a", 2>>}
MCErrors == {<<"a", 1>>}
MCDisowned == {<<"b", 1>>}
MCClosers == {"b"}
MCStarts == {[a |-> FALSE, b |-> FALSE], [a |-> TRUE, b |-> FALSE]}
=============================================================================
