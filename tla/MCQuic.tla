------------------------------- MODULE MCQuic -------------------------------
(***************************************************************************)
(* Instances of Quic.  The window is small enough for a late copy to fall  *)
(* out of it, and the stream buffer smaller than the flow limit, as in the *)
(* code.                                                                   *)
(***************************************************************************)
EXTENDS Quic

Scenario(connected, client, server, lose, copy, lag, delay, rounds) ==
    [connected |-> connected,
     calls |-> [s \in Sides |-> IF s = "client" THEN client ELSE server],
     faults |-> [lose |-> lose, copy |-> copy, lag |-> lag,
                delay |-> delay, rounds |-> rounds]]

\* The handshake: two losses; a loss, a copy and a late turn; and with data
\* and a close that the client sends before the server has its Finished.
Shake == Scenario(FALSE, <<>>, <<>>, 2, 0, 0, 1, 9)
LateShake == Scenario(FALSE, <<>>, <<>>, 1, 1, 1, 1, 7)
Early == Scenario(FALSE, <<"write", "write", "close">>, <<"read">>, 1, 0, 0, 1, 7)

\* The stream: an exchange and a close, one side up to the limits, both sides.
Echo == Scenario(TRUE, <<"write", "read", "close">>, <<"read", "write", "read">>, 2, 1, 1, 1, 3)
Upload ==
    Scenario(TRUE, <<"write", "write", "write", "write">>, <<"read", "read", "read">>, 2, 1, 1, 1, 3)
Talk ==
    Scenario(TRUE, <<"read", "write", "read", "read">>,
             <<"write", "write", "read", "write", "read">>, 2, 0, 0, 1, 3)

Mixed == {Shake, LateShake, Early, Echo, Upload, Talk}
=============================================================================
