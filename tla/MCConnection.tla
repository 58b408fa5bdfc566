---------------------------- MODULE MCConnection ----------------------------
(* Small instance of Connection: nodes at two hosts, and a message that is *)
(* written from two buffers.                                               *)
EXTENDS Connection, TLC

CONSTANTS n1, n2, h1, h2

MCHostOf == n1 :> h1 @@ n2 :> h2

MCBuffers == <<1, 2>>

(* Below and above a second, and neither: keep what is set, and 0.         *)
MCTimeouts == {-1, 0, 250, 1500}

=============================================================================
