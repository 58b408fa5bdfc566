---------------------------- MODULE MCStreamRead ----------------------------
(* Small instance of StreamRead: one, two and three buffers, of no, one,   *)
(* two or three bytes, in every order that the loop treats differently.    *)
EXTENDS StreamRead, TLC

Layout(sizes) ==
  [cnt   |-> 3,
   start |-> [i \in 0 .. 3 |->
                CASE i = 0 -> 0
                  [] i = 1 -> sizes[1]
                  [] i = 2 -> sizes[1] + sizes[2]
                  [] i = 3 -> sizes[1] + sizes[2] + sizes[3]]]

MCLayouts ==
  {[cnt |-> 1, start |-> (0 :> 0 @@ 1 :> 3)]}
  \cup {Layout(s) : s \in {<<2, 1, 2>>, <<1, 0, 2>>, <<0, 2, 1>>, <<2, 2, 0>>}}

MCMinBytes == {0, 1, 2, 3, 4}

=============================================================================
