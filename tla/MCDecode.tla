------------------------------ MODULE MCDecode ------------------------------
(* Instances of Decode.                                                    *)
EXTENDS Decode, TLC

Build(n, pc, g, len, cut) ==
  [ring |-> n, piece |-> pc, grain |-> g, length |-> len, cut |-> cut]
Lengths(d, a, b, c, l) == 0 :> d @@ 1 :> a @@ 2 :> b @@ 3 :> c @@ 4 :> l

\* The lengths of unpack.hpp cut for a ring of two: an eighth of each last
\* transfer, and one full transfer where the code has hundreds.  The last
\* transfers are of 6, 6, 8, 12 and 6 payloads, sent in halves.
RingOfTwo == Build(2, 8, 1, Lengths(614, 22, 24, 28, 22), Lengths(3, 3, 4, 6, 3))

\* A ring of three, with uneven last transfers of all the sizes told apart.
\* The last transfers are 14 = 6 + 6 + 2 payloads, 6 = 2 + 2 + 2,
\* 8 = 2 + 2 + 4, 10 = 2 + 2 + 6 and 14.
RingOfThree ==
  Build(3, 8, 2, Lengths(230, 30, 32, 34, 38), Lengths(6, 2, 2, 2, 6))

MCBuilds == {RingOfTwo, RingOfThree}
=============================================================================
