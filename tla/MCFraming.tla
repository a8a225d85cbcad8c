------------------------------ MODULE MCFraming ------------------------------
(* Packets for Framing.                                                    *)
EXTENDS Framing

Shape(kind, us, len, dlen) == [kind |-> kind, us |-> us, len |-> len, dlen |-> dlen]

SomeShapes == {
  Shape(0, TRUE, 3, 0), Shape(0, TRUE, 5, 2),      \* for us
  Shape(0, FALSE, 4, 1),                           \* for somebody else
  Shape(1, TRUE, 0, 0), Shape(4097, TRUE, 2, 0),   \* router messages
  Shape(0, TRUE, 2, 0),                            \* too short for a header
  Shape(0, TRUE, 4, 0), Shape(0, TRUE, 3, 2),      \* lengths disagree
  Shape(7, TRUE, 4, 1),                            \* unknown kind
  Shape(4098, FALSE, 4, 1), Shape(1, FALSE, 5, 0)} \* long router messages
=============================================================================
