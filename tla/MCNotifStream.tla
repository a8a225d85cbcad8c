---------------------------- MODULE MCNotifStream ----------------------------
(* Instances of NotifStream for TLC.                                       *)
EXTENDS NotifStream

\* Samples without data, and with data that could be taken for fields.
SomeDatas == {<<>>, <<0>>, <<1, 0>>}
=============================================================================
