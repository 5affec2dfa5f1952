------------------------------ MODULE MCHttp2Conn ------------------------------
(* Instances of Http2Conn for TLC. *)
EXTENDS Http2Conn

TwoStreams == {1, 3}
ThreeStreams == {1, 3, 5}
OneSetting == {<<<<1, 65536>>>>}
TwoSettings == {<<<<1, 65536>>, <<4, 0>>>>, <<<<3, 100>>>>}
TwoIncrements == {1, 2}
===============================================================================
