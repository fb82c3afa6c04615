---------------------------- MODULE MCConnQueue ----------------------------
(***************************************************************************)
(* ConnQueue for TLC: one pusher, as in main, three poppers and a ring of  *)
(* two.  With more poppers than slots a full ring and sleeping poppers     *)
(* occur together; four descriptors let them be reused while others wait.  *)
(***************************************************************************)
EXTENDS ConnQueue

CONSTANTS main, w1, w2, w3, c1, c2, c3, c4

MainOnly  == {main}
Workers   == {w1, w2, w3}
FourConns == {c1, c2, c3, c4}
=============================================================================
