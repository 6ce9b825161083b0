---------------------------- MODULE MCSubscription ----------------------------
(***************************************************************************)
(* A transfer of two files, two concurrent mutations, one subscriber and a *)
(* channel that holds a single delta, so that one delta too many is a lag. *)
(***************************************************************************)
EXTENDS Subscription

CONSTANTS f1, f2, w1, w2, s1

TwoFiles == {f1, f2}
TwoWriters == {w1, w2}
OneSubscriber == {s1}
=============================================================================
