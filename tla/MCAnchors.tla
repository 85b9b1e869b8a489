----------------------------- MODULE MCAnchors -----------------------------
(* Small instances of Anchors.                                             *)
EXTENDS Anchors

CONSTANTS a1, a2, w1, w2

Setup(anchors, leaving, circle, failing, purge, end, schedules) ==
    [anchors |-> anchors, leaving |-> leaving, circle |-> circle, failing |-> failing,
     purge |-> purge, end |-> end, schedules |-> schedules]

AllSetups ==
    {Setup({a1}, {a1}, FALSE, TRUE, FALSE, 2, 2), Setup({a1}, {a1}, FALSE, FALSE, TRUE, 4, 3),
     Setup({a1, a2}, {a1}, TRUE, FALSE, FALSE, 2, 2)}

LongWait == {Setup({a1}, {}, FALSE, FALSE, TRUE, 4, 1)}

=============================================================================
