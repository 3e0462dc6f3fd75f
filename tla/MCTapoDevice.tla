---------------------------- MODULE MCTapoDevice ----------------------------
(* Small instances of TapoDevice.                                          *)
EXTENDS TapoDevice, TLC

CONSTANTS t1, t2, t3, d1, n1, refresher

ThreeTasks == {t1, t2, t3}
OneDevice  == {d1}
OneName    == {n1}

NameOfOne == (d1 :> n1)

ThreeAndRefresher == ThreeTasks \cup {refresher}
=============================================================================
