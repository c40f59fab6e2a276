---------------------------- MODULE MCBreakGlass ----------------------------
(* Instances of BreakGlass for TLC.                                         *)
EXTENDS BreakGlass, TLC

CONSTANTS t1, t2, a1, a2

Two == {t1, t2}
One == {t1}
Apart == t1 :> a1 @@ t2 :> a2
Alone == t1 :> a1
Stores == {a1, a2}
Store1 == {a1}
=============================================================================
