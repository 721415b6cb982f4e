---------------------------- MODULE MCWebCapture ----------------------------
(* A small WebCapture: bodies below, at and above the limit, one the        *)
(* beginning of another.                                                    *)
EXTENDS WebCapture, TLC

MCBodies == {<<>>, <<"a">>, <<"a", "b">>, <<"a", "b", "c">>}
MCLimits == {2, 0, -1}
MCSymmetry == Permutations(Handlers)
=============================================================================
