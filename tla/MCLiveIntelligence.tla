------------------------- MODULE MCLiveIntelligence -------------------------
(* LiveIntelligence on a small instance.  A tick is 5 seconds and the long  *)
(* windows are shortened.                                                   *)
EXTENDS LiveIntelligence, TLC

CONSTANTS e1, e2, e3, e4, e5, e6, e7, e8, r1, c1

SomeEvents == {e1, e2, e3, e4, e5, e6, e7, e8}
SomeRequests == {r1}
OneInfinite == {e5}
NoInfinite == {}
OneClient == {c1}

SomeTimes == e1 :> 1 @@ e2 :> 3 @@ e3 :> 5 @@ e4 :> 6 @@ e5 :> 8
             @@ e6 :> 12 @@ e7 :> 13 @@ e8 :> 15 @@ r1 :> 6

\* One item at a time, or a late event together with a new one.
SomeBatches == {{i} : i \in SomeEvents \cup SomeRequests} \cup {{e1, e8}, {e2, r1}}

\* With the code's constants: a gap longer than the buffer follows the first
\* complete long window.
GapTimes == e1 :> 1 @@ e2 :> 5 @@ e3 :> 9 @@ e4 :> 13 @@ e5 :> 50
            @@ e6 :> 52 @@ e7 :> 54 @@ e8 :> 56 @@ r1 :> 6
GapBatches == {{e1, e2, e3, r1}, {e4}, {e5}, {e6}, {e7}, {e8}}
=============================================================================
