-------------------------------- MODULE MCHub --------------------------------
(* Instances of Hub for TLC: connections c1, c2, c3 of two subscribers. *)
EXTENDS Hub, TLC

CONSTANTS a, b, c1, c2, c3, s1, s2, m1, m2, m3

TwoNodesHome == (c1 :> a) @@ (c2 :> b) @@ (c3 :> a)
OneSub       == (c1 :> s1) @@ (c2 :> s1) @@ (c3 :> s1)
TwoSubs      == (c1 :> s1) @@ (c2 :> s1) @@ (c3 :> s2)
Addressed    == (m1 :> s1) @@ (m2 :> s1) @@ (m3 :> s2)
=============================================================================
