----------------------------- MODULE MCLiveView -----------------------------
(* Who is who in the instances of LiveView.                                 *)
EXTENDS LiveView, TLC

CONSTANTS r1, r2, s1, s2, tab1, tab2

\* Two tabs with a stream each, or one tab that connects once or twice.
TwoTabs == (s1 :> tab1) @@ (s2 :> tab2)
OneStream == s1 :> tab1
TwoStreams == (s1 :> tab1) @@ (s2 :> tab1)

\* Each tab sends a request, or the first tab sends both.
OneEach == (r1 :> tab1) @@ (r2 :> tab2)
TwoFirst == (r1 :> tab1) @@ (r2 :> tab1)

\* Any two requests; a change from a button and one that has no answer; forms.
AnyKinds == (r1 :> {"row", "view"}) @@ (r2 :> {"create", "note"})
RowAndNote == (r1 :> {"row"}) @@ (r2 :> {"note"})
Creates == (r1 :> {"create"}) @@ (r2 :> {"create"})

\* The streams of one tab are interchangeable.
StreamSymmetry == Permutations(Streams)
=============================================================================
