----------------------------- MODULE MCEventFlow -----------------------------
(* Queries for EventFlow, with filters "l" and "r".                        *)
EXTENDS EventFlow

Filter(f) == [type |-> "filter", where |-> f]
Show == [type |-> "show", where |-> "none"]
Aggregate(f, windowed) == [type |-> "aggregate", where |-> f, windowed |-> windowed]
Correlate(l, r) == [type |-> "correlate", left |-> l, right |-> r]

MCQueries ==
    {<<Filter("l"), Show>>,
     <<Correlate("l", "r")>>, <<Filter("r"), Correlate("l", "r")>>,
     <<Aggregate("l", FALSE)>>, <<Filter("r"), Aggregate("l", TRUE), Filter("l")>>}
TwoStates == {<<Aggregate("l", TRUE), Correlate("l", "r")>>}
AllQueries == MCQueries \cup TwoStates
CountAll == {<<Aggregate("none", FALSE)>>}
=============================================================================
