--------------------------- MODULE MCServiceStart ---------------------------
(* Instances of ServiceStart for TLC: any two stores come up late.          *)
EXTENDS ServiceStart, FiniteSets

TwoLate ==
    {d \in [Stores -> 0..5] : Cardinality({s \in Stores : d[s] > 0}) <= 2}
=============================================================================
