--------------------------- MODULE MCConsolidation ---------------------------
(* Consolidation for TLC: the memories there are at first.                 *)
EXTENDS Consolidation

Episode(time, near, theme) ==
    [kind |-> "episodic", title |-> time, time |-> time, length |-> 1, expired |-> TRUE,
     from |-> {}, near |-> near, theme |-> theme]

Made(time, near, from) ==
    [Episode(time, near, {}) EXCEPT !.kind = "semantic", !.expired = FALSE, !.from = from]

Young(memory) == [memory EXCEPT !.expired = FALSE]

Untimed(length, near) == [Made(NoTime, near, {}) EXCEPT !.length = length]

\* Four episodes of one theme, a chain of near duplicates among them.
Themes == <<Episode(1, {}, {}), Episode(2, {1}, {}), Young(Episode(3, {2}, {})),
            Young(Episode(4, {}, {1, 3}))>>

\* An episode that was distilled twice, into near duplicates.
DistilledTwice == <<Episode(1, {}, {}), Made(2, {}, {1}), Made(3, {2}, {1})>>

\* Each is kept for another: the older, the shorter and the shorter again go.
Circle == <<[Young(Episode(1, {}, {})) EXCEPT !.length = 3], Untimed(2, {1}),
            Young(Episode(2, {1, 2}, {}))>>

\* Facts of one turn share their time.
OneTurn == <<Episode(2, {}, {}), Episode(2, {1}, {}), Made(3, {2}, {})>>

MCStocks == {Themes, DistilledTwice, Circle, OneTurn}
=============================================================================
