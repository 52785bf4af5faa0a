----------------------------- MODULE MCRetention -----------------------------
EXTENDS Retention

CONSTANTS o1, o2, notDeleted

\* Four instants to a day; a unit of one instant and a unit of one day.
MCUnitSecs == [second |-> 1, day |-> DayLen]

\* Retentions of nothing, an instant or two, one or two days, an attempt at a
\* negative one, and 40: forty instants are long, forty days saturate and are
\* more than chrono can subtract.
MCValues == (-1..2) \cup {40}
=============================================================================
