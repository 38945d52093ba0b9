------------------------------ MODULE MCDataLake ------------------------------
EXTENDS DataLake

Bar(s, d, a, p) == [symbol |-> s, dt |-> d, avail |-> a, price |-> p]
TwoSymbols == {1, 2}
TwoDays == {1, 2}

\* Two bars without times of availability, in no order.
First == <<Bar(2, 1, Missing, 5), Bar(1, 2, Missing, 7)>>
\* One bar more, a repeated bar and a late one.
Corrected == <<Bar(1, 2, 4, 8), Bar(2, 1, Missing, 5), Bar(1, 2, 2, 7), Bar(1, 1, 1, 3)>>
\* A price, and a time of availability, that are refused.
Negative == <<Bar(1, 1, Missing, 3), Bar(2, 1, Missing, -1)>>
TooEarly == <<Bar(1, 2, 1, 7)>>
SomeBatches == {First, Corrected, Negative, TooEarly}

SomeQueries ==
  [symbols : {{1}, {1, 2}}, start : {1}, end : {2}, asOf : {1, 3}]
===============================================================================
