-------------------------- MODULE MCConfiguration --------------------------
\* Instances of Configuration for TLC.
EXTENDS Configuration

CONSTANTS h1, l1

Row(type, priority, rpm, rpd) ==
    [type |-> type, priority |-> priority, rpm |-> rpm, rpd |-> rpd]

MCRows == {Row("hard", 1, 5, 20), Row("hard", 2, 2, 0), Row("lite", 3, 15, 200)}
MCSeed == [m \in Models |-> IF m = h1 THEN Row("hard", 1, 5, 20)
                                      ELSE Row("lite", 3, 15, 200)]

Limits(number, unlimited) == [number |-> number, unlimited |-> unlimited]
MCUserRows == {Limits(1, FALSE), Limits(5, FALSE), Limits(Null, TRUE)}
=============================================================================
