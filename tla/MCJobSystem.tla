---------------------------- MODULE MCJobSystem ---------------------------
\* Instances of JobSystem for TLC.
EXTENDS JobSystem, TLC

CONSTANTS j1, j2, j3, u1, u2, hard, lite, pro, gone, flash, w1, w2

\* One user, everything goes to the lite queue and to one model.
OneUser  == [j \in Jobs |-> u1]
AllLite  == [j \in Jobs |-> lite]
OnlyFlash == [t \in Types |-> <<flash>>]

\* j1 and j2 belong to u1, j3 to u2; j1 and j3 ask for the hard mode.
TwoUsers == [j \in Jobs |-> IF j = j3 THEN u2 ELSE u1]
HardTwice == [j \in Jobs |-> IF j = j2 THEN lite ELSE hard]

\* hard falls back to lite's model, past a model that was deleted.
Fallback == [t \in Types |-> IF t = hard THEN <<pro, gone, flash>> ELSE <<flash>>]
Loaded   == Models \ {gone}

Zero(S)  == [x \in S |-> 0]
One(S)   == [x \in S |-> 1]
Two(S)   == [x \in S |-> 2]
UsersOne == One(Users)
\* u2 is an admin, or has no limits in the database.
OneUnlimited == [u \in Users |-> IF u = u2 THEN 0 ELSE 1]
ModelsZero == Zero(Models)
ModelsOne == One(Models)
ModelsTwo == Two(Models)
DayOne   == [u \in Users |-> One(Types)]
DayTwo   == [u \in Users |-> Two(Types)]

WorkerSymmetry == Permutations(Procs)
=============================================================================
