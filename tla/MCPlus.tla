-------------------------------- MODULE MCPlus --------------------------------
\* Instances of PlusStore for TLC.
EXTENDS PlusStore, TLC

OneDayEach == [c \in Codes |-> 1]
SomeEnds == {1, 3, Never}
Interchangeable == Permutations(Workers) \cup Permutations(Purchases)
=============================================================================
