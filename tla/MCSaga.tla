------------------------------- MODULE MCSaga -------------------------------
EXTENDS Saga, TLC

CONSTANTS o1, o2, p1, p2

TwoLines == [o \in Orders |-> <<[product |-> p1, quantity |-> 1],
                                [product |-> p2, quantity |-> 1]>>]
OneLine == [o \in Orders |-> <<[product |-> p2, quantity |-> 1]>>]
OneOfEach == [p \in Products |-> 1]
LastOfSecond == {<<o2, p2>>}
NoDemand == {}

RunsAreAlike == Permutations(Runs)
=============================================================================
