------------------------------ MODULE MCServices ------------------------------
(* Values and symmetry for the run of Services.                              *)
EXTENDS Services, TLC

\* Two lines at the price of the table or not, and one product twice.
MCBaskets ==
    LET Line(product, price) == [product |-> product, price |-> price]
    IN  {<<Line("tea", 1), Line("cup", 1)>>, <<Line("tea", 1), Line("cup", 2)>>,
         <<Line("tea", 2), Line("tea", 1)>>}

MCEdits == {{"name"}, {"price"}}

\* The run checks no liveness.
MCSymmetry ==
    Permutations(Writers) \cup Permutations(IndexRelays)
=============================================================================
