--------------------------------- MODULE MCDfs ---------------------------------
(* Dfs with two clients and two values, which are interchangeable.             *)
EXTENDS Dfs, TLC
MCRanges == {<<0, 4>>, <<0, 2>>, <<1, 2>>, <<2, 2>>}
Symmetry == Permutations(Clients) \cup Permutations(Values)
================================================================================
