----------------------- MODULE MCOrderBookRefinement -----------------------
(***************************************************************************)
(* The refinement of PriceTimeBook by the engine over an ideal id map.     *)
(***************************************************************************)
EXTENDS OrderBookRefinement, IdDictionary, TLC

IdSymmetry == Permutations(OrderIds)

=============================================================================
