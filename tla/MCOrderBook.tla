---------------------------- MODULE MCOrderBook ----------------------------
(***************************************************************************)
(* The matching engine over an ideal id map, for model checking.           *)
(***************************************************************************)
EXTENDS DictionaryBook, IdDictionary, TLC

IdSymmetry == Permutations(OrderIds)

=============================================================================
