--------------------------- MODULE DictionaryBook ---------------------------
(***************************************************************************)
(* The matching engine under what it assumes of its id map.  The theorems  *)
(* about the engine rest on this contract and on nothing else about the    *)
(* map.                                                                    *)
(***************************************************************************)
EXTENDS OrderBook, IdMapContract

ASSUME MapContract ==
  KeepsContract(OrderIds, Slots, nullptr, Maps, EmptyMap, MapFind, MapInsert, MapErase)

=============================================================================
