----------------------------- MODULE TargetSymbol -----------------------------
(***************************************************************************)
(* How ReplayHandler (src/replay.cpp) picks out one symbol of the tape: it *)
(* learns the symbol's locate code from its directory message, and drops   *)
(* every order message that carries another code.                          *)
(***************************************************************************)
CONSTANTS
  Locates,  \* the stock_locate codes in use, none of them 0
  Wanted    \* the one whose symbol the command line names

ASSUME LocatesAssumption == Wanted \in Locates /\ 0 \notin Locates

VARIABLE target_locate  \* target_locate_; 0 until the symbol's directory message

OnStockDirectory(locate) ==
  target_locate' = IF target_locate = 0 /\ locate = Wanted THEN locate ELSE target_locate

\* (Mutant) Messages about other symbols are not filtered out.
FilteredNever(locate) == FALSE

\* Every order message is dropped first if it is about another symbol.
Filtered(locate) == locate # target_locate

\* No code has been learnt yet.
NoTarget == target_locate = 0

=============================================================================
