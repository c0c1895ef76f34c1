----------------------------- MODULE KconfigGraph -----------------------------
(***************************************************************************)
(* What dependency resolution promises: with `pulls' giving the symbols    *)
(* each symbol drags in, the least set that holds the symbols asked for    *)
(* and everything its members drag in.                                     *)
(***************************************************************************)
CONSTANT Symbols  \* CONFIG symbols; names that no entry has, too

Closed(set, pulls) == \A s \in set : pulls[s] \subseteq set

Resolved(symbols, pulls) ==
    {s \in DOMAIN pulls :
        \A set \in SUBSET DOMAIN pulls :
            symbols \subseteq set /\ Closed(set, pulls) => s \in set}
=============================================================================
