--------------------------- MODULE ConfigGenerator ---------------------------
(***************************************************************************)
(* ConfigGenerator of kconfig_builder/generator.py: a map from CONFIG      *)
(* symbols to "y", "m" or "n" that grows by add(), and the .config it is   *)
(* written as.                                                             *)
(*                                                                         *)
(* add() looks at its own symbol's entry alone, so the loops over a set of *)
(* symbols (add_many, apply_boot_path) are one operation on the set,       *)
(* whatever their order.  Sections only lay the file out: write() emits    *)
(* each of them once, named or not, so every entry is written exactly once.*)
(***************************************************************************)
Values == {"n", "m", "y"}

BuiltIn(entries, s) == s \in DOMAIN entries /\ entries[s] = "y"

\* Faulty form: add() without its guard.
AddMany_Downgrades(entries, symbols, value) ==
    [s \in DOMAIN entries \cup symbols |->
        IF s \in symbols THEN value ELSE entries[s]]

\* add() for every one of a set of symbols: an entry "y" stays as it is.
AddMany(entries, symbols, value) ==
    [s \in DOMAIN entries \cup symbols |->
        IF s \in symbols /\ ~BuiltIn(entries, s) THEN value ELSE entries[s]]

\* write(): the entries, and the disabled symbols that have none.
Written(entries, disabled) ==
    [s \in DOMAIN entries \cup disabled |->
        IF s \in DOMAIN entries THEN entries[s] ELSE "n"]
=============================================================================
