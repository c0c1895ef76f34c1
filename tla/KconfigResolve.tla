---------------------------- MODULE KconfigResolve ----------------------------
(***************************************************************************)
(* KconfigDB.resolve_dependencies of kconfig_builder/kconfig.py, one turn  *)
(* of its loop at a time, over any parsed database.                        *)
(*                                                                         *)
(* `queue' is a Python list used as a stack and holds a symbol as often as *)
(* it was pushed.  The order of a set decides what is pushed first, so any *)
(* element may be the one popped: the queue is kept as the number of times *)
(* each symbol is in it.  depends_symbols() gives a set; `select' and      *)
(* `imply' lists name a symbol as often as the Kconfig file does.          *)
(***************************************************************************)
EXTENDS Naturals, KconfigGraph

VARIABLES
    db,        \* self._entries; a symbol without an entry pulls nothing
    symbols,   \* the argument
    resolved,  \* as in the code
    queue      \* how often each symbol is in the list

resolveVars == <<db, symbols, resolved, queue>>

\* The symbols an entry names.
PullsOf(entry) == {x \in Symbols : \/ entry.selects[x] > 0
                                   \/ entry.implies[x] > 0
                                   \/ x \in entry.depends}
EntryPulls == [s \in Symbols |-> PullsOf(db[s])]

Queued == {s \in Symbols : queue[s] > 0}
Returned == Queued = {}

Start == /\ resolved = {}
         /\ queue = [s \in Symbols |-> IF s \in symbols THEN 1 ELSE 0]

\* The queue with `sym' taken out once.
Popped(sym) == [queue EXCEPT ![sym] = @ - 1]

\* Faulty form: what `depends on' names is forgotten.
Times_NoDepends(entry, x) == entry.selects[x] + entry.implies[x]

\* How often an entry names a symbol.
Times(entry, x) == entry.selects[x] + entry.implies[x]
                   + (IF x \in entry.depends THEN 1 ELSE 0)

\* Faulty form: a symbol seen before stays in the queue.
Drop_Peeks == \E sym \in Queued :
                  /\ sym \in resolved
                  /\ UNCHANGED resolveVars

\* A symbol popped again is dropped.
Drop == \E sym \in Queued :
            /\ sym \in resolved
            /\ queue' = Popped(sym)
            /\ UNCHANGED <<db, symbols, resolved>>

\* A new symbol goes in, and what its entry names and is not in yet is
\* pushed.
Expand == \E sym \in Queued :
            /\ sym \notin resolved
            /\ resolved' = resolved \cup {sym}
            /\ queue' = [x \in Symbols |->
                            Popped(sym)[x] + (IF x \in resolved' THEN 0
                                              ELSE Times(db[sym], x))]
            /\ UNCHANGED <<db, symbols>>

Turn == Drop \/ Expand
-----------------------------------------------------------------------------
AllDatabases == [Symbols -> [selects : [Symbols -> Nat], implies : [Symbols -> Nat],
                             depends : SUBSET Symbols]]
ResolveTypeOK == /\ db \in AllDatabases
                 /\ symbols \in SUBSET Symbols
                 /\ resolved \in SUBSET Symbols
                 /\ queue \in [Symbols -> Nat]

\* What is returned is exactly the least closed set over the request: no
\* dependency is left out and no symbol gets in that nothing asked for,
\* whatever cycles the Kconfig files have (kconfig.py 152-177).
ReturnsLeast == Returned => resolved = Resolved(symbols, EntryPulls)

\* The loop ends, circular dependencies or not (kconfig.py 157;
\* tests/test_kconfig.py, test_resolve_no_infinite_loop).
Returns == <>[]Returned
-----------------------------------------------------------------------------
(* Why it is so: what is in or queued covers the request and what the      *)
(* resolved symbols pull, and never leaves any closed set over the request.*)

Reached == resolved \cup Queued

CoverInv == /\ symbols \subseteq Reached
            /\ \A s \in resolved : EntryPulls[s] \subseteq Reached

LeastInv == \A set \in SUBSET Symbols :
                symbols \subseteq set /\ Closed(set, EntryPulls) => Reached \subseteq set

ResolveInv == ResolveTypeOK /\ CoverInv /\ LeastInv
=============================================================================
