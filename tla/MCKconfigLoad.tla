---------------------------- MODULE MCKconfigLoad ----------------------------
(***************************************************************************)
(* KconfigLoad over three symbols, c with a name that begins with a digit. *)
(*                                                                         *)
(* Trees of up to four files, or without the one looked for, with circular *)
(* and repeated source lines, two definitions of a symbol, paths that      *)
(* exist below the root and below the directory, variables, comments and   *)
(* help texts; one file with every deep expression, or with one that goes  *)
(* on in the next line; and, already loaded, every database in which an    *)
(* entry names up to two others, each in one of the ways Kconfig has, or   *)
(* selects one twice.                                                      *)
(***************************************************************************)
EXTENDS KconfigLoad

CONSTANTS a, b, c

Word == [first |-> "capital", length |-> 4, small |-> FALSE]
SmallSpelling == [s \in Symbols |-> IF s = c THEN [Word EXCEPT !.first = "digit"] ELSE Word]

\* A compound part is parenthesised.
Single(e) == IF Len(e.tokens) <= 2 THEN e ELSE Group(e)
Negations(parts) == {Negated(e) : e \in {p \in parts : p.tokens[1] # "!"}}
Binaries(left, right) ==
    {Binary(d, op, e) : d \in left, e \in right, op \in {"&&", "||"}}

\* Expressions of up to two operators deep.
Atoms == {Atom(s) : s \in Symbols}
Deeper(exprs) == LET parts == {Single(e) : e \in exprs}
                 IN  exprs \cup Negations(parts) \cup Binaries(parts, parts)
Comparisons == {Comparison(s, op, v) : s \in {a, c}, op \in {"=", "!="}, v \in {"y", "n"}}
Exprs1 == Deeper(Atoms)
Exprs2 == Deeper(Exprs1)

\* The deepest: the negation of any of these, alone or next to a symbol, and
\* the negation of a smaller one next to another.
Parts == {Single(e) : e \in Exprs1}
DeepNegations == Negations({Single(e) : e \in Exprs2})

Dependencies == {<<e>> : e \in Exprs2 \cup DeepNegations
                          \cup Binaries(DeepNegations, Atoms)
                          \cup Binaries(Negations(Parts), Parts)
                          \cup Binaries(Comparisons, Negations(Parts))}
                \cup {<<d, e>> : d \in Exprs1, e \in Exprs1}

\* Continued after any of their tokens.
Cuts(exprs) == UNION {{Continued(e, k) : k \in 1 .. Len(e.tokens) - 1} : e \in exprs}

\* Lines.
Config(s) == [kind |-> "config", name |-> s]
Depends(e) == [kind |-> "attribute", what |-> "depends", arg |-> e]
Select(s) == [kind |-> "attribute", what |-> "select", arg |-> s]
Imply(s) == [kind |-> "attribute", what |-> "imply", arg |-> s]
Help(s) == [kind |-> "help", what |-> "select", arg |-> s]
Line(kind) == [kind |-> kind]
Src(base, path) == [kind |-> "source", base |-> base, path |-> path]

Drv == <<"drv", "Kconfig">>
Net == <<"net", "Kconfig">>
DrvNet == <<"drv", "net", "Kconfig">>

TopContents == {
    <<Src("plain", Drv), Config(a), Line("text"), Depends(Atom(b)), Select(c)>>,
    <<Config(a), Select(b), Src("srctree", Drv), Src("plain", Net)>>,
    <<Config(a), Imply(c), Line("other"), Depends(Negated(Atom(c))), Src("plain", Drv)>>,
    <<Src("other", Net), Src("plain", Drv), Src("plain", Drv)>>,
    <<Config(a), Line("comment"), Select(b), Config(b), Help(c), Src("plain", Drv)>>}
DrvContents == {
    <<Src("plain", Net), Config(b), Depends(Binary(Atom(a), "&&", Negated(Atom(c))))>>,
    <<Src("plain", Top), Config(b), Select(c), Line("other"), Select(a), Config(c), Imply(a)>>,
    <<Src("src", Net), Config(a), Depends(Atom(b)), Depends(Negated(Group(Atom(b)))), Config(b)>>,
    <<Src("srctree", DrvNet), Config(c), Select(a), Select(a), Config(c), Imply(b)>>}
NetContents == {
    <<Config(c), Depends(Atom(a)), Line("text"), Select(b)>>,
    <<Src("plain", Drv), Config(a), Imply(b), Imply(c)>>,
    <<Line("comment"), Src("src", Top), Config(c)>>}

\* Files at Net, at DrvNet, or at both.
FileTrees ==
    {[p \in {Top, Drv} \cup nets |->
        IF p = Top THEN top ELSE IF p = Drv THEN drv ELSE IF p = Net THEN net ELSE drvnet] :
        nets \in SUBSET {Net, DrvNet}, top \in TopContents, drv \in DrvContents,
        net \in NetContents, drvnet \in NetContents}
ExprTrees == {[p \in {Top} |-> <<Config(a)>> \o [k \in 1 .. Len(exprs) |-> Depends(exprs[k])]] :
                  exprs \in Dependencies}
\* A text line is the rest of an expression.
CutTrees == {[p \in {Top} |-> <<Config(a), Depends(e), Line("text"), Depends(Atom(b))>>] :
                 e \in Cuts(Exprs1)}
SmallInputs == [tree : FileTrees, request : {{a}, {b}, {b, c}}]
               \cup [tree : {[p \in {Net} |-> <<Config(a)>>]}, request : {{a}}]
               \cup [tree : ExprTrees \cup CutTrees, request : {{}}]

\* Databases.
Named(sel, imp, dep) == [selects |-> sel, implies |-> imp, depends |-> dep]
None == NoSymbols
Choices(s) == LET others == Symbols \ {s} IN
       {Named(None, None, dep) : dep \in SUBSET others}
  \cup {Named([None EXCEPT ![x] = n], None, {}) : x \in others, n \in {1, 2}}
  \cup {Named([None EXCEPT ![x] = 1], None, {y}) : x, y \in others}
  \cup {Named(None, [None EXCEPT ![x] = 1], {}) : x \in others}

SmallDatabases == {d \in [Symbols -> UNION {Choices(s) : s \in Symbols}] :
                      \A s \in Symbols : d[s] \in Choices(s)}
SmallRequests == SUBSET Symbols
=============================================================================
