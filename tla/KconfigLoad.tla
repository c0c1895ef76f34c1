----------------------------- MODULE KconfigLoad -----------------------------
(***************************************************************************)
(* KconfigDB.load of kconfig_builder/kconfig.py, and what KernelConfigStep *)
(* does with it: the Kconfig files are walked along their source lines,    *)
(* their entries parsed, and the dependencies of a request resolved, which *)
(* KconfigResolve does, over the symbols that KconfigExpr extracts.        *)
(*                                                                         *)
(* A tree gives each path, a sequence of names, the file's lines (none, if *)
(* it cannot be read):                                                     *)
(*   config     a config or menuconfig line                                *)
(*   attribute  `depends on', `select' or `imply' (what), with its argument*)
(*   help       indented text that begins like an attribute                *)
(*   text       any other indented line                                    *)
(*   source     with a path and how that is rooted                         *)
(*   comment    a # at the beginning of the line                           *)
(*   other      anything else that is not indented: endmenu, if, choice    *)
(***************************************************************************)
EXTENDS FiniteSets, KconfigResolve, KconfigExpr

CONSTANTS
    Inputs,     \* trees, each with a request
    Databases,  \* databases to begin with
    Requests    \* the sets of symbols asked of these

Top == <<"Kconfig">>
NoTree == [path \in {} |-> <<>>]
NoEntries == [s \in {} |-> <<>>]

Lines == [kind : {"config"}, name : Symbols]
         \cup [kind : {"attribute", "help"}, what : {"depends"}, arg : Expressions]
         \cup [kind : {"attribute", "help"}, what : {"select", "imply"}, arg : Symbols]
         \cup [kind : {"source"}, base : {"srctree", "src", "plain", "other"},
               path : Seq(STRING)]
         \cup [kind : {"text", "comment", "other"}]

ASSUME InputAssumption ==
    /\ \A in \in Inputs : /\ in.request \subseteq Symbols
                          /\ in.tree = [path \in DOMAIN in.tree |-> in.tree[path]]
                          /\ \A path \in DOMAIN in.tree : in.tree[path] \in Seq(Lines)
    /\ Databases \subseteq AllDatabases /\ Requests \subseteq SUBSET Symbols

VARIABLES
    tree,     \* the source tree
    phase,    \* load or resolve
    stack,    \* the files being parsed, and from which line on source lines are left
    visited,  \* self._visited
    parsed    \* self._entries

loadVars == <<tree, phase, stack, visited, parsed, resolveVars>>
-----------------------------------------------------------------------------
(* Finding the files.                                                      *)

SourceLines(path, from) == {k \in from .. Len(tree[path]) : tree[path][k].kind = "source"}
Frame(path) == [file |-> path, from |-> 1]

\* _resolve_src_path: $(srctree) and $(src) are known, any other variable is
\* left as it stands; a plain path is looked for in the root first.
SrcPath(line, dir) ==
    LET bases == CASE line.base = "srctree" -> <<<<>>>>
                   [] line.base = "src"     -> <<dir>>
                   [] line.base = "plain"   -> <<<<>>, dir>>
                   [] line.base = "other"   -> <<>>
        there == {k \in 1 .. Len(bases) : bases[k] \o line.path \in DOMAIN tree}
    IN  {bases[k] \o line.path : k \in {j \in there : \A i \in there : j <= i}}
Parent(path) == SubSeq(path, 1, Len(path) - 1)
Leads(path, k) == SrcPath(tree[path][k], Parent(path))

Current == stack[Len(stack)]
Left == SourceLines(Current.file, Current.from)

\* The next source line of the innermost file: its file is parsed, if it is
\* there and has not been visited.
FollowSource ==
    /\ phase = "load" /\ stack # <<>>
    /\ \E k \in Left :
          /\ \A j \in Left : k <= j
          /\ LET rest == [stack EXCEPT ![Len(stack)].from = k + 1]
                 into == Leads(Current.file, k) \ visited
             IN  \/ into = {} /\ stack' = rest /\ visited' = visited
                 \/ \E path \in into : /\ stack' = Append(rest, Frame(path))
                                       /\ visited' = visited \cup {path}
    /\ UNCHANGED <<tree, phase, parsed, resolveVars>>
-----------------------------------------------------------------------------
(* Parsing the entries.                                                    *)

\* Faulty form: only the next config line ends an entry.
Outdented_Config(line) == line.kind = "config"
Outdented(line) == line.kind \in {"config", "source", "comment", "other"}

\* The lines from a header to the next line that is not indented.
Body(lines, k) ==
    LET ends == {j \in k + 1 .. Len(lines) : Outdented(lines[j])} \cup {Len(lines) + 1}
    IN  k + 1 .. (CHOOSE j \in ends : \A i \in ends : j <= i) - 1

\* Help text is not told from attributes.  Expressions are searched one by
\* one, while a symbol is pushed as often as it is named.
Reads(line) == line.kind \in {"attribute", "help"}
Given(lines, k, what) == {j \in Body(lines, k) : Reads(lines[j]) /\ lines[j].what = what}
Counted(lines, k, what) ==
    [x \in Symbols |-> Cardinality({j \in Given(lines, k, what) : lines[j].arg = x})]
Entry(lines, k) == [depends |-> {lines[j].arg : j \in Given(lines, k, "depends")},
                    selects |-> Counted(lines, k, "select"),
                    implies |-> Counted(lines, k, "imply")]

Headers(lines, s) == {k \in 1 .. Len(lines) : lines[k].kind = "config" /\ lines[k].name = s}
\* An entry takes the place of an earlier one of its name.
ParsedEntries(lines) ==
    [s \in {t \in Symbols : Headers(lines, t) # {}} |->
        Entry(lines, CHOOSE k \in Headers(lines, s) : \A j \in Headers(lines, s) : j <= k)]

\* When its source lines are done, the innermost file's own entries.
ParseEntries ==
    /\ phase = "load" /\ stack # <<>> /\ Left = {}
    /\ LET new == ParsedEntries(tree[Current.file])
       IN  parsed' = [s \in DOMAIN parsed \cup DOMAIN new |->
                         IF s \in DOMAIN new THEN new[s] ELSE parsed[s]]
    /\ stack' = SubSeq(stack, 1, Len(stack) - 1)
    /\ UNCHANGED <<tree, phase, visited, resolveVars>>

\* What resolve_dependencies finds in the entries.
NoSymbols == [x \in Symbols |-> 0]
Database(of) ==
    [s \in Symbols |->
        IF s \in DOMAIN of THEN [of[s] EXCEPT !.depends = DependsSymbols(@)]
        ELSE [depends |-> {}, selects |-> NoSymbols, implies |-> NoSymbols]]

Loaded ==
    /\ phase = "load" /\ stack = <<>>
    /\ phase' = "resolve"
    /\ db' = Database(parsed)
    /\ UNCHANGED <<tree, stack, visited, parsed, symbols, resolved, queue>>

Resolve == phase = "resolve" /\ Turn /\ UNCHANGED <<tree, phase, stack, visited, parsed>>

\* A tree to load, its Kconfig file if it has one, or any database already
\* there.
LoadInit ==
    /\ parsed = NoEntries
    /\ \/ /\ db \in Databases /\ symbols \in Requests
          /\ tree = NoTree /\ phase = "resolve" /\ stack = <<>> /\ visited = {}
       \/ /\ \E in \in Inputs : tree = in.tree /\ symbols = in.request
          /\ phase = "load" /\ db = Database(NoEntries)
          /\ visited = {Top} \cap DOMAIN tree
          /\ stack = IF Top \in DOMAIN tree THEN <<Frame(Top)>> ELSE <<>>
    /\ Start

LoadNext == FollowSource \/ ParseEntries \/ Loaded \/ Resolve

\* One thread that runs on as long as it can.
LoadSpec == LoadInit /\ [][LoadNext]_loadVars /\ WF_loadVars(LoadNext)
-----------------------------------------------------------------------------
(* What the files say.                                                     *)

Sourced(path) == UNION {Leads(path, k) : k \in SourceLines(path, 1)}
Reaching(set) == /\ {Top} \cap DOMAIN tree \subseteq set
                 /\ \A path \in set : Sourced(path) \subseteq set
Files == {path \in DOMAIN tree : \A set \in SUBSET DOMAIN tree : Reaching(set) => path \in set}

\* Where a symbol is defined, and the attributes it is given there.
Definitions(s) == UNION {{<<path, k>> : k \in Headers(tree[path], s)} : path \in Files}
Attributes(d, what) ==
    LET lines == tree[d[1]]
    IN  {lines[j].arg : j \in {i \in d[2] + 1 .. Len(lines) :
            /\ lines[i].kind = "attribute" /\ lines[i].what = what
            /\ \A l \in d[2] + 1 .. i : lines[l].kind \notin {"config", "source", "other"}}}

\* No comment cuts an entry short, no help text looks like an attribute and
\* no backslash continues an attribute on the next line.
Plain == \A path \in Files : \A k \in 1 .. Len(tree[path]) :
             LET line == tree[path][k]
             IN  /\ line.kind \notin {"comment", "help"}
                 /\ Reads(line) /\ line.what = "depends" => line.arg.rest = <<>>

\* Of every symbol defined in a file that source lines lead to, in circles
\* or on two ways too, the attributes of one of its definitions are known,
\* those and no others; the others' definitions have no share in it
\* (kconfig.py 58-147).  Where there is one definition, that is what Kconfig
\* says of the symbol; where there are more, Kconfig would take them all.
ParsesEntries ==
    phase = "resolve" /\ tree # NoTree /\ Plain =>
        /\ DOMAIN parsed = {s \in Symbols : Definitions(s) # {}}
        /\ \A s \in DOMAIN parsed : \E d \in Definitions(s) :
              /\ parsed[s].depends = Attributes(d, "depends")
              /\ {x \in Symbols : parsed[s].selects[x] > 0} = Attributes(d, "select")
              /\ {x \in Symbols : parsed[s].implies[x] > 0} = Attributes(d, "imply")

\* What occurs outside the negated parts.
Free(exprs) == UNION {e.free : e \in exprs}

\* Of a symbol's `depends on' expressions that stand on one line, no symbol
\* is lost that occurs outside every negated part, however they are
\* parenthesised, names apart that the pattern does not know (Searched); and
\* if all of them stand on one line, none of a negated part gets in, as long
\* as no negated group holds a group itself (kconfig.py 25, 37-47, 132).
DependsRead ==
    phase = "resolve" /\ tree # NoTree =>
        \A s \in DOMAIN parsed :
            LET exprs == parsed[s].depends
                whole == {e \in exprs : e.rest = <<>>}
            IN  /\ Free(whole) \cap Searched \subseteq db[s].depends
                /\ whole = exprs /\ (\A e \in exprs : ~Nested(e.tokens)) =>
                       db[s].depends \subseteq Free(exprs)
=============================================================================
