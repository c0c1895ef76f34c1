------------------------------ MODULE KconfigExpr ------------------------------
(***************************************************************************)
(* KconfigEntry.depends_symbols of kconfig_builder/kconfig.py: what two    *)
(* substitutions and a search make of an entry's `depends on' expressions. *)
(*                                                                         *)
(* An expression is the sequence of its tokens (the regular expressions    *)
(* skip blanks): those on the line of `depends on', and those that a       *)
(* backslash puts on the lines that follow.  It carries `free', the        *)
(* symbols that occur in it outside every negated part: what the function  *)
(* promises to extract.                                                    *)
(***************************************************************************)
EXTENDS Naturals, Sequences, KconfigGraph

CONSTANTS
    Spelling,  \* of each symbol, as far as _SYMBOL_RE looks at it
    MODULES

Tristates == {"y", "m", "n"}
Marks == {"(", ")", "!", "&&", "||", "=", "!="} \cup Tristates
ASSUME SpellingAssumption ==
    /\ Spelling \in [Symbols -> [first  : {"capital", "digit", "small"},
                                 length : Nat,
                                 small  : BOOLEAN]]  \* small letters in it
    /\ Symbols \cap Marks = {}

\* Expressions as a Kconfig file may write them.
Whole(tokens, free) == [tokens |-> tokens, rest |-> <<>>, free |-> free]
Atom(s) == Whole(<<s>>, {s})
Comparison(s, op, v) == Whole(<<s, op, v>>, {s})
Group(e) == Whole(<<"(">> \o e.tokens \o <<")">>, e.free)
Negated(e) == Whole(<<"!">> \o e.tokens, {})
Binary(d, op, e) == Whole(d.tokens \o <<op>> \o e.tokens, d.free \cup e.free)

\* A backslash after k tokens.
Continued(e, k) == [e EXCEPT !.tokens = SubSeq(@, 1, k),
                             !.rest   = SubSeq(e.tokens, k + 1, Len(e.tokens))]

\* What is negated is a symbol or a group.
FollowsGrammar(set) ==
    /\ \A s \in Symbols : Atom(s) \in set /\ Negated(Atom(s)) \in set
    /\ \A s \in Symbols, op \in {"=", "!="}, v \in Tristates : Comparison(s, op, v) \in set
    /\ \A e \in set : Group(e) \in set /\ Negated(Group(e)) \in set
    /\ \A d, e \in set, op \in {"&&", "||"} : Binary(d, op, e) \in set

Expressions == [tokens : Seq(Symbols \cup Marks), rest : Seq(Symbols \cup Marks),
                free : SUBSET Symbols]
WellFormed(e) == \A set \in SUBSET Expressions : FollowsGrammar(set) => e \in set
-----------------------------------------------------------------------------
\* re.sub(r"!\s*\([^)]*\)", ...): a match runs from "!(" to the first ")".
Opens(t, j) == j < Len(t) /\ t[j] = "!" /\ t[j + 1] = "("

\* Faulty form: a greedy pattern, which runs to the last ")".
Closes_Greedy(t, j, k) == /\ j < k /\ t[k] = ")"
                          /\ \A l \in k + 1 .. Len(t) : t[l] # ")"
Closes(t, j, k) == /\ j < k /\ t[k] = ")"
                   /\ \A l \in j .. k - 1 : t[l] # ")"

\* Matches that start inside a match end with it: the stripped places are
\* those of all of them.
Stripped(t) == {p \in 1 .. Len(t) :
                    \E j \in 1 .. p, k \in p .. Len(t) :
                        Opens(t, j) /\ Closes(t, j, k)}

\* re.sub(r"!\s*[A-Z][A-Z0-9_]*", ...): what it leaves standing, of a name
\* that begins otherwise (!64BIT) or goes on in small letters, the search
\* does not take either.
NegatedAt(t, p) == p > 1 /\ t[p - 1] = "!"

\* _SYMBOL_RE, \b([A-Z][A-Z0-9_]{2,})\b, takes whole words: not 64BIT, PM or
\* FONT_8x16.  MODULES is left out by name.
Searched == {s \in Symbols : /\ Spelling[s].first = "capital"
                             /\ Spelling[s].length >= 3 /\ ~Spelling[s].small
                             /\ s # MODULES}

\* _SYMBOL_RE.findall on what is left.
Extracted(t) == {t[p] : p \in {q \in 1 .. Len(t) \ Stripped(t) :
                                   t[q] \in Searched /\ ~NegatedAt(t, q)}}

\* depends_symbols: what all of an entry's expressions name, each as far as
\* its first line goes.
DependsSymbols(depends) == UNION {Extracted(e.tokens) : e \in depends}
-----------------------------------------------------------------------------
\* A group within a negated group.
Nested(t) == \E j \in 1 .. Len(t), k \in 1 .. Len(t) :
                 /\ Opens(t, j) /\ j + 1 < k /\ t[k] = "("
                 /\ \A l \in j .. k : t[l] # ")"
==============================================================================
