------------------------------- MODULE FdtParse -------------------------------
(***************************************************************************)
(* parse_fdt and scan_dt of kconfig_builder/hardware/dt.py: what the walk  *)
(* over a flattened device tree's tokens collects, and which of the .dtb   *)
(* files at hand is taken.                                                 *)
(*                                                                         *)
(* A tree is the sequence of its nodes as the file has them, each before   *)
(* its children: [depth, compatible].  A node is named by its place in the *)
(* sequence, and so is its list of compatible strings, which is not there, *)
(* blank (no string in it), or listed.                                     *)
(***************************************************************************)
EXTENDS Naturals, Sequences

Trees(size) ==
    {t \in [1 .. size -> [depth : 1 .. size, compatible : {"absent", "blank", "listed"}]] :
        /\ t[1].depth = 1
        /\ \A k \in 2 .. size : t[k].depth \in 2 .. t[k - 1].depth + 1}

\* The nodes that end after node k and before the next one begins.
Ends(tree, k) ==
    tree[k].depth + 1 - (IF k = Len(tree) THEN 1 ELSE tree[k + 1].depth)

\* A device tree source puts a node's properties before its children; another
\* property may come before and after `compatible', and NOPs anywhere.
Prop(name, k) == [token |-> "PROP", name |-> name, node |-> k]
Props(tree, k) ==
    IF tree[k].compatible = "absent" THEN <<>>
    ELSE <<Prop("compatible", k), [token |-> "NOP"], Prop("status", k)>>
NodeTokens(tree, k) ==
    <<[token |-> "BEGIN_NODE", name |-> k]>> \o Props(tree, k)
    \o [i \in 1 .. Ends(tree, k) |-> [token |-> "END_NODE"]]

\* The structure block: the tokens of one node after the other's, and END.
Token(tree, offset) ==
    IF offset.node > Len(tree) THEN [token |-> "END"]
    ELSE NodeTokens(tree, offset.node)[offset.token]
After(tree, offset) ==
    IF offset.token < Len(NodeTokens(tree, offset.node))
    THEN [offset EXCEPT !.token = @ + 1]
    ELSE [node |-> offset.node + 1, token |-> 1]
-----------------------------------------------------------------------------
(* The walk: path_stack, node_props' `compatible' (a node, or 0), devices. *)

NoProps == 0
Walk(path, props, devices) == [path |-> path, props |-> props, devices |-> devices]
NoWalk == Walk(<<>>, NoProps, {})

BeginNode(w, name) == Walk(Append(w.path, name), NoProps, w.devices)

\* A device is added for a list with something in it.
Collected(w, tree) ==
    IF w.props # NoProps /\ w.path # <<>> /\ tree[w.props].compatible = "listed"
    THEN {[path |-> w.path, compatible |-> w.props]} ELSE {}
Popped(path) == IF path = <<>> THEN path ELSE SubSeq(path, 1, Len(path) - 1)

\* Faulty form: the properties of a node outlive it.
EndNode_Keeps(w, tree) ==
    Walk(Popped(w.path), w.props, w.devices \cup Collected(w, tree))
EndNode(w, tree) == Walk(Popped(w.path), NoProps, w.devices \cup Collected(w, tree))

ReadProp(w, p) == IF p.name = "compatible" THEN Walk(w.path, p.node, w.devices) ELSE w

\* One turn of the loop.
Walked(w, t, tree) ==
    CASE t.token = "BEGIN_NODE" -> BeginNode(w, t.name)
      [] t.token = "END_NODE"   -> EndNode(w, tree)
      [] t.token = "PROP"       -> ReadProp(w, t)
      [] t.token = "NOP"        -> w
-----------------------------------------------------------------------------
(* Files: unreadable, not a blob (or shorter than its first two numbers),  *)
(* or a blob, which may have been cut within its header or, the names of   *)
(* properties being at the end, anywhere behind it.                        *)

Blob(tree, cut) == [kind |-> "fdt", tree |-> tree, cut |-> cut]
Unusable(f) == f.kind \in {"unreadable", "foreign"}

\* struct.error for the header, ValueError for the name of a property.
HeaderRaises(f) == f.cut = "header"
TokenRaises(f, t) == f.cut = "names" /\ t.token = "PROP"

\* The first candidate that is a blob; none, where there is none.
Taken(files) == {files[i] : i \in {j \in 1 .. Len(files) :
                                       /\ ~Unusable(files[j])
                                       /\ \A k \in 1 .. j - 1 : Unusable(files[k])}}
-----------------------------------------------------------------------------
(* What the tree says.                                                     *)

\* The last node at each depth up to the node's own.
Latest(nodes) == CHOOSE k \in nodes : \A j \in nodes : j <= k
Above(tree, k, d) == Latest({j \in 1 .. k : tree[j].depth = d})
PathOf(tree, k) == [d \in 1 .. tree[k].depth |-> Above(tree, k, d)]
Leaf(tree, k) == k = Len(tree) \/ tree[k + 1].depth <= tree[k].depth

\* The leaves that name what they are compatible with, as devices.
Leaves(tree) ==
    {[path |-> PathOf(tree, k), compatible |-> k] :
        k \in {j \in 1 .. Len(tree) : tree[j].compatible = "listed" /\ Leaf(tree, j)}}
=============================================================================
