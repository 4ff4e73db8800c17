--------------------------- MODULE ModuleSearchMC ---------------------------
(***************************************************************************)
(* The modules that TLC looks names up in: import graphs over a, b and c,   *)
(* one identifier that they declare in various ways, and others that nobody  *)
(* declares.                                                                *)
(***************************************************************************)
EXTENDS ModuleSearch

\* Lists of at most n imports of m.
ImportLists(m, n) ==
    LET entry == [mod : Module \ {m}, public : BOOLEAN]
    IN {l \in UNION {[1..k -> entry] : k \in 0..n} : Len(l) = 2 => l[1].mod # l[2].mod}

\* Declarations and imports are added to a only.
Bounds(l, X, c) == [lookups |-> l, idents |-> X, changes |-> c, places |-> {"a"}]

With(graphs, kinds, bounds) ==
    {[decl |-> [m \in Module |-> [x \in Ident |-> IF x = "x" THEN k[m] ELSE "none"]],
      imports |-> g, bound |-> bounds] :
        k \in kinds, g \in graphs}

Three(A, B, C) ==
    {[m \in Module |-> CASE m = "a" -> x [] m = "b" -> y [] m = "c" -> z] :
        x \in A, y \in B, z \in C}

\* Every import graph in which c has one import at most, cyclic or not, for
\* one lookup.
AllGraphs ==
    With(Three(ImportLists("a", 2), ImportLists("b", 2), ImportLists("c", 1)),
         Three({"none"}, {"none", "variable", "function"}, Kind \ {"none"}), Bounds(1, {"x"}, 0))

\* Those in which b and c have one import at most, for two lookups.
SmallGraphs ==
    With(Three(ImportLists("a", 2), ImportLists("b", 1), ImportLists("c", 1)),
         Three({"none"}, {"none", "function"}, {"variable", "function", "private"}),
         Bounds(2, {"x"}, 0))

\* A few without a cycle, in which a is changed between two lookups: two changes are
\* needed to add an import.
ChangingGraphs ==
    With(Three({<<>>, <<[mod |-> "b", public |-> TRUE]>>, <<[mod |-> "c", public |-> FALSE]>>},
               {<<>>, <<[mod |-> "c", public |-> TRUE]>>}, {<<>>}),
         Three({"none"}, {"none"}, {"none", "function"}), Bounds(2, {"x", "y"}, 2))

AllPrograms == AllGraphs \cup SmallGraphs \cup ChangingGraphs
=============================================================================
