---- MODULE AstVisitorsMC ----
(***************************************************************************)
(* Instances of AstVisitors: the trees, and which client visits them.      *)
(***************************************************************************)
EXTENDS AstVisitors

Under(root) == {class \in Classes : Last(Lineage[class]) = root}

(***************************************************************************)
(* Classes no client gets: they are rewritten by semantic analysis.        *)
(***************************************************************************)
Lowered == {"IntervalExp", "CompileExp", "NewAnonClassExp",
            "ForwardingStatement", "ConditionalStatement", "CompileStatement",
            "StaticForeachStatement", "CaseRangeStatement"}

Marks(nodes) == {{}} \cup {{n} : n \in nodes} \cup {nodes}

Tree(class, parts) ==
  {[root |-> 1, class |-> class, parts |-> parts, marks |-> marks] :
     marks \in Marks(DOMAIN class)}

(***************************************************************************)
(* A node of the class with every part filled, by leaves of the classes;   *)
(* the last field of a kind that can be a list holds two.                  *)
(***************************************************************************)
Lists == {"exps", "elements", "keys", "values", "newargs", "arguments",
          "statements", "catches"}

Full(class, fields, leaf(_)) ==
  LET order == SetToSeq(fields)
      first[i \in 1..Len(order) + 1] ==
        IF i = 1 THEN 2
        ELSE first[i - 1] + (IF order[i - 1] \in Lists THEN 2 ELSE 1)
      nodes == 1..first[Len(order) + 1] - 1
  IN  Tree([n \in nodes |-> IF n = 1 THEN class ELSE leaf(n)],
           [n \in nodes |->
              IF n > 1 THEN <<>>
              ELSE [field \in fields |->
                      LET i == CHOOSE k \in DOMAIN order : order[k] = field
                          size == first[i + 1] - first[i]
                      IN  [k \in 1..size |-> first[i] + k - 1]]])

ExpressionLeaf(n) ==
  <<"IntegerExp", "CallExp", "DeclarationExp", "VarExp">>[(n % 4) + 1]
StatementLeaf(n) ==
  <<"ExpStatement", "LabelStatement", "GccAsmStatement">>[(n % 3) + 1]

\* NewExp.argprefix is left empty: no walk goes there.
FullExpressions ==
  UNION {Full(class, PartsOf[class] \ {"argprefix"}, ExpressionLeaf) :
           class \in Under("Expression") \ Lowered}
FullStatements ==
  UNION {Full(class, PartsOf[class], StatementLeaf) :
           class \in Under("Statement") \ Lowered}

(***************************************************************************)
(* A literal that contains its own address, twice, next to a call; a       *)
(* condition with declarations in its branches, one of them initialized    *)
(* with a literal, the other with a declaration of its own; nested         *)
(* statements.                                                             *)
(***************************************************************************)
OwnAddress ==
  Tree(<<"CommaExp", "StructLiteralExp", "AddrExp", "AddrExp", "CallExp">>,
       <<[e1 |-> <<2>>, e2 |-> <<5>>], [elements |-> <<3, 4>>],
         [e1 |-> <<2>>], [e1 |-> <<2>>], [e1 |-> <<>>]>>)

Declarations ==
  Tree(<<"CondExp", "CallExp", "DeclarationExp", "StructLiteralExp", "VarExp",
         "DeclarationExp", "IndexExp", "CallExp">>,
       <<[econd |-> <<2>>, e1 |-> <<3>>, e2 |-> <<6>>], <<>>,
         [declaration |-> <<4>>], [elements |-> <<5>>], <<>>,
         [declaration |-> <<7>>], [e1 |-> <<8>>], <<>>>>)

\* Erroneous expressions: in the initializer of a declaration, before another
\* declaration and with an index after it; and at the start of the walk.
Erroneous ==
  Tree(<<"CommaExp", "DeclarationExp", "CommaExp", "ErrorExp", "DeclarationExp", "IndexExp">>,
       <<[e1 |-> <<2>>, e2 |-> <<6>>], [declaration |-> <<3>>],
         [e1 |-> <<4>>, e2 |-> <<5>>], <<>>, <<>>, <<>>>>)
  \cup Tree(<<"CommaExp", "ErrorExp", "DeclarationExp">>,
            <<[e1 |-> <<2>>, e2 |-> <<3>>], <<>>, <<>>>>)

NestedStatements ==
  Tree(<<"TryFinallyStatement", "ForStatement", "CompoundStatement",
         "ExpStatement", "ScopeStatement", "IfStatement", "LabelStatement">>,
       <<[_body |-> <<2>>, finalbody |-> <<3>>],
         [_init |-> <<4>>, _body |-> <<5>>], [statements |-> <<6, 7>>], <<>>,
         <<>>, <<>>, <<>>>>)

\* One node of any class.
Single(class) ==
  [root |-> 1, class |-> <<class>>, parts |-> <<<<>>>>, marks |-> {}]

Walks(clients, trees) == [client : clients, tree : trees, walk : {TRUE}]

ExpressionClients == {CanThrow, HasSideEffect, NOGCVisitor, VarWalker,
                      CheckForNestedRef}
StatementClients == {UsesEH, ComeFrom, HasCode}

\* A visitor that overrides the methods without default and one other.
Probe(class) == [Looks(Roots \cup {class}, {}, {}) EXCEPT !.stops = FALSE]

Accepts ==
  UNION {[client : {Probe(above) : above \in ToSet(Lineage[class])},
          tree : {Single(class)}, walk : {FALSE}] : class \in Classes}
  \cup [client : {TestVisitor}, walk : {FALSE},
        tree : {Single(class) : class \in
                  {c \in Classes : Nearest(c, TestVisitor.handles) # 0}}]

WalkVisits ==
  Walks(ExpressionClients,
        FullExpressions \cup OwnAddress \cup Declarations \cup Erroneous)
  \cup Walks(StatementClients, FullStatements \cup NestedStatements)
  \cup Accepts

====
