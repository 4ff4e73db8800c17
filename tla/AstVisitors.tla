---- MODULE AstVisitors ----
(***************************************************************************)
(* Walks over the syntax tree.  accept calls the visit method of the       *)
(* node's class; a method a visitor does not override forwards to the one  *)
(* of another class.  walkPostorder (apply.d, sapply.d) makes a visitor of *)
(* its own that goes through the parts of a node and then hands the node   *)
(* to the client, a StoppableVisitor that says with its field stop that    *)
(* the walk is over.  A client can start a walk of its own, with itself or *)
(* with a new client, while it visits a declaration.                       *)
(***************************************************************************)
EXTENDS AstClasses, SequencesExt

CONSTANT Visits   \* records: a tree, a client, and whether it walks the tree
                  \* (walkPostorder) or has only the root (accept)

(***************************************************************************)
(* A client whose answer is its stop and that visits initializers does so  *)
(* with a new client, the answer of which its method for declarations      *)
(* takes over: canThrow (canthrow.d:57-60, 250-252).  No method that goes  *)
(* on to an initializer gives up the walk before: that of VarWalker for    *)
(* declarations does not stop (dinterpret.d:406-438).                      *)
(***************************************************************************)
ASSUME VisitsAssumption ==
  \A visit \in Visits :
    /\ visit.walk \in BOOLEAN
    /\ visit.client.stops /\ visit.client.inits # "none" =>
         /\ visit.client.inits = "new"
         /\ "DeclarationExp" \in visit.client.overwrites
    /\ visit.client.inits # "none" => "DeclarationExp" \notin visit.client.halts

(***************************************************************************)
(* A tree has a root, a class for each node, the nodes in each field of a  *)
(* node, and the nodes at which clients find what they look for (the data  *)
(* they look at: the type of a call, a storage class ...).                 *)
(***************************************************************************)
VARIABLES tree, client,
          calls,      \* the visit calls under way, the last one on top
          walks,      \* field stop of the walkers under way
          objects,    \* the client objects under way: field stop, and finding
          visited,    \* what the clients visited: node and method
          applying    \* the struct literals with stageApply set

vars == <<tree, client, calls, walks, objects, visited, applying>>

Nodes == DOMAIN tree.class

\* The nodes in a field, and in several one after the other.
In(node, field) ==
  IF field \in DOMAIN tree.parts[node] THEN tree.parts[node][field] ELSE <<>>

InAll(node, fields) == FlattenSeq([i \in DOMAIN fields |-> In(node, fields[i])])

(***************************************************************************)
(* PostorderExpressionVisitor and PostorderStatementVisitor: the methods   *)
(* they override, and the fields these go through before applyTo.          *)
(***************************************************************************)
\* MUTANT: slices are left to the method for unary operators.
WalkWithoutSlices ==
  [Expression |-> <<>>,
   NewExp |-> <<"thisexp", "newargs", "arguments">>,
   UnaExp |-> <<"e1">>, BinExp |-> <<"e1", "e2">>,
   TypeidExp |-> <<"obj">>,
   AssertExp |-> <<"e1", "msg">>,
   CallExp |-> <<"e1", "arguments">>, ArrayExp |-> <<"e1", "arguments">>,
   ArrayLiteralExp |-> <<"basis", "elements">>,
   AssocArrayLiteralExp |-> <<"keys", "values">>,
   StructLiteralExp |-> <<"elements">>,
   TupleExp |-> <<"e0", "exps">>,
   CondExp |-> <<"econd", "e1", "e2">>]

ExpressionWalk ==
  [Expression |-> <<>>,
   NewExp |-> <<"thisexp", "newargs", "arguments">>,
   NewAnonClassExp |-> <<"thisexp", "newargs", "arguments">>,
   TypeidExp |-> <<"obj">>,
   UnaExp |-> <<"e1">>,
   BinExp |-> <<"e1", "e2">>,
   AssertExp |-> <<"e1", "msg">>,
   CallExp |-> <<"e1", "arguments">>,
   ArrayExp |-> <<"e1", "arguments">>,
   SliceExp |-> <<"e1", "lwr", "upr">>,
   ArrayLiteralExp |-> <<"basis", "elements">>,
   AssocArrayLiteralExp |-> <<"keys", "values">>,
   StructLiteralExp |-> <<"elements">>,
   TupleExp |-> <<"e0", "exps">>,
   CondExp |-> <<"econd", "e1", "e2">>]

StatementWalk ==
  [Statement |-> <<>>,
   PeelStatement |-> <<"s">>,
   ForStatement |-> <<"_init", "_body">>,
   IfStatement |-> <<"ifbody", "elsebody">>,
   TryCatchStatement |-> <<"_body", "catches">>,
   TryFinallyStatement |-> <<"_body", "finalbody">>]
  @@ [method \in {"CompoundStatement", "UnrolledLoopStatement"} |->
        <<"statements">>]
  @@ [method \in {"WhileStatement", "DoStatement", "ForeachStatement",
                  "ForeachRangeStatement", "PragmaStatement", "SwitchStatement",
                  "SynchronizedStatement", "WithStatement"} |-> <<"_body">>]
  @@ [method \in {"ScopeStatement", "CaseStatement", "DefaultStatement",
                  "ScopeGuardStatement", "DebugStatement", "LabelStatement"} |->
        <<"statement">>]

Walked == ExpressionWalk @@ StatementWalk

(***************************************************************************)
(* The clients.  handles: the methods they override.  always, sometimes:   *)
(* the methods that find what the client looks for, at every node or at    *)
(* some.  stops: a find ends the walk, and stop is the answer; otherwise   *)
(* the answer is a field of the client.  overwrites: the methods that      *)
(* assign the answer, and so clear it when they find nothing, where the    *)
(* others only set it.  halts: the methods that set stop although that is  *)
(* not the answer.  inits: what visits the initializer of a declared       *)
(* variable: nothing, the same client, or a new one of its kind.           *)
(***************************************************************************)
Looks(handles, always, sometimes) ==
  [handles |-> handles \cup always \cup sometimes, always |-> always,
   sometimes |-> sometimes, stops |-> TRUE, overwrites |-> {},
   halts |-> {}, inits |-> "none"]

CanThrow ==
  [Looks({"Expression", "DeclarationExp"}, {},
         {"CallExp", "NewExp", "DeleteExp", "AssignExp"})
     EXCEPT !.inits = "new", !.overwrites = {"DeclarationExp"}]

HasSideEffect ==
  [Looks({}, {}, {"Expression"}) EXCEPT !.overwrites = {"Expression"}]

NOGCVisitor ==
  [Looks({"Expression", "DeclarationExp", "CallExp"}, {},
         {"ArrayLiteralExp", "AssocArrayLiteralExp", "NewExp", "DeleteExp",
          "IndexExp", "AssignExp", "CatAssignExp", "CatExp"})
     EXCEPT !.stops = FALSE, !.inits = "same"]

\* It counts variables in what the walks share, and gives up a walk at an erroneous
\* expression, which it meets in functions and while errors are gagged only.
VarWalker ==
  [Looks({"Expression", "ErrorExp"}, {}, {"DeclarationExp", "IndexExp", "SliceExp"})
     EXCEPT !.stops = FALSE, !.halts = {"ErrorExp"}, !.inits = "new"]

CheckForNestedRef ==
  LET variables == {"SymOffExp", "VarExp", "ThisExp", "DeclarationExp"}
  IN  [Looks({"Expression"}, {}, variables)
         EXCEPT !.stops = FALSE, !.overwrites = variables, !.inits = "new"]

UsesEH ==
  Looks({"Statement"}, {"TryCatchStatement", "TryFinallyStatement",
                        "ScopeGuardStatement", "SynchronizedStatement"}, {})

ComeFrom ==
  Looks({"Statement"}, {"CaseStatement", "DefaultStatement", "LabelStatement",
                        "AsmStatement"}, {})

HasCode ==
  [Looks({"CompoundStatement", "ScopeStatement", "ImportStatement"},
         {"Statement"}, {"ExpStatement"})
     EXCEPT !.overwrites = {"ExpStatement"}]

\* The visitor of the test of the C++ interface, used without a walk.
TestVisitor ==
  [Looks({"Expression", "IdentifierExp", "Package", "Statement", "TypeNext",
          "AttribDeclaration", "Declaration", "AggregateDeclaration",
          "TypeInfoDeclaration"}, {}, {}) EXCEPT !.stops = FALSE]

Finds(c, node, method) ==
  method \in c.always \/ (method \in c.sometimes /\ node \in tree.marks)

(***************************************************************************)
(* The calls of visit.  phase: entered with a method that may only         *)
(* forward; going through parts; the client has had the node; the client   *)
(* waits for the walk of an initializer.                                   *)
(***************************************************************************)
Call(by, node, opens) ==
  [by |-> by, node |-> node, method |-> tree.class[node], todo |-> <<>>,
   phase |-> "entered", opens |-> opens]

Top == calls[Len(calls)]
With(phase, todo) == [calls EXCEPT ![Len(calls)].phase = phase,
                                   ![Len(calls)].todo = todo]
Object == objects[Len(objects)]
NewObject == [stop |-> FALSE, finding |-> FALSE]

Handled(by) == IF by = "walker" THEN DOMAIN Walked ELSE client.handles

Active(by, phase) == calls # <<>> /\ Top.by = by /\ Top.phase = phase
Dispatched(by) == Active(by, "entered") /\ Top.method \in Handled(by)

Init ==
  /\ \E visit \in Visits :
       /\ tree = visit.tree /\ client = visit.client
       /\ calls = <<Call(IF visit.walk THEN "walker" ELSE "client", tree.root,
                         visit.walk)>>
       /\ walks = IF visit.walk THEN <<FALSE>> ELSE <<>>
  /\ objects = <<NewObject>>
  /\ visited = <<>>
  /\ applying = {}

\* A method the visitor does not override: the default one of its class.
Forward ==
  /\ calls # <<>> /\ Top.phase = "entered"
  /\ Top.method \notin Handled(Top.by) \cup Roots
  /\ calls' = [calls EXCEPT ![Len(calls)].method = ForwardsTo[@]]
  /\ UNCHANGED <<tree, client, walks, objects, visited, applying>>

\* MUTANT: the flag is set and never asked for.
LiteralInLiteral ==
  /\ Dispatched("walker")
  /\ Top.method = "StructLiteralExp" /\ Top.node \in applying
  /\ calls' = With("parts", InAll(Top.node, Walked[Top.method]))
  /\ UNCHANGED <<tree, client, walks, objects, visited, applying>>

\* A struct literal that is being walked already (it can contain itself): the
\* method returns at once, and with it the walk if it began here.
LiteralAgain ==
  /\ Dispatched("walker")
  /\ Top.method = "StructLiteralExp" /\ Top.node \in applying
  /\ calls' = Front(calls)
  /\ walks' = IF Top.opens THEN Front(walks) ELSE walks
  /\ UNCHANGED <<tree, client, objects, visited, applying>>

EnterNode ==
  /\ Dispatched("walker")
  /\ ~ (Top.method = "StructLiteralExp" /\ Top.node \in applying)
  /\ calls' = With("parts", InAll(Top.node, Walked[Top.method]))
  /\ applying' = IF Top.method = "StructLiteralExp"
                 THEN applying \cup {Top.node} ELSE applying
  /\ UNCHANGED <<tree, client, walks, objects, visited>>

\* doCond
NextPart ==
  /\ Active("walker", "parts") /\ ~ Last(walks) /\ Top.todo # <<>>
  /\ calls' = Append(With("parts", Tail(Top.todo)),
                     Call("walker", Head(Top.todo), FALSE))
  /\ UNCHANGED <<tree, client, walks, objects, visited, applying>>

\* applyTo: the node is given to the client.
Apply ==
  /\ Active("walker", "parts") /\ ~ Last(walks) /\ Top.todo = <<>>
  /\ calls' = Append(With("applied", <<>>), Call("client", Top.node, FALSE))
  /\ UNCHANGED <<tree, client, walks, objects, visited, applying>>

\* MUTANT: applyTo does not take over the stop of the client.
LeaveNodeGoingOn ==
  /\ \/ Active("walker", "applied")
     \/ Active("walker", "parts") /\ Last(walks)
  /\ walks' = IF Top.opens THEN Front(walks)
              ELSE walks
  /\ applying' = IF Top.method = "StructLiteralExp"
                 THEN applying \ {Top.node} ELSE applying
  /\ calls' = Front(calls)
  /\ UNCHANGED <<tree, client, objects, visited>>

\* MUTANT: a walk that ends inside of a literal leaves it flagged.
LeaveNodeFlagged ==
  /\ \/ Active("walker", "applied")
     \/ Active("walker", "parts") /\ Last(walks)
  /\ walks' = IF Top.opens THEN Front(walks)
              ELSE IF Top.phase = "applied"
                   THEN [walks EXCEPT ![Len(walks)] = Object.stop]
              ELSE walks
  /\ applying' = IF Top.method = "StructLiteralExp" /\ Top.phase = "applied"
                 THEN applying \ {Top.node} ELSE applying
  /\ calls' = Front(calls)
  /\ UNCHANGED <<tree, client, objects, visited>>

(***************************************************************************)
(* The walker is done with a node: it had the client's answer, or a part   *)
(* of the node ended the walk.  The last node of a walk ends it.           *)
(***************************************************************************)
LeaveNode ==
  /\ \/ Active("walker", "applied")
     \/ Active("walker", "parts") /\ Last(walks)
  /\ walks' = IF Top.opens THEN Front(walks)
              ELSE IF Top.phase = "applied"
                   THEN [walks EXCEPT ![Len(walks)] = Object.stop]
              ELSE walks
  /\ applying' = IF Top.method = "StructLiteralExp"
                 THEN applying \ {Top.node} ELSE applying
  /\ calls' = Front(calls)
  /\ UNCHANGED <<tree, client, objects, visited>>

(***************************************************************************)
(* A method of the client.  The method for declarations of some clients    *)
(* goes on to walk the initializer.                                        *)
(***************************************************************************)
After(object, c, node, method) ==
  LET answer(old) ==
        Finds(c, node, method) \/ (old /\ method \notin c.overwrites)
  IN  IF c.stops THEN [object EXCEPT !.stop = answer(@)]
      ELSE [object EXCEPT !.finding = answer(@), !.stop = @ \/ method \in c.halts]

Initializer(node) ==
  IF tree.class[node] = "DeclarationExp" THEN In(node, "declaration") ELSE <<>>

WalksInit(node, method) ==
  /\ client.inits # "none" /\ method = "DeclarationExp"
  /\ Initializer(node) # <<>>
  /\ ~ (method \in client.overwrites /\ Finds(client, node, method))

ClientVisit ==
  /\ Dispatched("client")
  /\ visited' = Append(visited, [node |-> Top.node, method |-> Top.method])
  /\ LET now == [objects EXCEPT ![Len(objects)] =
                   After(@, client, Top.node, Top.method)]
     IN  IF WalksInit(Top.node, Top.method)
         THEN /\ calls' = Append(With("init", <<>>),
                                 Call("walker", Initializer(Top.node)[1], TRUE))
              /\ walks' = Append(walks, FALSE)
              /\ objects' = IF client.inits = "new" THEN Append(now, NewObject)
                            ELSE now
         ELSE /\ calls' = Front(calls)
              /\ objects' = now
              /\ UNCHANGED walks
  /\ UNCHANGED <<tree, client, applying>>

\* MUTANT: the answer about the initializer is thrown away.
InitForgotten ==
  /\ Active("client", "init")
  /\ objects' = IF client.inits = "same" THEN objects ELSE Front(objects)
  /\ calls' = Front(calls)
  /\ UNCHANGED <<tree, client, walks, visited, applying>>

\* The answer of a new client becomes that of the old one, or is added to it; a
\* stop that is no answer ends with the new client's walk.
InitWalked ==
  /\ Active("client", "init")
  /\ objects' =
       IF client.inits = "same" THEN objects
       ELSE LET old  == objects[Len(objects) - 1]
                kept == "DeclarationExp" \notin client.overwrites /\ old.finding
            IN  Append(SubSeq(objects, 1, Len(objects) - 2),
                       [stop |-> old.stop \/ (client.stops /\ Object.stop),
                        finding |-> Object.finding \/ kept])
  /\ calls' = Front(calls)
  /\ UNCHANGED <<tree, client, walks, visited, applying>>

Done == calls = <<>> /\ UNCHANGED vars

Next == \/ Forward \/ LiteralAgain \/ EnterNode \/ NextPart \/ Apply
        \/ LeaveNode \/ ClientVisit \/ InitWalked \/ Done

\* One thread makes the calls, and always makes the next one.
Spec == Init /\ [][Next]_vars /\ WF_vars(Next)

----------------------------------------------------------------------------
(***************************************************************************)
(* Properties                                                              *)
(***************************************************************************)
Nearest(class, methods) ==
  SelectInSeq(Lineage[class], LAMBDA above : above \in methods)

MethodFor(node) ==
  Lineage[tree.class[node]][Nearest(tree.class[node], client.handles)]

Parts(node) ==
  UNION {ToSet(In(node, field)) : field \in PartsOf[tree.class[node]]}

\* The node, those below it, those below these and so on.
Closure(node, below(_)) ==
  LET reach[k \in 0..Cardinality(Nodes)] ==
        IF k = 0 THEN {node}
        ELSE reach[k - 1] \cup UNION {below(n) : n \in reach[k - 1]}
  IN  reach[Cardinality(Nodes)]

Started(node) ==
  IF client.inits = "none" THEN {} ELSE ToSet(Initializer(node))

\* What the walk is to reach from a node: its parts, and initializers.
Reachable(node) == Closure(node, LAMBDA n : Parts(n) \cup Started(n))

\* No node of the walk that starts here makes the client give it up.
Unhalted(node) == \A n \in Closure(node, Parts) : MethodFor(n) \notin client.halts

\* What is reached whatever is given up: all but the walks that can be.
SurelyReached ==
  IF Unhalted(tree.root)
  THEN Closure(tree.root, LAMBDA n : Parts(n) \cup {i \in Started(n) : Unhalted(i)})
  ELSE {}

Finished == calls = <<>>

(***************************************************************************)
(* The stacks have the shapes the code gives them: a walker for each call  *)
(* that opens a walk, and calls no deeper than the tree allows (a literal  *)
(* in itself is entered once).                                             *)
(***************************************************************************)
TypeOK ==
  /\ \A i \in DOMAIN calls :
       /\ calls[i].by \in {"walker", "client"}
       /\ calls[i].node \in Nodes /\ calls[i].method \in Classes
       /\ calls[i].phase \in {"entered", "parts", "applied", "init"}
       /\ ToSet(calls[i].todo) \subseteq Nodes
  /\ Len(walks) = Cardinality({i \in DOMAIN calls : calls[i].opens})
  /\ \A i \in DOMAIN walks : walks[i] \in BOOLEAN
  /\ objects \in Seq([stop : BOOLEAN, finding : BOOLEAN]) /\ objects # <<>>
  /\ applying \subseteq {n \in Nodes : tree.class[n] = "StructLiteralExp"}
  /\ Len(calls) <= 2 * Cardinality(Nodes) + 2

(***************************************************************************)
(* Whatever a visitor overrides, the method that runs on a node is the one *)
(* of the node's own class or of its nearest base class: the forwarding    *)
(* methods of visitor.h, accept and the classes agree, for every class of  *)
(* the tree.                                                               *)
(***************************************************************************)
RightMethod ==
  \A i \in DOMAIN visited : visited[i].method = MethodFor(visited[i].node)

(***************************************************************************)
(* apply.d:20, sapply.d:18: depth first.  A node is visited once, and      *)
(* after every one of its parts, except a part the node is itself inside   *)
(* of (a literal that contains its own address).  Trees have no argprefix: *)
(* the method for NewExp leaves that part out (apply.d:77).                *)
(***************************************************************************)
PostOrder ==
  /\ \A i, j \in DOMAIN visited : i # j => visited[i].node # visited[j].node
  /\ \A i \in DOMAIN visited : \A part \in Parts(visited[i].node) :
       \/ \E j \in 1..i-1 : visited[j].node = part
       \/ visited[i].node \in Reachable(part)

(***************************************************************************)
(* While there is a client that has said stop nothing is visited, by it or *)
(* by one that it waits for; canThrow hands a stop on to the client around *)
(* it before anything else happens (canthrow.d:57-60).                     *)
(***************************************************************************)
StopHolds == [][(\E i \in DOMAIN objects : objects[i].stop)
                => UNCHANGED visited]_vars

(***************************************************************************)
(* The answer of a walk is that of the tree, in whatever order its nodes   *)
(* come: what the client found is at a node the walk is to reach, and what *)
(* its method finds at such a node it has found.  A walk that VarWalker    *)
(* gives up may have missed something, but only that one: the walk around  *)
(* it goes on (dinterpret.d:398, 435).  (lambdaCheckForNestedRef,          *)
(* delegatize.d:136, neither stops nor keeps what it found: its answer is  *)
(* that of the last variable.)                                             *)
(***************************************************************************)
AnswerRight ==
  Finished /\ visited # <<>> /\ client # CheckForNestedRef =>
    LET answer == IF client.stops THEN objects[1].stop ELSE objects[1].finding
        found(nodes) == \E node \in nodes : Finds(client, node, MethodFor(node))
    IN  /\ answer => found(Reachable(tree.root))
        /\ found(SurelyReached) => answer

(***************************************************************************)
(* apply.d:131-136: a literal is flagged exactly while a walk is inside of *)
(* it, also when the walk ended early: a flag left behind would hide the   *)
(* literal from every later walk.                                          *)
(***************************************************************************)
FlagsFollowCalls ==
  applying = {calls[i].node : i \in
                {k \in DOMAIN calls : /\ calls[k].method = "StructLiteralExp"
                                      /\ calls[k].phase # "entered"}}

(***************************************************************************)
(* Every walk comes to an end, over literals that contain themselves too.  *)
(***************************************************************************)
Terminates == <>Finished
====
