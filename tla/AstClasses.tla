---- MODULE AstClasses ----
(***************************************************************************)
(* The classes of the syntax tree, as the C++ interface of the front end   *)
(* declares them (the headers next to the D sources), and the default      *)
(* methods of the visitor (visitor.h; parsetimevisitor.d and visitor.d     *)
(* have the same tables).  A table of classes is a relation: the pairs     *)
(* <<class, base class>> the declarations of one part of a header make.    *)
(***************************************************************************)
EXTENDS Naturals, Sequences, FiniteSets, TLC

Heirs(base, classes) == classes \X {base}

(***************************************************************************)
(* The roots: their methods have no default, they assert.                  *)
(***************************************************************************)
Roots == {"Dsymbol", "Parameter", "Statement", "Type", "Expression",
          "TemplateParameter", "Condition", "Initializer"}

(***************************************************************************)
(* The headers.  A class that is listed also overrides accept, which calls *)
(* the visit method of its own class.                                      *)
(***************************************************************************)

\* dsymbol.h: a symbol, a symbol with a table, and the tables made for a scope.
ScopeSymbols ==
  UNION {Heirs("Dsymbol", {"ScopeDsymbol", "OverloadSet"}),
         Heirs("ScopeDsymbol", {"WithScopeSymbol", "ArrayScopeSymbol"})}

\* aliasthis.h: alias this.
AliasThisSymbols ==
  Heirs("Dsymbol", {"AliasThis"})

\* import.h: an import declaration.
ImportSymbols ==
  Heirs("Dsymbol", {"Import"})

\* nspace.h: a C++ namespace.
NamespaceSymbols ==
  Heirs("ScopeDsymbol", {"Nspace"})

\* staticassert.h: a static assert.
StaticAsserts ==
  Heirs("Dsymbol", {"StaticAssert"})

\* version.h: debug = and version = .
VersionSymbols ==
  Heirs("Dsymbol", {"DebugSymbol", "VersionSymbol"})

\* enum.h: an enum is a scope, a member of it a variable.
EnumSymbols ==
  UNION {Heirs("ScopeDsymbol", {"EnumDeclaration"}),
         Heirs("VarDeclaration", {"EnumMember"})}

\* module.h: packages and modules.
ModuleSymbols ==
  UNION {Heirs("ScopeDsymbol", {"Package"}),
         Heirs("Package", {"Module"})}

\* aggregate.h: what all aggregates share, struct and union.
StructSymbols ==
  UNION {Heirs("ScopeDsymbol", {"AggregateDeclaration"}),
         Heirs("AggregateDeclaration", {"StructDeclaration"}),
         Heirs("StructDeclaration", {"UnionDeclaration"})}

\* aggregate.h: classes and interfaces.
ClassSymbols ==
  UNION {Heirs("AggregateDeclaration", {"ClassDeclaration"}),
         Heirs("ClassDeclaration", {"InterfaceDeclaration"})}

\* attrib.h: blocks of declarations under an attribute.
AttributeBlocks ==
  UNION {Heirs("Dsymbol", {"AttribDeclaration"}),
         Heirs("AttribDeclaration", {"StorageClassDeclaration",
              "LinkDeclaration", "CPPMangleDeclaration", "ProtDeclaration",
              "AlignDeclaration", "AnonDeclaration", "PragmaDeclaration"}),
         Heirs("StorageClassDeclaration", {"DeprecatedDeclaration"})}

\* attrib.h: blocks that are there or not, are repeated, or come from a string.
ConditionalBlocks ==
  UNION {Heirs("AttribDeclaration", {"ConditionalDeclaration",
              "CompileDeclaration", "UserAttributeDeclaration"}),
         Heirs("ConditionalDeclaration", {"StaticIfDeclaration",
              "StaticForeachDeclaration"})}

\* declaration.h: a declaration, and those that stand for other symbols.
AliasLikeSymbols ==
  UNION {Heirs("Dsymbol", {"Declaration"}),
         Heirs("Declaration", {"TupleDeclaration", "AliasDeclaration",
              "OverDeclaration"})}

\* declaration.h: variables, and the variables the compiler makes.
VariableSymbols ==
  UNION {Heirs("Declaration", {"VarDeclaration", "SymbolDeclaration"}),
         Heirs("VarDeclaration", {"TypeInfoDeclaration"})}

\* declaration.h: one TypeInfo class for each kind of type, and this.
TypeInfoSymbols ==
  UNION {Heirs("TypeInfoDeclaration", {"TypeInfoStructDeclaration",
              "TypeInfoClassDeclaration", "TypeInfoInterfaceDeclaration",
              "TypeInfoPointerDeclaration", "TypeInfoArrayDeclaration",
              "TypeInfoStaticArrayDeclaration",
              "TypeInfoAssociativeArrayDeclaration",
              "TypeInfoEnumDeclaration", "TypeInfoFunctionDeclaration",
              "TypeInfoDelegateDeclaration", "TypeInfoTupleDeclaration",
              "TypeInfoConstDeclaration", "TypeInfoInvariantDeclaration",
              "TypeInfoSharedDeclaration", "TypeInfoWildDeclaration",
              "TypeInfoVectorDeclaration"}),
         Heirs("VarDeclaration", {"ThisDeclaration"})}

\* declaration.h: functions, aliases of functions and function literals.
FunctionSymbols ==
  UNION {Heirs("Declaration", {"FuncDeclaration"}),
         Heirs("FuncDeclaration", {"FuncAliasDeclaration",
              "FuncLiteralDeclaration"})}

\* declaration.h: the functions with a fixed role.
LifetimeFunctions ==
  UNION {Heirs("FuncDeclaration", {"CtorDeclaration", "PostBlitDeclaration",
              "DtorDeclaration", "StaticCtorDeclaration",
              "StaticDtorDeclaration", "InvariantDeclaration",
              "UnitTestDeclaration", "NewDeclaration", "DeleteDeclaration"}),
         Heirs("StaticCtorDeclaration", {"SharedStaticCtorDeclaration"}),
         Heirs("StaticDtorDeclaration", {"SharedStaticDtorDeclaration"})}

\* template.h: a template.
TemplateSymbols ==
  Heirs("ScopeDsymbol", {"TemplateDeclaration"})

\* template.h: the kinds of template parameter.
TemplateParameters ==
  UNION {Heirs("TemplateParameter", {"TemplateTypeParameter",
              "TemplateValueParameter", "TemplateAliasParameter",
              "TemplateTupleParameter"}),
         Heirs("TemplateTypeParameter", {"TemplateThisParameter"})}

\* template.h: instances and mixins.
TemplateInstanceSymbols ==
  UNION {Heirs("ScopeDsymbol", {"TemplateInstance"}),
         Heirs("TemplateInstance", {"TemplateMixin"})}

\* mtype.h: basic, vector and array types.
BasicTypes ==
  UNION {Heirs("Type", {"TypeError", "TypeNext", "TypeBasic", "TypeVector"}),
         Heirs("TypeNext", {"TypeArray"}),
         Heirs("TypeArray", {"TypeSArray", "TypeDArray", "TypeAArray"})}

\* mtype.h: pointers, references, functions and delegates.
PointerAndFunctionTypes ==
  Heirs("TypeNext", {"TypePointer", "TypeReference", "TypeFunction",
       "TypeDelegate"})

\* mtype.h: types that are still names to look up.
NamedTypes ==
  UNION {Heirs("Type", {"TypeTraits", "TypeQualified"}),
         Heirs("TypeQualified", {"TypeIdentifier", "TypeInstance",
              "TypeTypeof", "TypeReturn"})}

\* mtype.h: types of a symbol, tuples, slices of tuples and null.
SymbolTypes ==
  UNION {Heirs("Type", {"TypeStruct", "TypeEnum", "TypeClass", "TypeTuple",
              "TypeNull"}),
         Heirs("TypeNext", {"TypeSlice"})}

\* cond.h: the conditions of conditional compilation.
Conditions ==
  UNION {Heirs("Condition", {"DVCondition", "StaticIfCondition"}),
         Heirs("DVCondition", {"DebugCondition", "VersionCondition"})}

\* init.h: initializers.
Initializers ==
  Heirs("Initializer", {"VoidInitializer", "ErrorInitializer",
       "StructInitializer", "ArrayInitializer", "ExpInitializer"})

\* expression.h: literals of a basic type, names, this, super and null.
Literals ==
  UNION {Heirs("Expression", {"IntegerExp", "ErrorExp", "RealExp",
              "ComplexExp", "IdentifierExp", "DsymbolExp", "ThisExp",
              "NullExp", "StringExp"}),
         Heirs("IdentifierExp", {"DollarExp"}),
         Heirs("ThisExp", {"SuperExp"})}

\* expression.h: tuples, literals with elements, and new.
AggregateLiterals ==
  Heirs("Expression", {"TupleExp", "ArrayLiteralExp",
       "AssocArrayLiteralExp", "StructLiteralExp", "TypeExp",
       "ScopeExp", "TemplateExp", "NewExp", "NewAnonClassExp"})

\* expression.h: references to symbols, declarations and compile-time queries.
Names ==
  UNION {Heirs("Expression", {"SymbolExp", "OverExp", "FuncExp",
              "DeclarationExp", "TypeidExp", "TraitsExp", "HaltExp",
              "IsExp"}),
         Heirs("SymbolExp", {"SymOffExp", "VarExp"})}

\* expression.h: the unary and binary operators, and the unary ones up to calls.
OperatorBases ==
  UNION {Heirs("Expression", {"UnaExp", "BinExp"}),
         Heirs("BinExp", {"BinAssignExp"}),
         Heirs("UnaExp", {"CompileExp", "ImportExp", "AssertExp", "DotIdExp",
              "DotTemplateExp", "DotVarExp", "DotTemplateInstanceExp",
              "DelegateExp", "DotTypeExp", "CallExp"})}

\* expression.h: the other unary operators, slices and index lists.
UnaryOperators ==
  UNION {Heirs("UnaExp", {"AddrExp", "PtrExp", "NegExp", "UAddExp", "ComExp",
              "NotExp", "DeleteExp", "CastExp", "VectorExp", "SliceExp",
              "ArrayLengthExp", "DelegatePtrExp", "DelegateFuncptrExp",
              "ArrayExp"}),
         Heirs("Expression", {"IntervalExp"})}

\* expression.h: comma, index, ++, -- and assignment.
CommaIndexAssign ==
  UNION {Heirs("BinExp", {"DotExp", "CommaExp", "IndexExp", "PostExp",
              "AssignExp"}),
         Heirs("UnaExp", {"PreExp"}),
         Heirs("AssignExp", {"ConstructExp", "BlitExp"})}

\* expression.h: op= .
OperatorAssignments ==
  Heirs("BinAssignExp", {"AddAssignExp", "MinAssignExp",
       "MulAssignExp", "DivAssignExp", "ModAssignExp", "AndAssignExp",
       "OrAssignExp", "XorAssignExp", "PowAssignExp", "ShlAssignExp",
       "ShrAssignExp", "UshrAssignExp", "CatAssignExp"})

\* expression.h: the other binary operators and ?: .
BinaryOperators ==
  Heirs("BinExp", {"AddExp", "MinExp", "CatExp", "MulExp", "DivExp",
       "ModExp", "PowExp", "ShlExp", "ShrExp", "UshrExp", "AndExp",
       "OrExp", "XorExp", "LogicalExp", "CmpExp", "InExp",
       "RemoveExp", "EqualExp", "IdentityExp", "CondExp"})

\* expression.h: __FILE__ and its like, and Objective-C classes.
SpecialLiterals ==
  UNION {Heirs("Expression", {"DefaultInitExp", "ObjcClassReferenceExp"}),
         Heirs("DefaultInitExp", {"FileInitExp", "LineInitExp",
              "ModuleInitExp", "FuncInitExp", "PrettyFuncInitExp"})}

\* ctfe.h: values only the interpreter has.
CtfeLiterals ==
  Heirs("Expression", {"ClassReferenceExp", "VoidInitExp",
       "ThrownExceptionExp"})

\* statement.h: expressions, lists and scopes.
SimpleStatements ==
  UNION {Heirs("Statement", {"ErrorStatement", "PeelStatement",
              "ExpStatement", "CompileStatement", "CompoundStatement",
              "UnrolledLoopStatement", "ScopeStatement",
              "ForwardingStatement"}),
         Heirs("ExpStatement", {"DtorExpStatement"}),
         Heirs("CompoundStatement", {"CompoundDeclarationStatement"})}

\* statement.h: loops, if, and the static forms.
LoopsAndConditions ==
  Heirs("Statement", {"WhileStatement", "DoStatement", "ForStatement",
       "ForeachStatement", "ForeachRangeStatement", "IfStatement",
       "ConditionalStatement", "StaticForeachStatement",
       "PragmaStatement", "StaticAssertStatement"})

\* statement.h: switch, its labels, and jumps.
SwitchesAndJumps ==
  Heirs("Statement", {"SwitchStatement", "CaseStatement",
       "CaseRangeStatement", "DefaultStatement",
       "GotoDefaultStatement", "GotoCaseStatement",
       "SwitchErrorStatement", "ReturnStatement", "BreakStatement",
       "ContinueStatement"})

\* statement.h: synchronized, with, try, scope guards and throw.
GuardedStatements ==
  Heirs("Statement", {"SynchronizedStatement", "WithStatement",
       "TryCatchStatement", "TryFinallyStatement",
       "ScopeGuardStatement", "ThrowStatement", "DebugStatement"})

\* statement.h: goto, labels, assembly and imports.
LabelsAndAssembly ==
  UNION {Heirs("Statement", {"GotoStatement", "LabelStatement",
              "AsmStatement", "ImportStatement"}),
         Heirs("Dsymbol", {"LabelDsymbol"}),
         Heirs("AsmStatement", {"InlineAsmStatement", "GccAsmStatement"}),
         Heirs("CompoundStatement", {"CompoundAsmStatement"})}

Declared ==
  UNION {ScopeSymbols, AliasThisSymbols, ImportSymbols, NamespaceSymbols,
         StaticAsserts, VersionSymbols, EnumSymbols, ModuleSymbols,
         StructSymbols, ClassSymbols, AttributeBlocks, ConditionalBlocks,
         AliasLikeSymbols, VariableSymbols, TypeInfoSymbols,
         FunctionSymbols, LifetimeFunctions, TemplateSymbols,
         TemplateParameters, TemplateInstanceSymbols, BasicTypes,
         PointerAndFunctionTypes, NamedTypes, SymbolTypes, Conditions,
         Initializers, Literals, AggregateLiterals, Names, OperatorBases,
         UnaryOperators, CommaIndexAssign, OperatorAssignments,
         BinaryOperators, SpecialLiterals, CtfeLiterals, SimpleStatements,
         LoopsAndConditions, SwitchesAndJumps, GuardedStatements,
         LabelsAndAssembly}

Classes == Roots \cup {pair[1] : pair \in Declared}

HeaderBase == [class \in Classes \ Roots |->
                 (CHOOSE pair \in Declared : pair[1] = class)[2]]

(***************************************************************************)
(* The D classes, of which the objects are made, have the bases the        *)
(* headers declare except in two places: CompileExp (expression.d:4331) is *)
(* no UnaExp and StaticForeachDeclaration (attrib.d:928) no                *)
(* ConditionalDeclaration.                                                 *)
(***************************************************************************)
Base == [HeaderBase EXCEPT !["CompileExp"] = "Expression",
                           !["StaticForeachDeclaration"] = "AttribDeclaration"]

\* The class and the classes above it, from the nearest on.
Lineage == [class \in Classes |->
  LET up[k \in 0..6] ==
        IF k = 0 THEN <<class>>
        ELSE LET below == up[k - 1]
                 top == below[Len(below)]
             IN  IF top \in Roots THEN below ELSE Append(below, Base[top])
  IN  up[6]]

(***************************************************************************)
(* visitor.h: visit of a class calls visit of another one.                 *)
(***************************************************************************)

\* Symbols of the parsed tree.
SymbolForwards ==
  UNION {Heirs("Dsymbol", {"AliasThis", "Declaration", "ScopeDsymbol",
              "Import", "AttribDeclaration", "StaticAssert", "DebugSymbol",
              "VersionSymbol"}),
         Heirs("ScopeDsymbol", {"Package", "EnumDeclaration",
              "AggregateDeclaration", "TemplateDeclaration",
              "TemplateInstance", "Nspace"}),
         Heirs("Declaration", {"VarDeclaration", "FuncDeclaration",
              "AliasDeclaration", "TupleDeclaration"}),
         Heirs("FuncDeclaration", {"FuncLiteralDeclaration",
              "PostBlitDeclaration", "CtorDeclaration", "DtorDeclaration",
              "InvariantDeclaration", "UnitTestDeclaration",
              "NewDeclaration", "DeleteDeclaration", "StaticCtorDeclaration",
              "StaticDtorDeclaration"}),
         Heirs("StaticCtorDeclaration", {"SharedStaticCtorDeclaration"}),
         Heirs("StaticDtorDeclaration", {"SharedStaticDtorDeclaration"}),
         Heirs("AttribDeclaration", {"CompileDeclaration",
              "UserAttributeDeclaration", "LinkDeclaration",
              "AnonDeclaration", "AlignDeclaration", "CPPMangleDeclaration",
              "ProtDeclaration", "PragmaDeclaration",
              "StorageClassDeclaration", "ConditionalDeclaration",
              "StaticForeachDeclaration"}),
         Heirs("StorageClassDeclaration", {"DeprecatedDeclaration"}),
         Heirs("ConditionalDeclaration", {"StaticIfDeclaration"}),
         Heirs("VarDeclaration", {"EnumMember"}),
         Heirs("Package", {"Module"}),
         Heirs("AggregateDeclaration", {"StructDeclaration",
              "ClassDeclaration"}),
         Heirs("StructDeclaration", {"UnionDeclaration"}),
         Heirs("ClassDeclaration", {"InterfaceDeclaration"}),
         Heirs("TemplateInstance", {"TemplateMixin"})}

\* Statements of the parsed tree.
StatementForwards ==
  UNION {Heirs("Statement", {"ImportStatement", "ScopeStatement",
              "ReturnStatement", "LabelStatement", "StaticAssertStatement",
              "CompileStatement", "WhileStatement", "ForStatement",
              "DoStatement", "ForeachRangeStatement", "ForeachStatement",
              "IfStatement", "ScopeGuardStatement", "ConditionalStatement",
              "StaticForeachStatement", "PragmaStatement", "SwitchStatement",
              "CaseRangeStatement", "CaseStatement", "DefaultStatement",
              "BreakStatement", "ContinueStatement", "GotoDefaultStatement",
              "GotoCaseStatement", "GotoStatement", "SynchronizedStatement",
              "WithStatement", "TryCatchStatement", "TryFinallyStatement",
              "ThrowStatement", "AsmStatement", "ExpStatement",
              "CompoundStatement"}),
         Heirs("CompoundStatement", {"CompoundDeclarationStatement",
              "CompoundAsmStatement"}),
         Heirs("AsmStatement", {"InlineAsmStatement", "GccAsmStatement"})}

\* Types of the parsed tree.
TypeForwards ==
  UNION {Heirs("Type", {"TypeBasic", "TypeError", "TypeNull", "TypeVector",
              "TypeEnum", "TypeTuple", "TypeClass", "TypeStruct", "TypeNext",
              "TypeQualified", "TypeTraits"}),
         Heirs("TypeNext", {"TypeReference", "TypeSlice", "TypeDelegate",
              "TypePointer", "TypeFunction", "TypeArray"}),
         Heirs("TypeArray", {"TypeDArray", "TypeAArray", "TypeSArray"}),
         Heirs("TypeQualified", {"TypeIdentifier", "TypeReturn",
              "TypeTypeof", "TypeInstance"})}

\* Expressions of the parsed tree.
ExpressionForwards ==
  UNION {Heirs("Expression", {"DeclarationExp", "IntegerExp",
              "NewAnonClassExp", "IsExp", "RealExp", "NullExp", "TypeidExp",
              "TraitsExp", "StringExp", "NewExp", "AssocArrayLiteralExp",
              "ArrayLiteralExp", "CompileExp", "FuncExp", "IntervalExp",
              "TypeExp", "ScopeExp", "IdentifierExp", "UnaExp",
              "DefaultInitExp", "BinExp", "DsymbolExp", "TemplateExp",
              "SymbolExp", "TupleExp", "ThisExp"}),
         Heirs("SymbolExp", {"VarExp"}),
         Heirs("IdentifierExp", {"DollarExp"}),
         Heirs("ThisExp", {"SuperExp"}),
         Heirs("UnaExp", {"AddrExp", "PreExp", "PtrExp", "NegExp", "UAddExp",
              "NotExp", "ComExp", "DeleteExp", "CastExp", "CallExp",
              "DotIdExp", "AssertExp", "ImportExp", "DotTemplateInstanceExp",
              "ArrayExp"}),
         Heirs("DefaultInitExp", {"FuncInitExp", "PrettyFuncInitExp",
              "FileInitExp", "LineInitExp", "ModuleInitExp"}),
         Heirs("BinExp", {"CommaExp", "PostExp", "PowExp", "MulExp",
              "DivExp", "ModExp", "AddExp", "MinExp", "CatExp", "ShlExp",
              "ShrExp", "UshrExp", "EqualExp", "InExp", "IdentityExp",
              "CmpExp", "AndExp", "XorExp", "OrExp", "LogicalExp", "CondExp",
              "AssignExp", "BinAssignExp"}),
         Heirs("BinAssignExp", {"AddAssignExp", "MinAssignExp",
              "MulAssignExp", "DivAssignExp", "ModAssignExp", "PowAssignExp",
              "AndAssignExp", "OrAssignExp", "XorAssignExp", "ShlAssignExp",
              "ShrAssignExp", "UshrAssignExp", "CatAssignExp"})}

\* Template parameters, conditions and initializers.
OtherForwards ==
  UNION {Heirs("TemplateParameter", {"TemplateAliasParameter",
              "TemplateTypeParameter", "TemplateTupleParameter",
              "TemplateValueParameter"}),
         Heirs("TemplateTypeParameter", {"TemplateThisParameter"}),
         Heirs("Condition", {"StaticIfCondition", "DVCondition"}),
         Heirs("DVCondition", {"DebugCondition", "VersionCondition"}),
         Heirs("Initializer", {"ExpInitializer", "StructInitializer",
              "ArrayInitializer", "VoidInitializer"})}

\* class Visitor: the nodes that only semantic analysis makes.
SemanticForwards ==
  UNION {Heirs("Statement", {"ErrorStatement", "PeelStatement",
              "UnrolledLoopStatement", "SwitchErrorStatement",
              "DebugStatement", "ForwardingStatement"}),
         Heirs("ExpStatement", {"DtorExpStatement"}),
         Heirs("Dsymbol", {"OverloadSet", "LabelDsymbol"}),
         Heirs("ScopeDsymbol", {"WithScopeSymbol", "ArrayScopeSymbol"}),
         Heirs("Declaration", {"OverDeclaration", "SymbolDeclaration"}),
         Heirs("VarDeclaration", {"ThisDeclaration", "TypeInfoDeclaration"}),
         Heirs("TypeInfoDeclaration", {"TypeInfoStructDeclaration",
              "TypeInfoClassDeclaration", "TypeInfoInterfaceDeclaration",
              "TypeInfoPointerDeclaration", "TypeInfoArrayDeclaration",
              "TypeInfoStaticArrayDeclaration",
              "TypeInfoAssociativeArrayDeclaration",
              "TypeInfoEnumDeclaration", "TypeInfoFunctionDeclaration",
              "TypeInfoDelegateDeclaration", "TypeInfoTupleDeclaration",
              "TypeInfoConstDeclaration", "TypeInfoInvariantDeclaration",
              "TypeInfoSharedDeclaration", "TypeInfoWildDeclaration",
              "TypeInfoVectorDeclaration"}),
         Heirs("FuncDeclaration", {"FuncAliasDeclaration"}),
         Heirs("Initializer", {"ErrorInitializer"}),
         Heirs("Expression", {"ErrorExp", "ComplexExp", "StructLiteralExp",
              "ObjcClassReferenceExp", "OverExp", "HaltExp",
              "ClassReferenceExp", "VoidInitExp", "ThrownExceptionExp"}),
         Heirs("SymbolExp", {"SymOffExp"}),
         Heirs("UnaExp", {"DotTemplateExp", "DotVarExp", "DelegateExp",
              "DotTypeExp", "VectorExp", "SliceExp", "ArrayLengthExp",
              "DelegatePtrExp", "DelegateFuncptrExp"}),
         Heirs("BinExp", {"DotExp", "IndexExp", "RemoveExp"}),
         Heirs("AssignExp", {"ConstructExp", "BlitExp"})}

Forwards ==
  UNION {SymbolForwards, StatementForwards, TypeForwards,
         ExpressionForwards, OtherForwards, SemanticForwards}

\* MUTANT: the method for index expressions forwards to the root.
ForwardsPastBinExp == [class \in Classes \ Roots |->
                         IF class = "IndexExp" THEN "Expression"
                         ELSE (CHOOSE pair \in Forwards : pair[1] = class)[2]]

\* MUTANT: the method for casts calls itself.
ForwardsInCircle == [class \in Classes \ Roots |->
                       IF class = "CastExp" THEN "CastExp"
                       ELSE (CHOOSE pair \in Forwards : pair[1] = class)[2]]

ForwardsTo == [class \in Classes \ Roots |->
                 (CHOOSE pair \in Forwards : pair[1] = class)[2]]


(***************************************************************************)
(* The fields of a class that hold the expressions an expression is made   *)
(* of, and the statements a statement is made of: one, a list of them, or  *)
(* none.  Fields that point at a node which is a part somewhere else       *)
(* (StructLiteralExp.origin, LabelStatement.gotoTarget, the cases of a     *)
(* switch ...) are no parts.                                               *)
(***************************************************************************)

\* expression.h: tuples, literals with elements, and new.
LiteralParts ==
  [TupleExp |-> {"e0", "exps"},
   ArrayLiteralExp |-> {"basis", "elements"},
   AssocArrayLiteralExp |-> {"keys", "values"},
   StructLiteralExp |-> {"elements"},
   NewExp |-> {"thisexp", "newargs", "argprefix", "arguments"},
   NewAnonClassExp |-> {"thisexp", "newargs", "arguments"}]

\* expression.h: the operators.
OperatorParts ==
  [TypeidExp |-> {"obj"},
   UnaExp |-> {"e1"},
   BinExp |-> {"e1", "e2"},
   AssertExp |-> {"msg"},
   CallExp |-> {"arguments"},
   SliceExp |-> {"upr", "lwr"},
   IntervalExp |-> {"lwr", "upr"},
   ArrayExp |-> {"arguments"},
   CondExp |-> {"econd"}]

\* statement.h.
StatementParts ==
  [PeelStatement |-> {"s"}]
  @@ [class \in {"CompoundStatement", "UnrolledLoopStatement"} |->
        {"statements"}]
  @@ [class \in {"ScopeStatement", "ForwardingStatement", "CaseStatement",
                 "CaseRangeStatement", "DefaultStatement",
                 "ScopeGuardStatement", "DebugStatement",
                 "LabelStatement"} |-> {"statement"}]
  @@ [class \in {"WhileStatement", "DoStatement", "ForeachStatement",
                 "ForeachRangeStatement", "PragmaStatement", "SwitchStatement",
                 "SynchronizedStatement", "WithStatement"} |-> {"_body"}]
  @@ [class \in {"IfStatement", "ConditionalStatement"} |->
        {"ifbody", "elsebody"}]
  @@ [ForStatement |-> {"_init", "_body"},
      TryCatchStatement |-> {"_body", "catches"},
      TryFinallyStatement |-> {"_body", "finalbody"}]

OwnParts == LiteralParts @@ OperatorParts @@ StatementParts

\* A class has the fields of the classes above it too.
PartsOf ==
  [class \in Classes |->
     UNION {OwnParts[above] : above \in
              {Lineage[class][i] : i \in DOMAIN Lineage[class]}
              \cap DOMAIN OwnParts}]
====
