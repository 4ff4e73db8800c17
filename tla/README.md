# A verification project for the D compiler (dmd)

This directory holds TLA+ models of the parts of the compiler whose correctness rests on
bookkeeping that many functions share: counters that are saved and restored across nested calls,
work lists that are filled while they are being drained, caches that are filled in the middle of
the computation they cache, and states that are rolled back when a speculative analysis fails.
Each model is checked on small instances with TLC; the most important results about the
diagnostics, the deferral of symbols, the lookup through imports, template instances, the flow analysis of
constructors and the walks over syntax trees are proved with TLAPS for all values of the constants.

Paths below are relative to the repository; the compiler's D sources are in `src/dmd/` (in
`PROJECT.json`: `src/src/dmd/`).

## 1. Inventory

### How the compiler runs

`mars.d` (`tryMain`) parses the command line, reads and parses the root modules, and runs three
semantic passes over all of them in order, each followed by the symbols that had been put off;
then inlining, code generation, and the link step in child processes. A compilation is a single
thread that exits as soon as it knows that it fails. There is no concurrency inside the front
end, but there is re-entrancy nearly everywhere: analysing one symbol looks up, and so analyses,
others, and comes back to symbols whose own analysis is still on the call stack.

| component | state it keeps | operations | interacts with |
|---|---|---|---|
| **Diagnostics** (`globals.d`, `errors.d`, `Ungag` in `dsymbol.d`) | `errors`, `warnings`, `gag`, `gaggedErrors`, `gaggedWarnings` | `startGagging`, `endGagging`, `Ungag`, `verror`, `vwarning`, `vdeprecation`, `increaseErrorCount`, `fatal` | every pass saves, compares and restores its counters |
| **Deferred semantic** (`dmodule.d`, `mars.d`, `dsymbolsem.d`) | `Module.deferred/2/3`, `dprogress`, `nested`; `_scope`, `semanticRun`, `sizeok`, `baseok` of each symbol | `addDeferredSemantic*`, `runDeferredSemantic*`, semantic of aggregates and enums | symbol analysis re-enters it |
| **Template instances** (`dsymbolsem.d`, `dtemplate.d`) | `TemplateDeclaration.instances`, `TemplateInstance.inst/gagged/errors/semanticRun/memberOf`, a module's `members` | `templateInstanceSemantic`, `findExistingInstance`, `addInstance`, `removeInstance`, `replaceInstance`, `appendToModuleMember` | Diagnostics (gag), Deferred semantic |
| **Module search** (`dmodule.d`, `dsymbol.d`) | `insearch`, `searchCacheIdent/Symbol/Flags`, `importedScopes` | `Module.search`, `ScopeDsymbol.search`, `symtabInsert`, `clearCache` | every lookup |
| **Module loading** (`dmodule.d`) | `Module.modules` table, `amodules`, package tree | `load`, `read`, `parse`, `importAll`, `Package.resolve` | Import declarations |
| **Attribute inference** (`func.d`, `semantic3.d`) | `FUNCFLAG.*Inprocess`, `TypeFunction` attributes | `isSafe`, `setUnsafe`, `isPure`, ... | semantic3 of called functions |
| **Control-flow checks** (`ctorflow.d`, `dscope.d`, `blockexit.d`) | `Scope.ctorflow`: the flags of the constructor calls and of each field; `VarDeclaration.ctorinit`; exit sets | `mergeCallSuper`, `mergeFieldInit`, `Scope.merge`, `Scope.pop`, `modifyFieldVar`, `blockExit` | semantic analysis of expressions, statements and function bodies |
| **Visitors** (`visitor.d`, `parsetimevisitor.d`, `apply.d`, `sapply.d`, the C++ headers `*.h`) | `StoppableVisitor.stop`, the results that clients keep, `StructLiteralExp.stageflags` | `accept`, `visit`, `walkPostorder` | `canthrow.d`, `sideeffect.d`, `nogc.d`, `delegatize.d`, `dinterpret.d` and others walk trees with them |
| **CTFE** (`dinterpret.d`, `ctfeexpr.d`) | `ctfeStack`, `CtfeStatus.callDepth`, `ctfeCode` | `interpret`, `ctfeCompile` | Diagnostics, semantic3 |
| **Lexer and parser** (`lexer.d`, `parse.d`) | token lookahead list, `Parser` state | `nextToken`, `peek`, `parse*` | AST |
| **Types, expressions, statements** (`typesem.d`, `expressionsem.d`, `statementsem.d`, `dcast.d`, `constfold.d`, ...) | AST nodes | semantic visitors | all of the above |
| **Glue and code generator** (`e2ir.d`, `s2ir.d`, `toobj.d`, `glue.d`, `backend/`) | `Symbol`, `elem`, `block` graphs | lowering, optimiser, register allocation, object files | |
| **Libraries** (`lib*.d`, `scan*.d`) | object modules, symbol tables | `addObject`, `write` | link step |
| **Driver and link step** (`mars.d`, `link.d`, `cli.d`, `dinifile.d`, `response.d`) | `Param`, child processes | argument parsing, fork/exec of the linker, `run` | |
| **Documentation, headers, JSON** (`doc.d`, `hdrgen.d`, `json.d`) | output buffers | generation | |
| **Root utilities** (`root/`) | string table, associative array, arrays, allocator | insert, lookup, grow | all |
| **Build script** (`src/build.d`) | dependency graph, time stamps, `executed` | `run`, `isUpToDate`, parallel build | host compiler |
| **Test harness** (`test/run.d`, `test/tools/d_do_test.d`) | task pool | run tests in parallel | the compiler |

### What is hard

- *Nested saves and restores.* `startGagging`/`endGagging` run in more than forty places, with `Ungag`
  and saved error counts between them; each restores its own part of the shared counters.
- *Re-entrancy.* A work list is drained by a loop that the work itself may start again; a flag makes
  the inner run return at once, and somebody has to see to it that nothing is forgotten.
- *Caches filled in the middle of a computation.* Results computed while a cycle is cut short depend on
  where the cut was.
- *Rollback.* A speculative instantiation that fails is removed again, by index, from lists that other
  analyses appended to in the meantime.
- *Flow summaries.* What a constructor has done is threaded through its analysis as a handful of flags
  that are saved, restored and merged at each branch. Each flag must stay a true statement about all
  the paths it stands for.
- *Tables kept by hand.* Which method visits a node is the result of four tables (the class, its base, the
  default methods, the overrides) in two languages; a walk is a visitor that drives another one and
  can be started from within itself.

### What makes each component correct

| component | properties |
|---|---|
| Diagnostics | a scope answers for, hides and forgets its own errors only; `gag` is restored; counts never wrap; the error limit holds; no success after a printed error |
| Deferred semantic | terminates; resolvable forward references are resolved in any order of declarations; cycles are reported; nothing deferred is forgotten; an aggregate is completed after its parts; no analysis without a scope |
| Template instances | a failed trial leaves nothing behind; an error that was hidden by a trial is shown when the template is used in earnest; one instance per template; lists and table agree |
| Module search | terminates in cycles; the cache never changes an answer; ambiguity is reported each time |
| Module loading | one `Module` per file; `rootImports` terminates and answers for the graph as it is |
| Attribute inference | the result does not depend on which function of a recursive group is analysed first; the in-process flags are cleared |
| Control-flow checks | the flags are true of all paths, in any order of merging; an accepted constructor calls one constructor and skips no field; no false alarm |
| Visitors | a node gets the nearest method; parts before their node, none left out; a stop ends the walk and no answer is lost; walks end on cyclic trees and leave no flag behind |
| CTFE | frames and call depth are balanced on every exit |
| Build script | a target runs after its dependencies, once |
| Link step | the status returned is that of the linker |
| String table | a string once inserted is found, with the same value, also after growing |

## 2. Plan

Modules in the order in which they are written; the first six are done.

1. `Gagging` with the abstract `ScopedDiagnostics`, `GaggingProofs` and `GaggingRefinement`. Every other
   part of the front end relies on these counters.
2. `DeferredSemantic`: pass 1 over mutually dependent aggregates; `DeferredSemanticSteps` (what each action
   does) and `DeferredSemanticProofs`.
3. `ModuleSearch`, the cached, cycle-cutting name lookup, and `ModuleSearchProofs`.
4. `TemplateInstances` and `TemplateInstancesProofs`: speculative instantiation, rollback and the later passes. It composes the
   gag and the counters of `Gagging`, in the simpler form that instantiation uses, with the lists of
   deferred symbols of `DeferredSemantic`.
5. `ConstructorFlow` and `ConstructorFlowProofs`: the flow analysis of constructors against the paths
   through their bodies.
6. `AstClasses`, `AstVisitors` and `AstVisitorsProofs`: the class and method tables and the walks that use them.
7. `AttributeInference`: the `FUNCFLAG.*Inprocess` protocol over call graphs with cycles.
8. `ModuleLoading`: `Module.load`, the package tree, `rootImports` with its use of `insearch`.
9. `CtfeStack`: frames, `callDepth` and the exits of `interpretFunction`; composed with `Gagging`.
10. `NeedsCodegen`: who emits an instance, on top of `TemplateInstances` (tinst, minst, tnext).
11. `StringTable`: insertion while the table grows, against a partial function.
12. `BuildScript`: dependencies, parallel runs and time stamps. `LinkDriver`: fork, exec, pipe, wait.
13. `BlockExit` beside `ConstructorFlow`, and try, catch and throw in both.

Abstract specifications: `ScopedDiagnostics` (done); an order-independent resolution for
`DeferredSemantic`; a lookup that is a function of the import graph for `ModuleSearch` (today the
operator `Meant`); a partial function for `StringTable`.

Of the properties of the runs, those that are not theorems yet (section 10) speak of termination, or of everything a
program or a tree contains, however indirectly: they need induction over data, or an invariant in the
manner of `FirstInv` (section 10) that is still to be found.

## 3. Gagging and ScopedDiagnostics

**Code.** `struct Global` (`globals.d:302-333`), `verror`, `vwarning`, `vdeprecation` and their
supplements (`errors.d`), `Ungag` (`dsymbol.d`), and the idioms around them.

**State.** `errors`, `warnings`, `gag`, `gaggedErrors`, `gaggedWarnings` are the counters of
`Global`; `gag` is a `uint`, so it wraps at `GagModulus` (2^32 in the compiler). `frames` is the part
of the call stack that matters: what each open scope saved in its locals. `status` is how the
process exited; `answer`, `rerun`, `shown` and the `warned` field of a frame are history.

**Actions.** One per operation: `StartGagging` and `EndGagging`; `EndTrySemantic`
(`Type.trySemantic`, which analyses a copy again if a warning was gagged); `StartUngag`, `EndUngag`;
`StartProbe`, `EndProbe` (`errorsave = global.errors; ...; if (errorsave != global.errors)`);
`Error`, `increaseErrorCount`, `ReuseFailedInstance`, `vwarning`, `vdeprecation`;
`CtfeRecursionLimit` and `RecursiveExpansion`, which clear `gag`; `Finish`. Callers are
nondeterministic: any reports, in any order, in any nesting.

`ScopedDiagnostics` is what the rest of the compiler believes: a stack of scopes, each with errors of
its own, hidden or visible. It has none of the counters. `Gagging` implements it by the mapping at
the end of the module, which takes the differences of the counts saved by neighbouring frames.

**Left out.** Message texts, supplemental lines, deprecation messages that only print, and the
colour and tool options of the reports.

## 4. DeferredSemantic

**Code.** `Module.dsymbolSemantic`, `addDeferredSemantic`, `runDeferredSemantic`, the visitors of
modules, structs, classes and variables, `determineSize`, `determineFields`, `finalizeSize`,
`setFieldOffset`, and the end of pass 1 in `mars.d`.

**State.** `agg` and `var` are the objects with the fields these functions read and write
(`semanticRun`, `_scope`, `symtab`, `baseok`, `sizeok`, `fields`, `errors`, and whether the type is
the error type); `deferred`, `dprogress` and `nested` are the work list and its flags. `stack` is the
call stack: an action runs the innermost call up to its next call of a modelled function, so every
state that a nested analysis can see is a state of the model.

**The program** is part of the state, fixed by `Init`: two modules that list aggregates, with fields
of struct type, fields `int[T.sizeof]`, constants `enum x = T.sizeof`
(`__traits(classInstanceSize, T)` for a class), local imports and base classes. The TLC modules
enumerate all programs within a bound. `ProgramsAssumption` says what a program is in general: any lists of
aggregates, imports and members of those kinds, where a module that lists anything is imported by the root
module, and an aggregate that no module lists has no members and no base (there is no declaration they could stand in);
there need not be finitely many aggregates. `NamesAssumption` keeps the names apart.

**Left out.** Gagging (every error here is a real one), interfaces, enums, tuples, the building of
special members, templates, the numbers of the layout, `deferred2` and `deferred3`. Base classes are
plain names in the same scope, and `Object` has been analysed.

**Order and cycles.** `ForwardReferencesResolve` is about all programs in which no aggregate needs
itself, `CyclesReported` about those in which one contains or derives from itself. The latter also
says that the chain of base classes, which other code walks at any time, ends in every state; a class
whose base is under way further out depends on it. `FieldsComplete` covers `AggregateDeclaration.fields`:
`finalizeSize` empties and refills it, and every field adds itself when its offset is set, with
other sizes being asked for in between. For a struct it is exact: `StructDeclaration.finalizeSize`
(`dstruct.d:328-341`) returns at once when it is under way further out. `ClassDeclaration.finalizeSize`
(`dclass.d:580-684`, the list is emptied at line 672) has no such guard, and the property does not hold of
classes: in `class C { S a; T b; }` with `struct S { enum x = __traits(classInstanceSize, C); }` and the same `x` in `T`,
all listed in the order `S`, `T`, `C`, placing one field asks for the size of its struct, which finalizes `C` again in
between. The nested finalization empties the list, skips the field that has been placed already
(`declaration.d:1161`) and places the other one; back outside, that one is pushed once more (`declaration.d:1199`).
Pass 1 ends without an error and `C.fields` holds `b` twice and `a` not at all.

Two orders of declarations that the compiler rejects are not counted against it: a program in which
sizes need each other (`struct S { int[T.sizeof] a; } struct T { enum y = S.sizeof; }`), and a local
import, which needs all of the imported module on the spot. `Needs` says so explicitly.

## 5. ModuleSearch

**Code.** `Module.search` (`dmodule.d:1031-1074`), `Module.symtabInsert`, `ScopeDsymbol.search` and
`importScope` (`dsymbol.d`), `Import.addMember` (`dimport.d`), `Scope.search` at module scope, `DotIdExp` on a module, and
`search_correct` with `clearCache`.

**State.** `decl` and `imports` of each module; `pending`, its imports that are in the symbol table but not in
`importedScopes` yet; `cache` and `insearch` as in the class; `stack`, the
searches in progress. `stale` is history: the modules whose cached search went through their imports before one
more was added; no step depends on it. Results are sets of declaring modules: the empty set is null, one element a
symbol, several an overload set. `Meant` is the reference: what a search is for, with no cache and
no flag. It is the symbol of the module itself, or else those of the modules in the least set that
contains its imports and is closed under public imports; the import graph may have cycles, and a
least set needs no order of visiting them.

**Actions.** `LookupUnqualified`, `LookupQualified`, `Suggest` start a lookup; `SearchAtOnce`,
`SearchEnter`, `SearchImport`, `SearchMerge`, `SearchFound`, `SearchLeave` are the steps of a search,
interrupted where it calls that of an import; `LookupNext` goes on to the next try. `SymtabInsert`,
`ImportMember` and `ImportScope` change the program between lookups, as mixins and `static if` do. In such a block
all members are added to the symbol table first (`attrib.d:868`, `attrib.d:1000`, `dsymbolsem.d:1907`), which clears
the cache of the module; the semantic of the `Import` comes later, after that of the members in front of it
(`dsymbolsem.d:1402`), and `importScope` clears nothing. So an import is two actions, with lookups in between.

**Known exceptions.** `CacheSound` promises that a cached answer is not too large. With
cycles it may be too small, one that was cut off (`EarlierLookupsDoNotMatter` fails, finding 3). And
`symtabInsert` clears the cache of its own module only: importers that have cached
"not found" keep it, also without cycles, until they are asked for something else. For this reason `OwnChangesSeen`
is stated for the module that changed. `importScope` clears no cache at all, so that a qualified lookup in
the module itself can miss what a new import brings: in `static if (true) { enum before = __traits(compiles, .foo);
import m; enum after = __traits(compiles, .foo); }` the second lookup is answered with the null that the first one
cached, although `m` declares `foo`. TLC finds this case, without any cycle, if the last premise of `OwnChangesSeen` is
dropped. An unqualified lookup cannot miss it: its first
try is a search of the module alone, with flags of its own, which replaces what is cached of the imports. Hence
`OwnChangesSeen` excludes qualified lookups in a module that is `stale`, and nothing else. `FirstAnswerRight`
holds for all graphs.

**Left out.** Scopes inside a module, selective and renamed imports, packages and package
protection, template mixins, the `-transition` modes, and loading a module on demand.

## 6. TemplateInstances

**Code.** `templateInstanceSemantic` from its beginning to the rollback at its end
(`dsymbolsem.d:5328-5880`), `findExistingInstance`, `addInstance`, `removeInstance`,
`appendToModuleMember`, the three passes over an instance and over a module's members, the deferred
lists of passes 2 and 3, `trySemantic` and the gagging of `is(...)` and `__traits(compiles)`.

**State.** `inst`, the instances that have a body; `table`, what `findExistingInstance` sees;
`members`, `deferred2`, `deferred3`; the counters of `Gagging`; the call stack; `todo`, what `main`
still does. A template stands for a template with its arguments. A body has three
lists of items, one for each pass: an error, a use of a template (`plain`, `tried`, `is`, `alias`), a
reference to a symbol outside, or a use of a symbol that is an error while it is being analysed.

**Actions.** The items; `Match` (an instance is found, perhaps one that must be repeated),
`Implement` (a new one), `InstanceExpanded`, `InstanceInitialized`, `InstanceCollected`,
`InstanceEnlist`, `InstanceGood`, `InstanceBad` are the parts of `templateInstanceSemantic` between
its calls; the passes; the modules; the deferred lists; the driver; `RecursiveExpansion` at the limit
of nested instances (500 in the compiler, `MaxNest` here), or when the search for the instance that
collects others (`dsymbolsem.d:5782`) goes round (`Endless`).

**Left out.** Matching and constraints, analysis of the arguments, mixins, non-root modules,
deferred aggregates inside instances, `needsCodegen`, and a second analysis of the same node.

**Known exceptions.** `DeclarationErrorsReproduced`, `NoFalseAlarm` and `OneInstance` speak of templates that do not lead back to themselves
(`Acyclic`), and for good reason. (a) An ungagged use of an instance that is still being made on
trial ungags it; if it fails later, it is neither taken back nor repeated
(`dsymbolsem.d:5458`). (b) A failed instance stays in the table while its repetition is made; if that
one uses the same template, the failed one is found once more and repeated once more, until the
expansion counts as endless. (c) The chain of `tinst`, "a list threaded into the nested scopes"
(`dtemplate.d:6070`), can go round. Let the declarations of `T()` use `U!()` and a function in `U()`
use `T!()`. `is(T!())` makes both instances on trial, the one of `U` for that of `T`. `is(U!() id)`
makes the instance of `U` part of the output (`unSpeculative`, `dtemplate.d:7557`), but leaves its
`tinst` at that of `T`, which is not. Then pass 3 over `U` finds `T!()`, which was only speculative, and
the swap of places (`dsymbolsem.d:5476-5500`) sets the `tinst` of `T` to `U`. From there on
`printInstantiationTrace` does not end, and the search for the collecting instance takes the circle for a
recursive expansion. TLC shows this for `ChainsAlwaysEnd` with `Programs <- Mutual` in
`TemplateTrials.cfg`. `ChainsEnd` promises that the chain ends in programs without `is(... id)`, templates
that lead back to themselves included.

## 7. ConstructorFlow

**Code.** `mergeCallSuper`, `mergeFieldInit` and `CtorFlow` (`ctorflow.d`), `Scope.merge`, `Scope.push`
and `Scope.pop` (`dscope.d`), `modifyFieldVar` (`declaration.d`), the calls of `super` and `this`,
`?:`, `&&` and `||`, `assert(0)` and `DotVarExp.toLvalue` (`expressionsem.d`), `if`, the loops, `switch`, labels
and `return` (`statementsem.d`), and the checks at the end of a body (`semantic3.d`).

**State.** `flow` is `sc.ctorflow`: a set of `CSX` flags for the constructor calls and one for each
field. `frames` are the statements and operators under analysis, with the flow of the scope around
them (`scope`) and what they keep in a local (`saved`). `errors` and `deprecated` are what was reported;
a body that is done is `accepted` or `rejected`; `implicit` says that `super()` was inserted.

**The body is not given beforehand.** Each action is the next piece of it: a call, an initialisation,
`assert(0)`, `return`, or the beginning, next part or end of a statement. So the runs go through all
bodies within the bound, analysed as the compiler does. Beside the flags, `paths` and the history in the
frames hold what the executions of the body so far really do: constructors called, fields initialised
and whether and how it ended. A frame also keeps what they did from the start of the body up to it (`whole`),
which together with `paths` gives the executions from the start of the body to here, `Whole`. The properties
compare the two. Whether a branch is taken does not depend
on another, and a loop runs any number of times.

**Properties.** `OneConstructorCall` and `NoFieldSkipped` are what accepting a constructor promises;
`DoubleInitReported` what reporting a field twice does. `FlagsTellPaths` is what the flags mean in every
intermediate state. `ComplaintsJustified` is the opposite direction: no error about calls unless two paths
disagree. `BranchesCommute` says that swapping two branches changes no verdict.

**Known exceptions.** (a) If loops and switches may contain `return` or `assert(0)` (`ExitsInLoops`),
`Scope.pop` (`dscope.d:214`) adds the flags of the exit to the scope around, though the code behind is
reached without it; from there on the checks are off: finding 5, and in the same way a field that must be
initialised can be skipped and a const field initialised twice. The passing run and the theorems assume
that loops and switches contain no exits. (b) Even without loops, `if (a) { super(); if (b) return; else
assert(0); } else assert(0);` forgets that `super()` was called, and another one is inserted; bodies with
both kinds of exits are exempt from `OneConstructorCall` (`ExitsDiffer`). (c) After `this()` in one branch,
a second initialisation in another is only deprecated (`deprecate_18719`); `DoubleInitReported` counts
that as reported. (d) A field that must be initialised cannot be after `if (c) assert(0);`: the merge
complains. That rejects a correct program, so no property here is concerned.

**Left out.** Code that cannot be reached, `goto` to a later label, `try`, `catch` and `throw`, `foreach`
bodies made into delegates, a `switch` without `default` or with cases that fall through, fields that
overlap, default constructors that are disabled or do not match, conditions with effects of their own,
and `blockExit`.

## 8. AstClasses and AstVisitors

**Code.** `AstClasses` has the class hierarchy as the C++ headers declare it, one table for each part of a
header, and the default methods of `Visitor` (`visitor.h`, `visitor.d`, `parsetimevisitor.d`), each of which
forwards to the one of the base class; `PartsOf` are the fields that hold parts. `AstVisitors` has
`PostorderExpressionVisitor` (`apply.d`) and `PostorderStatementVisitor` (`sapply.d`), and their clients in
`canthrow.d`, `sideeffect.d`, `nogc.d`, `dinterpret.d`, `delegatize.d` and `statement.d`, each by the methods that
it overrides, those that can find something, whether a find stops the walk, those that give the walk up
for another reason (`VarWalker` at an erroneous expression, `dinterpret.d:393-404`), and what it does with an
initializer.

**State.** `calls` is the stack of `visit` calls of walkers and clients; `walks` the field `stop` of each walker;
`objects` the client objects, of which a client makes new ones for nested walks; `applying` the struct
literals whose `stageflags` have `stageApply`. `tree` and `client` are chosen by `Init`; `visited` is history.

**Actions.** `Forward` (a method that is not overridden), `EnterNode`, `LiteralAgain`, `NextPart`, `Apply` and
`LeaveNode` (the walker), `ClientVisit` and `InitWalked` (the client, before and after a nested walk).
`LiteralAgain`, the return of a method from a literal that is being walked, ends the walk too if the walk
began there, as that of the initializer of a variable may.

**Stops.** `canThrow` and `VarWalker` both stop and both walk initializers with a new client, and they differ in
what becomes of its stop. That of `canThrow` is the answer: the method for declarations takes it over
(`canthrow.d:57-60`, `250-252`). That of `VarWalker` is none: the walk of the initializer ends, the one around it goes
on, and what the new walker counted is kept (`dinterpret.d:435`, `452-453`). `VisitsAssumption` says of every client
what `StopHolds` rests on: one whose answer is its stop hands it on, and the method that goes on to an
initializer does not itself give the walk up. `AnswerRight` asks of a walk that `VarWalker` may give up only that
nothing else is missed for it (`SurelyReached`); the trees have erroneous expressions at the root, in an initializer and
beside declarations.

**Known exceptions.** `NewExp.argprefix` is visited by no walk (`apply.d:77`); the trees have none. In
`lambdaCheckForNestedRef` (`delegatize.d:136`) each variable overwrites the result of the one before, so a
later one can hide an error; the model keeps that, and `AnswerRight` exempts this client. The C++
headers give `CompileExp` (`expression.h:706`) and `StaticForeachDeclaration` (`attrib.h:180`) another base
class than the D sources do: `HeaderBase` is what the headers say, `Base` what the compiler's own visitors
see. They disagree about some fields, too (`StaticIfCondition.nest`, `cond.h:89`; the symbol of
`EnumDeclaration`), where no walk goes.

**Left out.** Other visitors than the clients named, the bodies of their methods except for what is said
above, and classes that semantic analysis has replaced before any walk (`Lowered`).

## 9. The runs

| run | configuration | what it shows |
|---|---|---|
| `gagging_scopes` | `GaggingScopes.cfg`: depth 3, 2 errors, 1 gagged warning | `SavedCountsNest`; `EndGaggingRestoresGag`; the counters implement `ScopedDiagnostics` (`ImplementsScopes`), as long as CTFE stays below its recursion limit |
| `gagging_limits` | `GaggingLimits.cfg`: depth 2, 3 errors, `-verrors=2 -w -de`, CTFE limit reached | `ErrorLimitRespected`, `SuccessMeansClean` even then |
| `gagging_ctfe_limit` | `GaggingCtfe.cfg` | finding 1 |
| `gagging_try_semantic` | `GaggingTry.cfg` | finding 2 |
| `deferred_aggregates` | `DeferredAggregates.cfg`: all programs of 3 structs with up to 3 members in total; 2 classes and a struct with a member each, every base and order; 2 modules with an import inside a class | pass 1 ends (`Terminates`), cycles are reported (`CyclesReported`), others resolve in every order (`ForwardReferencesResolve`), fields come first (`PartsAnalysedFirst`) and those of a struct are all listed, once (`FieldsComplete`), nothing is lost (`NothingLost`), nothing is analysed without a scope (`ScopeAtHand`), the code's assertions hold |
| `search_lookups` | `SearchLookups.cfg`: 3 modules; all graphs with up to 2, 2 and 1 imports for one lookup, smaller ones for two, and a few in which module `a` is changed twice between two lookups | searches nest (`TypeOK`), a first lookup is right even in cycles (`FirstAnswerRight`), the cache holds nothing that is not meant (`CacheSound`), and without cycles every answer is right, also after changes to the module asked, up to the exception of section 5 (`OwnChangesSeen`) |
| `search_cycles` | `SearchCycles.cfg`: two lookups | finding 3 |
| `template_trials` | `TemplateTrials.cfg`: 2 templates, an outside symbol, 2 modules, bodies of up to 2 items, and 3 templates of which two use each other; `MaxNest` 4 | consistent lists and table after every rollback (`AssertionsHold`, `ListedOnce`), chains of `tinst` end (`ChainsEnd`), errors in declarations reproduced, no false alarm, one instance per template |
| `template_errors` | `TemplateErrors.cfg`: a template tried and then used, and one that it uses | finding 4 |
| `constructor_flow` | `ConstructorFlow.cfg`: all bodies of up to 6 pieces nested up to 3 deep, a const field and one that must be initialised, no exits in loops | an accepted constructor calls one constructor on each path and skips no field; the flags and the complaints are true of the paths; the order of branches does not matter |
| `constructor_exits` | `ConstructorExits.cfg`: 4 pieces, depth 1, exits in loops | finding 5 |
| `ast_walks` | `AstWalks.cfg`: `walkPostorder` on one node of each expression and statement class with all parts filled, on a literal that contains itself, on nested declarations and statements, on erroneous expressions, by each client; `accept` of each of the 274 classes | each node gets the nearest method (`RightMethod`), all parts in post order (`PostOrder`), the client's answer is that of a search of the tree (`AnswerRight`), except for what `VarWalker` gives up, a stop is obeyed (`StopHolds`), flags are set exactly while a walk is inside (`FlagsFollowCalls`), walks end (`Terminates`) |

### The bounds, and why they are enough

- *Gagging.* Three frames hold an ungag or a probe between two gag scopes, which is where
  saved values of one kind meet those of another; two errors tell "mine" from "my caller's". The limit
  needs one more error than the limit. `GagModulus` 8 is more than any legal nesting, so a wrap is
  seen as what it is. The theorems hold for every value of these constants.
- *DeferredSemantic.* Three aggregates are needed for a cycle with something outside that waits for
  it, and one member each for the cycle; with two members a struct can be completed by the first
  while the second is pending. Two classes give a base cycle, one class under way and one waiting.
  The number of rounds, nested calls and list entries is not bounded by the model.
- *ModuleSearch.* Three modules give a cycle of two with a third behind it, a cycle of three, and a
  diamond. Two lookups are what a stale cache entry needs. Two changes make one import, or two declarations; only
  one module is changed, since `OwnChangesSeen` speaks of changes to the module that is asked.
- *TemplateInstances.* Two templates, because rollback must meet an instance nested in another
  instance; the outside symbol lets an ungagged use arrive while a trial is under way; two modules,
  because membership and the order of passes depend on the home module. A circle of places (`ChainsEnd`)
needs two templates that use each other; the third is used behind them, where the circle would be met. `MaxNest` 4 is more than the
  depth that any non-recursive program of the bound reaches.
- *ConstructorFlow.* Fields do not interact, so one of each kind is enough. A branch within a branch
  within a loop needs depth 3; six pieces fill both branches of a nested statement (two statements,
  four effects), or a statement with an effect before, in and after each part. `NothingSkipped` holds for
  every number of fields, pieces and depth.
- *AstVisitors.* A walk is driven by the class of a node and the stack above it, so one full node per class
  tests each table row; three levels test a stop that has to pass through walkers, and two nested
  initializers a client within a client within a client.

### Deadlock, fairness

Deadlock is checked except in the `Gagging` and `ConstructorFlow` runs. In the former a compilation ends
(`Finish`, `RecursiveExpansion`, the error limit) or reaches a bound on what is counted; in the latter a
body is accepted or rejected or would need more pieces than the bound. The other modules have an explicit
`Finished` or `Done` step, so that getting stuck anywhere else is an error.

`Terminates` of `DeferredSemantic` is checked under `FairSpec == Spec /\ WF_vars(Step)`, that of
`AstVisitors` under `WF_vars(Next)`: the compiler is one process that the operating system keeps running,
and each step is determined once the program, or the tree and the client, is chosen. No other fairness is
assumed anywhere.

### Mutants

Definitions whose comment begins with *MUTANT* are not used by the specifications. Each is a plausible bug
in the definition that follows it, and the run named in `PROJECT.json` fails with it.

## 10. What is proved

Proved with TLAPS, for every value of the constants allowed by the assumptions:

| module | theorem | statement |
|---|---|---|
| `GaggingProofs` | `TypeCorrect` | `Spec => []TypeOK`: in particular no unsigned counter goes below zero |
| | `CountsNest` | `Spec => []SavedCountsNest` |
| | `LimitRespected` | `Spec => []ErrorLimitRespected` |
| | `SuccessIsClean` | `Spec => []SuccessMeansClean` |
| | `GagRestored` | if CTFE does not reach its limit, `Spec => EndGaggingRestoresGag` |
| `GaggingRefinement` | `CountersImplementScopes` | `Spec => ImplementsScopes`: the counters implement `ScopedDiagnostics`, if CTFE does not reach its limit |
| `DeferredSemanticProofs` | `TypeCorrect` | `Spec => []TypeOK`: in particular `nested` is set exactly while one round of the retry loop runs |
| | `ScopesCorrect` | `Spec => ScopeAtHand`: an analysis that goes on has a scope |
| | `NothingIsLost` | `Spec => []NothingLost`: pass 1 without an error has completed every declared aggregate and variable |
| | `ChainsEnd` | no class is in the chain of its own base classes, in any state (the second part of `CyclesReported`) |
| | `CyclesAreReported` | `Spec => []CyclesReported`: pass 1 does not end without an error if an aggregate contains or derives from itself, through however many others |
| | `FieldsAreComplete` | `Spec => []FieldsComplete`: without an error a struct lists each of its fields once, in order, however often its list was begun anew |
| | `AssertionsCorrect` | `Spec => []AssertionsHold`: what the code asserts when it finalizes a size holds, whoever asked for the size |
| `ModuleSearchProofs` | `TypeCorrect` | `Spec => []TypeOK`: `insearch` is set exactly for the modules that a search in progress is in, each once |
| | `CacheHoldsMeant` | `Spec => []CacheSound`: in any import graph, what a module has cached is part of what is meant |
| | `OwnChangesFound` | `Spec => []OwnChangesSeen`: without cycles every answer is right, cached or not, also after changes to the module asked; only a qualified lookup that meets a result older than an import is excluded |
| | `FirstAnswersRight` | `Spec => []FirstAnswerRight`: in every import graph, cycles included, the first lookup finds all that is meant or reports that it is ambiguous |
| `TemplateInstancesProofs` | `TypeCorrect` | `Spec => []TypeOK`: in particular no gagged error is taken off the count twice |
| | `AssertionsCorrect` | `Spec => []AssertionsHold` |
| | `MembersCorrect` | `Spec => []ListedOnce` |
| | `ChainsCorrect` | `Spec => []ChainsEnd` |
| `ConstructorFlowProofs` | `TypeCorrect` | `Spec => []TypeOK`: in particular no flag is ever set without the one it implies |
| | `NothingSkipped` | if loops and switches contain no exits, `Spec => []NoFieldSkipped` |
| | `OneCall` | on the same condition, `Spec => []OneConstructorCall` |
| | `FlagsRight` | likewise `Spec => []FlagsTellPaths` |
| | `DoubleInitSeen` | likewise `Spec => []DoubleInitReported` |
| | `NoFalseComplaint` | likewise `Spec => []ComplaintsJustified` |
| | `OrderIrrelevant` | likewise `Spec => []BranchesCommute` |
| `AstVisitorsProofs` | `FlagsCorrect` | `Spec => []FlagsFollowCalls`: no walk, ended early or not, leaves a literal flagged |
| | `StopsCorrect` | `Spec => StopHolds`: while there is a client that has said stop nothing is visited |

### GaggingProofs

Assumptions: `ErrorLimitAssumption` (a natural number), `DiagnosticAssumption` (`-w` and `-d` have
one of their three values), `CtfeAssumption`, and `BoundAssumption` (the bounds are natural numbers,
and `gag` cannot wrap by nesting alone: `GagModulus > MaxDepth + 1`; in the compiler 2^32 against the
depth of the call stack).

The argument:

- `errors' = errors - (gaggedErrors - saved)` keeps its type only if the saved count is not larger than
  the present one, and the present difference not smaller than the saved one. So `TypeOK` is not
  inductive; `CountInv == TypeOK /\ SavedCountsNest` is. The lemmas `PushShape`, `PopShape`, `WarnShape`
  and `SameShape` say what each action does to the stack of scopes; `PushNests`, `PopNests` and
  `SameFramesNest` carry the nesting of the counts over it. `CountInvInductive` has a step for each
  action.
- The limit is compared with `errors`, which is wound back, so the limit alone is not inductive.
  `ReportInv` adds that what was printed is covered by the errors that are not gagged
  (`ShownCounted`), which closing a scope never reduces, and that a running compiler is strictly below
  the limit (`BelowLimit`).
- `GagInv` reads `gag` as the sum of what the open scopes did to it: a gag scope adds one, an ungag
  keeps or clears, a probe keeps. It holds while the compiler runs, and only if `gag` is not cleared
  in the middle of the scopes, hence the assumption `~CtfeLimitHit`; finding 1 is what happens
  without it. `PushGag`, `PopGag`, `KeepGag` and `TopGag` are the corresponding lemmas.

### GaggingRefinement

The same assumptions, and `~CtfeLimitHit` as part of `ImplementsScopes`. The mapping takes the errors of a
scope to be the difference between the counts saved by neighbouring frames, so it yields scopes at all
only where those differences are natural numbers: this is `CountInv` again. `ScopesShape` spells the mapped
scopes out, one for the compilation and one for each frame. `PushOpens`, `PopCloses` and `KeepReports` say what
pushing a frame, popping one and counting do to them, and so match `Open`, `Close` and the two `Report` actions of the
abstract module; `CloseGagStep` is the one that matters, `endGagging`: by subtracting from
`errors` it takes from the *last* scope what was hidden in it, and leaves those around as they were, and
`HandOn` gives the others' errors to the scope around. `StepImplements` has a step for each action; those that
report nothing and move no frame stutter.

### DeferredSemanticProofs

Assumptions: `NamesAssumption` and `ProgramsAssumption` (section 4). Any number of aggregates, any program.

The recursion of the visitors is what makes this hard: each result is about a call that waits while
others, started by it, work on the same objects. `DeferredSemanticSteps` numbers the calls from the outermost
one (`levels`), so that a waiting call keeps its number, and reduces each action to an *effect*: one of three
changes of the stack (`Popped`, `WentOn`, `Called`) and what the action writes. The calls for variables and sizes
need one effect for all (`InnerEffect`): they leave `semanticRun`, `_scope` and the lists alone, only add to what
is analysed, and say how they failed. Then there is a lemma for each part of the invariant
`Consistent`, all of which TLC confirmed before on the instance of `deferred_aggregates`:

- *Shape.* `StackInv`: which calls there are and who waits for whom. `NestInv`: `nested` is set if and only if one
  level is a round of the retry loop. `ChainInv`: no class is in its own chain of bases; `LongerChains` shows that
  the check in the class visitor keeps it so. A chain is the smallest set that is closed under `baseClass`, which
  avoids recursion.
- *Errors leave a trace.* `BlameInv`: as long as nothing has been reported, no aggregate or variable is marked as bad;
  a size or a list of fields that could not be determined leaves a mark or an error; and the count an analysis saved
  at its beginning was zero. So failures can be ruled out at an end without errors.
- *Scopes.* `ScopeInv`: an aggregate not begun has its scope, one under way has it or some call is choosing
  its base (then that call is the innermost one) or is in its members. In the last case `symtab` is set, so a
  visitor that finds the aggregate in this state returns at once: this is `ScopeAtHand`.
- *Members.* `MembersInv`: what a visitor has gone through is analysed, or is the variable it is waiting for.
  `DoneInv`: all members of an aggregate that is done are, or a call is still in its members; the class visitor
  marks a class done when it meets it under way, before its members are.
- *Accounts.* `ModuleInv`: what a module lists has been begun or is ahead of the call for the module. `AccInv`:
  an aggregate that is under way is in a call, is about to be entered, waits in the deferred list, or stands in the part of
  a round's list that has not been tried. A round takes the whole list over and sets it to empty, a nested
  round is refused by `nested`, and a call that returns without finishing puts its aggregate on the list: each step moves an
  aggregate from one account to another and none drops it.

At the end there is no call and, without errors, no list; so every aggregate that is declared has been begun,
is not under way, and is done with all its members: `NothingLost`.

`AssertionsHold` is about sizes, and about what a call may conclude from an answer it was given while other calls
wrote to the same objects: `determineSize` asks for the size of the base class, then for the fields, and only
then calls `finalizeSize`, which asserts that the first answer still holds. `SizeInv` says what stays known:

- `BaseInv`: the base class of a class is settled once its visitor has left the clause of base classes. It is the
  reason why `determineSize`, which runs the visitor first, does not ask for the base of a class that has not got one yet.
- `SelfInv`: once the fields of an aggregate have been determined, a field that is the aggregate itself has been refused
  (analysed and marked as bad), so `finalizeSize` does not ask for the size of what it is placing.
- `FramesInv`: what each waiting call knows, whatever runs above it (`SizeFrame`: in front of `finalizeSize` the base has
  its size), what the innermost call knows from the answer just given (`TopSized`), and what links a call to the
  one it waits for (`CallSized`: the size asked for is that of the base class).

The last two need each other: that a field has been refused is noted by the call that goes through the fields
(`FramesInv`), and that nothing of it is undone by `finalizeSize` follows from `SelfInv`. TLC confirmed `SizeInv` in the states of `deferred_aggregates` before it was proved. `SizesKept` reduces the step to
two facts about an action, `SizeKept` (sizes and refused fields do not go back; a size is begun only
when every field has been looked at) and `SizeMove` (what the innermost call learns); `OuterSizes` has them for the
visitors and rounds, `VariableSizes`, `SizeSizes`, `FieldsSizes` and `FinalizeSizes` for the calls that ask for sizes.

`CyclesReported` speaks of chains of any length. They are never followed: *acyclic* is stated of sets (every set of
aggregates has one that contains none of the set), and so is the invariant, which a step has to keep only for the
one aggregate it completes. It is about *calm* states, in which no error has been reported and none is about to be
(`CalmBefore`: a step from a state that is not calm does not lead to a calm one). `CalmInv` says of them:

- `SizedTree`: the aggregates with a size are ordered, each behind what it contains; because one that gets its size
  contains only aggregates that have theirs (`PartsInv`). That takes two loops that are re-entered: while
  `determineFields` analyses a field, and while `finalizeSize` asks for the size of one, the same aggregate can come up
  again further in, where its list of fields is emptied and filled anew. `FillInv` says that the innermost of the calls that
  fill a list finds in it all the fields it has passed, `PlaceInv` and `CalmFrames` what the calls that give
  places know of those they have passed.
- `ReadyInv`: a struct can be done and not sized (nobody asked). Those are ordered as well, because the visitor
  defers a struct with a field of a type that is not done.
- `BaseRight` and `BaseTree`: the base class is the one the program names, and the classes are ordered behind their bases.

At the end all that is declared is done (`NothingLost`). A set of aggregates that has a sized one has a first among
those; one without, but with a struct, has a first struct, whose fields cannot be classes' sizes; and one of classes only has
a first by its bases (`EndOrdered`). `CalmMove` and `Follows` reduce the step, as `SizeMove` and `SizeKept` do for sizes.

`FieldsComplete` says more of the two loops that are re-entered, of structs: that the list they leave has nothing twice
and is in order. `ListInv` says, of calm states: the innermost of the calls that fill the list of a struct finds
nothing in it that is not behind it, so that what it adds comes last (the calls further out go on with a list that is not
theirs, but then the fields have been determined and they return); and `finalizeSize`, which empties the
list again, is run for a struct by one call at a time, and finds in the list and in place just what is in front of it (`UpTo`).
Nobody else writes the list (`Keeps`). A struct whose size nobody asked for keeps the list of `determineFields`, the
others that of `finalizeSize` (`Tidy`), and neither is left half full. TLC confirmed `ListInv` in the states of
`deferred_aggregates` before it was proved.

### ModuleSearchProofs

Assumptions: `ModuleAssumption` (modules are finite in number, and "no identifier" is none) and
`ProgramsAssumption` (the programs are declarations and import lists over these modules). Cycles are allowed.

- `TypeInv` adds to the types `StackInv` (the frames of the stack that have entered are in different modules,
  and `insearch` holds for exactly those; this is the only thing that bounds the recursion) and `LookupInv`
  (a search runs only while a lookup waits for it). Every action is one of three changes of the stack,
  `Popped`, `WentOn` and `Called`; `PopInv`, `GoOnInv` and `CallInv` show once for each that the invariant
  holds after it, `PopShape` and the others which action is which change.
- `CacheSound` says something of the cache only; `MeantInv` says it also of what each frame has collected
  (`FrameMeant`) and of what the caller of a frame will do with its answer (`CalledBy`: the frame below has
  passed on the same identifier and the flags that are inherited, and what is meant for the module asked is
  meant for it, too). `MeantThroughImport` is the step through one import in terms of the least set, and
  `MeantSame` that flags that do not matter to a search do not matter to what is meant. A search that is cut
  off by a cycle collects less, which is why the promise is "part of what is meant": finding 3 is about the
  other direction. Nothing is claimed once the program has been changed (`changed # <<>>`).
- `OwnChangesSeen` is about exact answers, also after changes. `AnswerInv` claims, where no module imports itself
  (`Acyclic`), something of the cache, the frames, the lookup and the answer, each only for a module that is
  `Settled`: what its imports reach has not been changed, while it may have been changed itself. A change makes fewer
  modules settled, and what is meant for those that stay so is still the same, except for the module that was changed. There
  a declaration has cleared the cache (`dmodule.d:1086`), an import has not: what such a cache holds is claimed to be right only for modules
  that are not `stale`, or if it was found without the imports (`LocalMeant`). That this is enough for an unqualified lookup is
  `FreshInv`: its first try is of the module alone, and its result replaces the stale one before the imports are
  searched (`FreshTries`). It was checked with TLC on the programs of `SearchLookups.cfg` that change before it was proved. `Ranks` are the numberings of the modules in which imports go down;
  with one of them the modules of the stack descend (`Descending`), so no search meets `insearch` and none is cut off.
- `Right` says what an answer is: what is meant, one of the overloads and not the rest, or nothing together with an error
  that was reported or not wanted. `FrameRight` says of a frame that it is right up to the import it stands at (`Upto`),
  `Delivered` that what a call hands back is what the import offers (`Offer`), and `MergeRight` that merging the
  two is right up to the next import: it goes through `merge` of the code, where two symbols are one, two overloads, or
  an ambiguity. `FrameKept` and `RightSame` are about actions that do not touch what a frame speaks of. A search
  whose imports are through is right (`FoundShape`), and stays right in the cache since flags that matter are compared.
  `LookupRight` covers the tries of one lookup: those that are over have found nothing because nothing is meant.
- `FirstAnswerRight` is about exact answers in cycles, while nothing is cached from an earlier lookup. That an answer is part of
  what is meant follows from `MeantInv`; that it is all of it needs an argument about a graph search. `Walk(D)` says that some
  set `D` of modules is done with: what they lead to is in `D` or on the stack (`Stacked`), what they have for the lookup is in
  a symbol some frame has collected or is being handed over (`Gathered`), and only modules of `D` are cached for this try. A search that finds
  its module being searched leaves it to the frame further out, one that finds it cached adds nothing (`AtOnceWalk`), and
  one that returns adds its module to `D` (`PopWalk`). `Passed` and `Looked` tie a frame to its place in the list of
  imports. When the first frame of the try returns (`AllReached`), the stack holds its module alone, so `D` with that module is
  closed under public import and contains all that is meant: no induction over the graph is needed, since
  `LeadsTo` is the least such set. `Used` keeps the tries of a lookup apart: no try is made with flags that an earlier
  one has cached (`TryFlags`), or what that one left out would be lost. `Excused` is the other way out: two imports clash, an error
  was counted, and both of what clashed is meant (`TopMeans`), so the ambiguity is real.
  `FirstInv` was checked with TLC on `SearchLookups.cfg` before it was proved. A second lookup finds caches that
  hold what was cut off in the first, and there it fails: that is finding 3.

### TemplateInstancesProofs

Assumptions: `ModulesAssumption` and `ProgramsAssumption` (modules, the home module of each template, bodies
that are items). `MaxNest`, the templates, their bodies and their number are arbitrary.

- *Types and assertions.* The counter `gaggedErrors` is a natural number only if `endGagging` restores
  counts that were saved before, and `members[index]` is the instance that is taken out only if what was
  appended later is gone by then. `Stacked` (`StackOK`) says so of the whole stack: a level of gagging for each
  frame (`Levels`), counts that nest (`SavedNest`), instances under way standing in their module where they
  were appended (`Placed`), the later made further back (`PlacesNest`), and a module's pass at the bottom
  (`ModuleLast`). It is defined for any sequence of frames, so that the lemmas `Push`, `Rest`, `Grow`,
  `MoreErrors`, `Appended` and `Removed` take it from the stack to the stack without its top and back; each
  action then is a composition of these.
- *Lists.* `ListInv` says that the members of a module are distinct, belong to it and are live, and that every
  live instance is among them. The rollback in `InstanceBad` removes by position: it takes out the right one by
  `AssertionsHold`, hence the order of the two theorems.
- *Chains.* `RootInv` explains why the swaps of places are harmless. The instances in the output (`root`)
  are closed under `tinst` (`RootsClosed`), the frames that make or analyse one agree with it (`RootsOK`),
  and from every instance the chain leads out (`AllLead`, stated without induction: a set that is closed
  under `tinst` and does not contain the way out does not contain the instance). A swap gives an instance
  that is not in the output the place of one that is about to be: the new chain runs through roots only, and
  the instance was not one (`SwapLeads`). `is(... id)` is what breaks `RootsClosed` (section 6, (c)).

### ConstructorFlowProofs

Assumptions: `FieldsAssumption` (the two kinds of fields are fields), `ExitsAssumption`,
`BoundAssumption`, and for all but `TypeCorrect` `~ExitsInLoops`, without which they are false (section 7)
or, like `OrderIrrelevant`, rest on what is then false.

`NoFieldSkipped` speaks of the end of a body and is far from inductive: what the compiler knows there
is one set of flags. `FlowInv` says what each flow is good for while a body without errors is analysed,
field by field:

- `Sound`: if the flags of a field say that it is initialised, all executions of the part that go on have
  initialised it, or it was before the part (`Below`); if they say that the part was left, no execution
  goes on. The flags of the calls must be covered too (`CallSound`), because `this()` initialises all
  fields and because `mergeCallSuper` and `mergeFieldInit` do not always pick the same branch.
- `Follows`: the flow of a part has what the flow at its beginning had (`Grows`), a loop or switch
  initialises no field that must be (`NothingNew`), and never ends all executions, which is where
  `~ExitsInLoops` enters.
- `Returned`: an execution that has returned has initialised the field. This is the check at `return`.
- The same for the two flows that each open frame has kept (`FrameInv`): that of the scope around
  and the saved one, which stands for the branches that are done.

`TypeOK` is inductive by itself: the ranges (`Typed`, which is all that the other invariants build on) and, of every
flow at hand and every one kept in a frame, that no flag is without the one it implies (`FlowsFormed` says
so of each thing that is done with flows). `IInv == Typed /\ FlowInv` is inductive. The lemmas go from the operators to the steps: `ThenPath`,
`Extend*` and `RepeatLike` about executions one after the other, `MergeCalls`, `MergeFields` and
`MergeSound` about a merge, `OpenFits`, `PieceFits`, `BranchFits`, `CloseFits` and `LoopSound` about what
beginning, extending and ending a part does to the invariant, then one lemma for each group of actions.
`AcceptedFilled` and `SkipStep` draw the conclusion at the end of the body.

The other five theorems need the flags to say not only what has been done at least, but what has been done
at most, and exactly. A second invariant, `TellInv`, is stated about the executions from the start of the
body (`Whole`), not about those of the innermost part: two flows that meet must speak of the same executions, and
what is asked of them (has every one called, has one called) is about whole bodies.

- `CallsTell` reads the flags of the calls: all executions that go on have called exactly as often as `HasCalled`
  says, none or once; one that returned has called if and only if `any_ctor` is set, unless executions of both ways to leave
  are there (`ExitsDiffer`); if `any_ctor` is set one has called; a bare `return_` has an execution that returned without
  a call. The last two are the witnesses that `ComplaintsJustified` asks for. `InitsTell` reads those of a field:
  no execution has initialised it twice, and without its flag none that goes on has once.
- `Watched` are the fields this is claimed of: the immutable ones, until a second initialisation was let pass as
  deprecated; from then on none.
- `FlagsKept` and `PathsKept` are about the frames around: what is repeated (a loop, a switch, or what follows a label) makes
  no call and initialises no field of `Watched`, because `CtorCall` and `modifyFieldVar` look at `inLoop` and at the
  flag `label`; so a loop leaves the counts as they are (`IdleRepeat`, `LoopTells`). `FrameTells` says of each open frame
  what `BodyTells` says of the present flow.
- `ThenAssociative` and `ExtendAssociative` make executions one after the other a monoid, which `CloseFrom`
  needs: when a frame ends, the executions from the start of the body are the same, whether counted with the frame
  or without. `MergeTells` is the heart: it goes through the nine cases of `mergeCallSuper` and of `mergeFieldInit`.
- `MergeFails` gives the two executions behind each merge that fails; `CtorCallComplains`, `ReturnComplains`,
  `MergeComplains` and `EndComplains` do so for each place that complains. `MergeCommutes` is about two sets of flags
  alone and uses of the invariant only that not both branches have ended.

`TypeOK /\ TellInv` was checked with TLC on all bodies of 6 pieces before it was proved.

### AstVisitorsProofs

Assumption: `VisitsAssumption`. The trees are arbitrary: nodes may be shared, a tree may contain itself, and
the classes need not be those of `AstClasses`.

- *The stack.* The actions change it in three ways: the call on top returns (`Popped`), goes on
  (`WentOn`), or goes on and makes another (`Called`). `StackInv` says which calls there are (`KindOK`) and who
  waits for whom (`Waits`): a client was called by a walker that has gone through the parts or stands
  at the bottom, a walker by a walker in its parts or, if it opens a walk, by a client at an initializer.
- *Flags.* `FlagsFollowCalls` is not inductive, because two calls inside of the same literal would
  clear one flag twice. `FlagInv` adds that there are no two: `EnterNode` looks at the flag. With it `LeaveNode`
  removes from the flags exactly what the call that returns had put there.
- *Stops.* A visit after a stop would need a walker that has not heard of it. `OpenInv`: there are as many
  fields `stop` as calls that opened a walk, and no walker is without one. `ObjectInv`: only the last client
  object can have said stop, and as soon as it has, the call on top hands the answer on (`HandsOn`): a walker
  that takes it over, a walker whose own `stop` is set, or the client's method that waited for the nested walk.
  Each of these returns without a visit, and the next one hands on in turn. The assumption enters where a
  client begins the walk of an initializer: it must not have said stop itself. What becomes of the nested client's
  stop does not matter to the invariant: if it is handed on, the client that takes it is on top again and
  returns, and if it is not, nobody is left who has said it.

The proof of `OpenInv` failed at `LiteralAgain` at first: the model had kept the walk of an initializer
that is a literal being walked already. The action has been corrected.

### Only model-checked

- `Terminates` of `DeferredSemantic` and of `AstVisitors`: liveness under fairness is out of the prover's reach.
- Facts by induction over data. `PostOrder` and `AnswerRight` of `AstVisitors` speak of all that
  is below a node; `ForwardReferencesResolve` and `PartsAnalysedFirst` of `DeferredSemantic`, `DeclarationErrorsReproduced`, `NoFalseAlarm` and `OneInstance` of `TemplateInstances` of what a program
  needs, however indirectly. `TypeOK` of `AstVisitors` bounds the stack by the size of the tree, and
  `RightMethod` is a fact about 274 rows of a table, which TLC simply goes through.

## 11. Findings

Each is a state that TLC reaches in a run that checks the quoted promise.

1. `gagging_ctfe_limit`: `dinterpret.d:961` sets `global.gag = 0` when CTFE recurses too deeply ("must
   not be suppressed") and returns. Inside `__traits(compiles)` the enclosing `endGagging` then
   decrements zero; from there on every diagnostic of the compilation is gagged.
2. `gagging_try_semantic`: `Type.trySemantic` runs again to show gagged deprecations if
   `gaggedWarnings > 0`, but any nested `startGagging` has reset that counter.
3. `search_cycles`: module `a` imports `b` and publicly `c`; `b` publicly imports `a`; `c` declares
   `x`. Looking `x` up in `a` makes `b` cache "not found", because `a` was being searched; `b.x` is
   then not found, though it would have been had it been looked up first.
4. `template_errors`: `template T() { alias x = U!(); }` with an error in a function in `U`. After
   `is(T!())`, a real use of `T!()` ungags the instance of `T`, but that of `U`, made during the
   trial, stays gagged; its error is never shown and the compilation succeeds.
5. `constructor_exits`: a `switch` or loop with an `assert(0)` in it, and then two calls of `super()`.
   The flag `halt` of the part is added to the scope around when it ends, and calls after `halt` are
   neither counted nor checked: the constructor is accepted and calls its base twice.

## 12. What is not modelled

- *Planned* (section 2): module loading, attribute inference, the CTFE stack, `needsCodegen`, the string
  table, the build script, the link step, `blockExit`. `PROJECT.json` lists the hazards of attribute
  inference, the build script and the string table that no property covers yet.
- *Parts of modelled components* are named at the end of sections 3 to 8.
- *Deterministic functions of data*: lexer, parser, typing rules, constant folding, mangling, target
  layouts, documentation, headers and JSON, library formats. What can go wrong there is a matter of
  data that the compiler's own test suite enumerates better than a small model.
- *The glue and the code generator*: more than a hundred thousand lines over global state, each
  algorithm a project of its own.
- *The test harness*, which is not part of the compiler's behaviour; of the C++ headers, whatever is not
  a class of the syntax tree, a part of one or a visitor's method.
- *Try, catch, throw and unreachable code* in the flow analysis: they need `blockExit` first (13 of the plan).
