-------------------------- MODULE DeferredSemantic --------------------------
(***************************************************************************)
(* Pass 1 of semantic analysis over mutually dependent aggregates: the      *)
(* list of deferred symbols and its retry loop (dmodule.d), the visitors of *)
(* modules, structs, classes and their variables (dsymbolsem.d), and the    *)
(* demand-driven size computation they re-enter (aggregate.d, dstruct.d,    *)
(* dclass.d, declaration.d).                                                *)
(*                                                                          *)
(* The compiler is sequential; what makes it hard is that every analysis    *)
(* may start another one in the middle, and may find it already under way.  *)
(* The call stack is therefore part of the state, one frame per call, and   *)
(* an action runs one frame up to its next call.  The program compiled is   *)
(* chosen in Init and never changes.                                        *)
(*                                                                          *)
(* A program is two modules, Main and the one it imports, that list their   *)
(* aggregates.  A member of an aggregate T is a field of struct type, a     *)
(* field  int[S] f  whose dimension is the size of S, a constant            *)
(* enum x = S  whose initializer is that size, or a local import.  Gagging  *)
(* is off (module Gagging is about it), so every error is a real one.       *)
(***************************************************************************)
EXTENDS Integers, Sequences, FiniteSets

CONSTANTS Struct, Class,    \* the aggregates
          Main, Imported,   \* the root module and the module it imports
          Programs          \* the programs compiled

VARIABLES program,      \* the source text, fixed
          agg,          \* AggregateDeclaration objects
          var,          \* VarDeclaration objects, by aggregate and position
          started,      \* modules with semanticRun != PASS.init
          deferred,     \* Module.deferred
          dprogress,    \* Module.dprogress
          nested,       \* the static local of runDeferredSemantic
          errors,       \* global.errors
          stack,        \* frames of the calls in progress, innermost first
          ret,          \* what the last call returned
          phase         \* where main is

vars == <<program, agg, var, started, deferred, dprogress, nested, errors,
          stack, ret, phase>>

Agg == Struct \cup Class
Import == "import"
NoBase == "none"

Members(a) == program.members[a]
IsVar(a, i) == Members(a)[i].kind # Import
\* Variables that become fields; a constant has STC.manifest.
IsField(a, i) == Members(a)[i].kind \in {"field", "sized"}

\* What a program can declare in an aggregate.
Member == [kind : {"field"}, of : Struct] \cup [kind : {"sized", "constant"}, of : Agg]
          \cup [kind : {Import}, of : {Imported}]

ASSUME NamesAssumption ==
    /\ Struct \cap Class = {} /\ {Import, NoBase} \cap Agg = {}
    /\ Main # Imported

\* The imported module is imported by the root module, if there is anything in
\* it; an aggregate that no module lists is not there, it has nothing in it.
ASSUME ProgramsAssumption ==
    \A p \in Programs :
        /\ p.items \in [{Main, Imported} -> Seq(Agg \cup {Import})]
        /\ p.members \in [Agg -> Seq(Member)]
        /\ p.base \in [Class -> Class \cup {NoBase}]
        /\ p.items[Imported] # <<>> =>
              \E j \in DOMAIN p.items[Main] : p.items[Main][j] = Import
        /\ \A a \in Agg :
              (\A m \in {Main, Imported} : \A i \in DOMAIN p.items[m] : p.items[m][i] # a)
              => p.members[a] = <<>> /\ (a \in Class => p.base[a] = NoBase)

Frame(proc, of, i, sc) ==
    [proc |-> proc, of |-> of, i |-> i, pc |-> "enter", sc |-> sc,
     errors |-> 0, todo |-> <<>>]

Top == Head(stack)
At(proc, pc) == stack # <<>> /\ Top.proc = proc /\ Top.pc = pc

\* The innermost call goes on as frame f, calls g, or returns r.
Continue(f) == stack' = <<f>> \o Tail(stack)
Call(f, g) == stack' = <<g, f>> \o Tail(stack)
Return == stack' = Tail(stack) /\ UNCHANGED ret
ReturnValue(r) == stack' = Tail(stack) /\ ret' = r

Goto(pc) == [Top EXCEPT !.pc = pc]
GotoMember(pc, i) == [Top EXCEPT !.pc = pc, !.i = i]

Semantic(a, sc) == Frame("semantic", a, 0, sc)
Variable(a, i, sc) == Frame("variable", a, i, sc)
DetermineSize(a) == Frame("determineSize", a, 0, FALSE)
DetermineFields(a) == Frame("determineFields", a, 0, FALSE)
FinalizeSize(a) == Frame("finalizeSize", a, 0, FALSE)
ModuleSemantic(m) == Frame("module", m, 1, FALSE)
RunDeferred == Frame("runDeferred", Main, 0, FALSE)

Init ==
    /\ program \in Programs
    /\ agg = [a \in Agg |->
               [semanticRun |-> "init", scope |-> TRUE, symtab |-> FALSE,
                baseok |-> "none", baseClass |-> NoBase,
                base |-> IF a \in Class THEN program.base[a] ELSE NoBase,
                terror |-> FALSE, errors |-> FALSE, sizeok |-> "none",
                fields |-> <<>>]]
    /\ var = [a \in Agg |-> [i \in DOMAIN Members(a) |->
               [semanticRun |-> "init", scope |-> FALSE, terror |-> FALSE,
                placed |-> FALSE]]]
    /\ started = {Main}
    /\ deferred = <<>> /\ dprogress = 0 /\ nested = FALSE
    /\ errors = 0
    /\ stack = <<ModuleSemantic(Main)>> /\ ret = TRUE
    /\ phase = "semantic"

-----------------------------------------------------------------------------
(***************************************************************************)
(* Modules and the deferred list.                                           *)
(***************************************************************************)

\* Module.dsymbolSemantic, reached through an import: once per module.
ImportModule(f) ==
    IF Imported \in started
    THEN Continue(f) /\ UNCHANGED started
    ELSE Call(f, ModuleSemantic(Imported)) /\ started' = started \cup {Imported}

\* The next member of a module: an import or an aggregate.
ModuleMember ==
    /\ At("module", "enter")
    /\ LET items == program.items[Top.of]
           after == Goto("deferred")
       IN \/ /\ Top.i > Len(items)
             /\ Return
             /\ UNCHANGED started
          \/ /\ Top.i <= Len(items) /\ items[Top.i] = Import
             /\ ImportModule(after) /\ UNCHANGED ret
          \/ /\ Top.i <= Len(items) /\ items[Top.i] # Import
             /\ Call(after, Semantic(items[Top.i], TRUE))
             /\ UNCHANGED <<started, ret>>
    /\ UNCHANGED <<program, agg, var, deferred, dprogress, nested, errors, phase>>

\* After every member the module retries what is deferred.
ModuleMemberDone ==
    /\ At("module", "deferred")
    /\ Call(GotoMember("enter", Top.i + 1), RunDeferred)
    /\ UNCHANGED <<program, agg, var, started, deferred, dprogress, nested,
                   errors, ret, phase>>

\* runDeferredSemantic: nothing to gain, or a caller is at it already.
RunDeferredAtOnce ==
    /\ At("runDeferred", "enter")
    /\ dprogress = 0 \/ nested
    /\ Return
    /\ UNCHANGED <<program, agg, var, started, deferred, dprogress, nested,
                   errors, phase>>

\* MUTANT: the flag is left set when the list turns out to be empty.
BeginRoundLeaving ==
    /\ dprogress' = 0
    /\ IF deferred = <<>>
       THEN Return /\ nested' = TRUE /\ UNCHANGED deferred
       ELSE /\ Continue([Top EXCEPT !.pc = "round", !.i = 1, !.todo = deferred])
            /\ nested' = TRUE
            /\ deferred' = <<>>
            /\ UNCHANGED ret

\* A round: take the whole list over, or stop at an empty one.
BeginRound ==
    /\ dprogress' = 0
    /\ IF deferred = <<>>
       THEN Return /\ nested' = FALSE /\ UNCHANGED deferred
       ELSE /\ Continue([Top EXCEPT !.pc = "round", !.i = 1, !.todo = deferred])
            /\ nested' = TRUE
            /\ deferred' = <<>>
            /\ UNCHANGED ret

RunDeferredEnter ==
    /\ At("runDeferred", "enter")
    /\ dprogress # 0 /\ ~nested
    /\ BeginRound
    /\ UNCHANGED <<program, agg, var, started, errors, phase>>

RunDeferredSymbol ==
    /\ At("runDeferred", "round") /\ Top.i <= Len(Top.todo)
    /\ Call(GotoMember("round", Top.i + 1), Semantic(Top.todo[Top.i], FALSE))
    /\ UNCHANGED <<program, agg, var, started, deferred, dprogress, nested,
                   errors, ret, phase>>

\* MUTANT: off by one.
AnotherRoundAlways == Len(deferred) <= Len(Top.todo) \/ dprogress # 0

\* The loop's condition: the list got shorter, or some symbol was completed.
AnotherRound == Len(deferred) < Len(Top.todo) \/ dprogress # 0

RunDeferredRoundDone ==
    /\ At("runDeferred", "round") /\ Top.i > Len(Top.todo)
    /\ IF AnotherRound
       THEN BeginRound
       ELSE Return /\ nested' = FALSE /\ UNCHANGED <<deferred, dprogress>>
    /\ UNCHANGED <<program, agg, var, started, errors, phase>>

-----------------------------------------------------------------------------
(***************************************************************************)
(* StructDeclaration and ClassDeclaration.dsymbolSemantic.                  *)
(***************************************************************************)

\* MUTANT: the check for a symbol under way is missing.
NeverUnderWay(a) == FALSE

\* The analysis of a has begun and its scope is in use further out.
UnderWay(a) ==
    agg[a].semanticRun = "semantic" /\ agg[a].symtab /\ ~agg[a].scope

\* Already analysed, or under way further out: nothing to do.  A class found
\* under way is marked done by the code, a struct is not.
SemanticAtOnce ==
    LET s == agg[Top.of] IN
    /\ At("semantic", "enter")
    /\ \/ s.semanticRun = "done" /\ UNCHANGED agg
       \/ /\ s.semanticRun # "done" /\ UnderWay(Top.of)
          /\ agg' = [agg EXCEPT
                 ![Top.of].terror = @ \/ s.errors,
                 ![Top.of].semanticRun = IF Top.of \in Class THEN "done" ELSE @]
    /\ Return
    /\ UNCHANGED <<program, var, started, deferred, dprogress, nested, errors, phase>>

\* The analysis starts, or starts again after a deferral.  It takes the scope
\* stored in the symbol, so that a nested caller finds none.
SemanticEnter ==
    LET a == Top.of
        s == agg[a] IN
    /\ At("semantic", "enter")
    /\ s.semanticRun # "done" /\ ~UnderWay(a)
    /\ agg' = [agg EXCEPT ![a].semanticRun = "semantic", ![a].scope = FALSE,
                          ![a].terror = @ \/ s.errors,
                          ![a].symtab = @ \/ a \in Struct]
    /\ var' = IF a \in Struct
              THEN [var EXCEPT ![a] = [i \in DOMAIN @ |-> [@[i] EXCEPT !.scope = TRUE]]]
              ELSE var
    /\ Continue([Top EXCEPT !.errors = errors, !.i = 1,
                   !.pc = IF a \in Struct THEN "members"
                          ELSE IF s.baseok \in {"none", "start"} THEN "base"
                          ELSE "ancestors"])
    /\ UNCHANGED <<program, started, deferred, dprogress, nested, errors, ret, phase>>

\* A class with its base classes, as far as they are known: the smallest set
\* that has b and the base class of each of its members.
BaseChain(b) ==
    {c \in Class : \A S \in SUBSET Class :
        b \in S \cup {NoBase} /\ (\A d \in S : agg[d].baseClass \in S \cup {NoBase})
        => c \in S}

\* MUTANT: only the class itself is looked for.
DerivesDirectly(c, b) == c = b

\* The class would become one of its own base classes.
DerivesFrom(c, b) == c \in BaseChain(b)

\* The base class is named; analyse it now if its own bases are not known.
\* Meanwhile the class can be re-entered, through the scope put back.
ClassBase ==
    LET c == Top.of
        b == agg[c].base
        \* typeSemantic gives the error type when it first resolves the name
        dropped == \/ b = NoBase
                   \/ agg[b].terror /\ agg[c].baseClass = NoBase
        circular == ~dropped /\ DerivesFrom(c, b)
    IN /\ At("semantic", "base")
       /\ IF dropped \/ circular
          THEN /\ errors' = errors + IF circular THEN 1 ELSE 0
               /\ agg' = [agg EXCEPT ![c].base = NoBase, ![c].baseok = "done"]
               /\ Continue(Goto("ancestors"))
          ELSE /\ UNCHANGED errors
               /\ IF agg[b].baseok \in {"none", "start"}
                  THEN /\ agg' = [agg EXCEPT ![c].baseClass = b, ![c].scope = TRUE,
                                             ![c].baseok = "start"]
                       /\ Call(Goto("based"), Semantic(b, FALSE))
                  ELSE /\ agg' = [agg EXCEPT ![c].baseClass = b, ![c].baseok = "done"]
                       /\ Continue(Goto("ancestors"))
       /\ UNCHANGED <<program, var, started, deferred, dprogress, nested, ret, phase>>

\* MUTANT: only the base class is put on the list.
DeferBaseOnly(c, b) ==
    /\ deferred' = deferred \o (IF agg[b].scope THEN <<b>> ELSE <<>>)
    /\ Return

\* A class is put off behind its base, if that one has a scope to go on with.
DeferBehindBase(c, b) ==
    /\ deferred' = deferred \o (IF agg[b].scope THEN <<b, c>> ELSE <<c>>)
    /\ Return

ClassBased ==
    LET c == Top.of
        b == agg[c].base
    IN /\ At("semantic", "based")
       /\ IF agg[b].baseok \in {"none", "start"}
          THEN /\ agg' = [agg EXCEPT ![c].scope = TRUE, ![c].baseok = "none"]
               /\ DeferBehindBase(c, b)
          ELSE /\ agg' = [agg EXCEPT ![c].scope = FALSE, ![c].baseok = "done"]
               /\ Continue(Goto("ancestors"))
               /\ UNCHANGED <<deferred, ret>>
       /\ UNCHANGED <<program, var, started, dprogress, nested, errors, phase>>

\* MUTANT: the base class need only know its own bases.
BaseUnresolved(b) == b # NoBase /\ agg[b].baseok \in {"none", "start"}

BaseUnfinished(b) == b # NoBase /\ agg[b].semanticRun # "done"

DeclareMembers(a) ==
    var' = [var EXCEPT ![a] = [i \in DOMAIN @ |-> [@[i] EXCEPT !.scope = TRUE]]]

\* Members are declared; they are analysed only once the base class is done.
ClassAncestors ==
    LET c == Top.of
        b == agg[c].base
    IN /\ At("semantic", "ancestors")
       /\ IF agg[c].symtab THEN UNCHANGED var ELSE DeclareMembers(c)
       /\ IF BaseUnfinished(b)
          THEN /\ agg' = [agg EXCEPT ![c].scope = TRUE, ![c].symtab = TRUE]
               /\ DeferBehindBase(c, b)
          ELSE /\ agg' = [agg EXCEPT ![c].symtab = TRUE, ![c].baseok = "semanticdone"]
               /\ Continue(Goto("members"))
               /\ UNCHANGED <<deferred, ret>>
       /\ UNCHANGED <<program, started, dprogress, nested, errors, phase>>

\* Every member is analysed in turn; a struct collects their errors.
SemanticMember ==
    LET a == Top.of
        i == Top.i
        after == GotoMember("members", i + 1)
    IN /\ At("semantic", "members") /\ i <= Len(Members(a))
       /\ IF IsVar(a, i)
          THEN Call(after, Variable(a, i, TRUE)) /\ UNCHANGED started
          ELSE ImportModule(after)
       /\ UNCHANGED <<program, agg, var, deferred, dprogress, nested, errors,
                      ret, phase>>

SemanticMembersDone ==
    LET a == Top.of
        bad == a \in Struct /\ \E i \in DOMAIN var[a] : var[a][i].terror
    IN /\ At("semantic", "members") /\ Top.i > Len(Members(a))
       /\ agg' = [agg EXCEPT ![a].errors = @ \/ bad,
                             ![a].terror = @ \/ (a \in Struct /\ agg[a].errors) \/ bad]
       /\ Call(Goto("fields"), DetermineFields(a))
       /\ UNCHANGED <<program, var, started, deferred, dprogress, nested,
                      errors, ret, phase>>

\* MUTANT: a struct whose analysis has begun will do.
Untouched(a) ==
    \E n \in DOMAIN agg[a].fields :
       LET i == agg[a].fields[n]
           m == Members(a)[i]
       IN m.kind = "field" /\ ~var[a][i].terror /\ agg[m.of].semanticRun = "init"

\* A field of struct type whose declaration is not analysed yet.
Unfinished(a) ==
    \E n \in DOMAIN agg[a].fields :
       LET i == agg[a].fields[n]
           m == Members(a)[i]
       IN m.kind = "field" /\ ~var[a][i].terror /\ agg[m.of].semanticRun # "done"

\* The fields cannot be determined: a struct reports it and is done, a class
\* has been reported.
SemanticNoFields ==
    LET a == Top.of IN
    /\ At("semantic", "fields") /\ ~ret
    /\ IF a \in Struct
       THEN /\ errors' = errors + IF agg[a].terror THEN 0 ELSE 1
            /\ agg' = [agg EXCEPT ![a].semanticRun = "done", ![a].terror = TRUE,
                                  ![a].errors = @ \/ ~agg[a].terror]
       ELSE UNCHANGED <<errors, agg>>
    /\ Return
    /\ UNCHANGED <<program, var, started, deferred, dprogress, nested, phase>>

\* MUTANT: the scope is put back but the symbol is not put on the list.
SemanticDeferUnlisted ==
    LET a == Top.of IN
    /\ At("semantic", "fields") /\ ret /\ Unfinished(a)
    /\ agg' = [agg EXCEPT ![a].scope = TRUE]
    /\ UNCHANGED deferred
    /\ Return
    /\ UNCHANGED <<program, var, started, dprogress, nested, errors, phase>>

\* MUTANT: the symbol is put on the list without its scope.
SemanticDeferUnscoped ==
    LET a == Top.of IN
    /\ At("semantic", "fields") /\ ret /\ Unfinished(a)
    /\ deferred' = Append(deferred, a)
    /\ Return
    /\ UNCHANGED <<program, agg, var, started, dprogress, nested, errors, phase>>

\* addDeferredSemantic: the scope is put back, the symbol tried again later.
SemanticDefer ==
    LET a == Top.of IN
    /\ At("semantic", "fields") /\ ret /\ Unfinished(a)
    /\ agg' = [agg EXCEPT ![a].scope = TRUE]
    /\ deferred' = Append(deferred, a)
    /\ Return
    /\ UNCHANGED <<program, var, started, dprogress, nested, errors, phase>>

\* The special members are built and the symbol is done: that is progress.
SemanticDone ==
    LET a == Top.of
        failed == errors # Top.errors
    IN /\ At("semantic", "fields") /\ ret /\ ~Unfinished(a)
       /\ agg' = [agg EXCEPT ![a].semanticRun = "done",
                             ![a].terror = @ \/ failed, ![a].errors = @ \/ failed]
       /\ dprogress' = dprogress + 1
       /\ Return
       /\ UNCHANGED <<program, var, started, deferred, nested, errors, phase>>

-----------------------------------------------------------------------------
(***************************************************************************)
(* VarDeclaration.dsymbolSemantic of a member.                              *)
(***************************************************************************)

\* Analysed before, or under way further out and asked for without a scope.
VariableAtOnce ==
    LET v == var[Top.of][Top.i] IN
    /\ At("variable", "enter")
    /\ v.semanticRun = "done" \/ (~v.scope /\ ~Top.sc)
    /\ Return
    /\ UNCHANGED <<program, agg, var, started, deferred, dprogress, nested,
                   errors, phase>>

\* The variable has its type, bad or not, after some errors.  A field that
\* arrives when the size of its aggregate is settled is another error.
Typed(a, i, bad, reported) ==
    /\ var' = [var EXCEPT ![a][i].semanticRun = "done", ![a][i].terror = bad]
    /\ errors' = errors + reported +
                 (IF IsField(a, i) /\ agg[a].sizeok = "done" THEN 1 ELSE 0)

\* A field of struct type takes the type as it is, the struct is not analysed.
VariableOfStruct ==
    LET a == Top.of
        i == Top.i
    IN /\ At("variable", "enter")
       /\ var[a][i].semanticRun # "done" /\ (var[a][i].scope \/ Top.sc)
       /\ Members(a)[i].kind = "field"
       /\ Typed(a, i, agg[Members(a)[i].of].terror, 0)
       /\ Return
       /\ UNCHANGED <<program, agg, started, deferred, dprogress, nested, phase>>

\* A dimension or an initializer asks for a size: T.sizeof of a struct,
\* __traits(classInstanceSize, T) of a class, which looks at sizeok first.
VariableOfSize ==
    LET a == Top.of
        i == Top.i
        s == Members(a)[i].of
        known == s \in Class /\ agg[s].sizeok = "done"
    IN /\ At("variable", "enter")
       /\ var[a][i].semanticRun # "done" /\ (var[a][i].scope \/ Top.sc)
       /\ Members(a)[i].kind # "field"
       /\ var' = [var EXCEPT ![a][i].semanticRun = "semantic", ![a][i].scope = FALSE]
       /\ IF known THEN Continue(Goto("sized"))
                   ELSE Call(Goto("sized"), DetermineSize(s))
       /\ UNCHANGED <<program, agg, started, deferred, dprogress, nested, errors,
                      ret, phase>>

VariableSized ==
    LET a == Top.of
        i == Top.i
        s == Members(a)[i].of
        bad == IF s \in Class THEN agg[s].sizeok # "done" ELSE ~ret
    IN /\ At("variable", "sized")
       /\ Typed(a, i, bad, IF s \in Class /\ bad THEN 1 ELSE 0)
       /\ Return
       /\ UNCHANGED <<program, agg, started, deferred, dprogress, nested, phase>>

-----------------------------------------------------------------------------
(***************************************************************************)
(* The size of an aggregate, computed on demand (aggregate.d).              *)
(***************************************************************************)

\* Known to be bad, or known.
SizeAtOnce ==
    LET s == agg[Top.of] IN
    /\ At("determineSize", "enter")
    /\ s.terror \/ s.sizeok = "done"
    /\ ReturnValue(~s.terror)
    /\ UNCHANGED <<program, agg, var, started, deferred, dprogress, nested,
                   errors, phase>>

\* The analysis is run first, if it is not under way already.
SizeEnter ==
    LET s == agg[Top.of] IN
    /\ At("determineSize", "enter")
    /\ ~s.terror /\ s.sizeok # "done"
    /\ IF s.scope THEN Call(Goto("base"), Semantic(Top.of, FALSE))
                  ELSE Continue(Goto("base"))
    /\ UNCHANGED <<program, agg, var, started, deferred, dprogress, nested,
                   errors, ret, phase>>

\* Then the base class, then the fields.
SizeBase ==
    LET b == agg[Top.of].baseClass IN
    /\ At("determineSize", "base")
    /\ IF b # NoBase THEN Call(Goto("based"), DetermineSize(b))
                     ELSE Call(Goto("fields"), DetermineFields(Top.of))
    /\ UNCHANGED <<program, agg, var, started, deferred, dprogress, nested,
                   errors, ret, phase>>

\* Lfail: reported, and remembered in the type because nothing is gagged.
SizeFail ==
    /\ errors' = errors + IF agg[Top.of].terror THEN 0 ELSE 1
    /\ agg' = [agg EXCEPT ![Top.of].terror = TRUE, ![Top.of].errors = TRUE]
    /\ ReturnValue(FALSE)

SizeBased ==
    /\ At("determineSize", "based")
    /\ IF ret THEN Call(Goto("fields"), DetermineFields(Top.of))
                   /\ UNCHANGED <<agg, errors, ret>>
              ELSE SizeFail
    /\ UNCHANGED <<program, var, started, deferred, dprogress, nested, phase>>

SizeFields ==
    /\ At("determineSize", "fields")
    /\ IF ~ret THEN SizeFail
       ELSE /\ IF agg[Top.of].sizeok # "done"
               THEN Call(Goto("final"), FinalizeSize(Top.of))
               ELSE Continue(Goto("final"))
            /\ UNCHANGED <<agg, errors, ret>>
    /\ UNCHANGED <<program, var, started, deferred, dprogress, nested, phase>>

SizeFinal ==
    LET s == agg[Top.of] IN
    /\ At("determineSize", "final")
    /\ IF s.terror \/ s.sizeok = "done"
       THEN ReturnValue(~s.terror) /\ UNCHANGED <<agg, errors>>
       ELSE SizeFail
    /\ UNCHANGED <<program, var, started, deferred, dprogress, nested, phase>>

-----------------------------------------------------------------------------
(***************************************************************************)
(* determineFields: list the fields, analysing each.                        *)
(***************************************************************************)

FieldsEnter ==
    /\ At("determineFields", "enter")
    /\ IF agg[Top.of].scope THEN Call(Goto("start"), Semantic(Top.of, FALSE))
                            ELSE Continue(Goto("start"))
    /\ UNCHANGED <<program, agg, var, started, deferred, dprogress, nested,
                   errors, ret, phase>>

FieldsStart ==
    LET a == Top.of IN
    /\ At("determineFields", "start")
    /\ IF agg[a].sizeok # "none"
       THEN ReturnValue(TRUE) /\ UNCHANGED agg
       ELSE /\ agg' = [agg EXCEPT ![a].fields = <<>>]
            /\ Continue(GotoMember("next", 1)) /\ UNCHANGED ret
    /\ UNCHANGED <<program, var, started, deferred, dprogress, nested, errors, phase>>

\* The first field at or behind member i, 0 if there is none.
NextField(a, i) ==
    LET rest == {j \in i..Len(Members(a)) : IsField(a, j)}
    IN IF rest = {} THEN 0 ELSE CHOOSE j \in rest : \A k \in rest : j <= k

FieldsNext ==
    LET a == Top.of
        j == NextField(a, Top.i)
    IN /\ At("determineFields", "next")
       /\ IF j = 0
          THEN /\ agg' = [agg EXCEPT ![a].sizeok = IF @ # "done" THEN "fwd" ELSE @]
               /\ ReturnValue(TRUE)
          ELSE /\ IF var[a][j].semanticRun # "done"
                  THEN Call(GotoMember("push", j), Variable(a, j, FALSE))
                  ELSE Continue(GotoMember("push", j))
               /\ UNCHANGED <<agg, ret>>
       /\ UNCHANGED <<program, var, started, deferred, dprogress, nested, errors, phase>>

\* MUTANT: the check for a struct that contains itself is missing.
ContainsAnything(a, i) == FALSE

\* A struct cannot contain itself.
ContainsItself(a, i) ==
    Members(a)[i] = [kind |-> "field", of |-> a] /\ ~var[a][i].terror

\* The analysis of the field may have determined the fields meanwhile, or may
\* be under way further out, which makes it an unresolvable forward reference.
FieldsPush ==
    LET a == Top.of
        i == Top.i
        v == var[a][i]
    IN /\ At("determineFields", "push")
       /\ IF agg[a].sizeok # "none" \/ v.semanticRun # "done"
          THEN /\ ReturnValue(agg[a].sizeok # "none")
               /\ UNCHANGED <<agg, errors>>
          ELSE IF ContainsItself(a, i)
          THEN /\ agg' = [agg EXCEPT ![a].fields = Append(@, i),
                                     ![a].terror = TRUE, ![a].errors = TRUE]
               /\ errors' = errors + 1
               /\ ReturnValue(FALSE)
          ELSE /\ agg' = [agg EXCEPT ![a].fields = Append(@, i)]
               /\ Continue(GotoMember("next", i + 1))
               /\ UNCHANGED <<errors, ret>>
       /\ UNCHANGED <<program, var, started, deferred, dprogress, nested, phase>>

-----------------------------------------------------------------------------
(***************************************************************************)
(* finalizeSize: place the fields, which needs the size of each.            *)
(***************************************************************************)

\* MUTANT: a struct does not notice, either.
FinalizeEnterAgain ==
    /\ At("finalizeSize", "enter")
    /\ agg' = [agg EXCEPT ![Top.of].fields = <<>>,
                          ![Top.of].sizeok = IF Top.of \in Struct THEN "inProcess" ELSE @]
    /\ Continue(GotoMember("next", 1))
    /\ UNCHANGED <<program, var, started, deferred, dprogress, nested, errors, ret, phase>>

\* A struct notices that it is being finalized further out; a class does not.
FinalizeEnter ==
    LET a == Top.of IN
    /\ At("finalizeSize", "enter")
    /\ IF a \in Struct /\ agg[a].sizeok = "inProcess"
       THEN Return /\ UNCHANGED agg
       ELSE /\ agg' = [agg EXCEPT ![a].fields = <<>>,
                          ![a].sizeok = IF a \in Struct THEN "inProcess" ELSE @]
            /\ Continue(GotoMember("next", 1)) /\ UNCHANGED ret
    /\ UNCHANGED <<program, var, started, deferred, dprogress, nested, errors, phase>>

\* setFieldOffset of a field that has been placed before does nothing; one of
\* struct type needs the size of the struct.
FinalizeField ==
    LET a == Top.of
        i == NextField(a, Top.i)
        v == var[a][i]
        m == Members(a)[i]
        again == v.placed \/ \E n \in DOMAIN agg[a].fields : agg[a].fields[n] = i
    IN /\ At("finalizeSize", "next") /\ i # 0
       /\ IF again \/ v.semanticRun # "done"
          THEN Continue(GotoMember("next", i + 1)) /\ UNCHANGED <<agg, var>>
          ELSE IF m.kind = "field" /\ ~v.terror
          THEN Call(GotoMember("sized", i), DetermineSize(m.of)) /\ UNCHANGED <<agg, var>>
          ELSE /\ agg' = [agg EXCEPT ![a].fields = Append(@, i)]
               /\ var' = [var EXCEPT ![a][i].placed = ~v.terror]
               /\ Continue(GotoMember("next", i + 1))
       /\ UNCHANGED <<program, started, deferred, dprogress, nested, errors,
                      ret, phase>>

FinalizeSized ==
    LET a == Top.of
        i == Top.i
    IN /\ At("finalizeSize", "sized")
       /\ agg' = [agg EXCEPT ![a].fields = IF ret THEN Append(@, i) ELSE @]
       /\ var' = [var EXCEPT ![a][i].placed = ret, ![a][i].terror = ~ret]
       /\ Continue(GotoMember("next", i + 1))
       /\ UNCHANGED <<program, started, deferred, dprogress, nested, errors,
                      ret, phase>>

FinalizeDone ==
    LET a == Top.of
        failed == a \in Struct /\ agg[a].terror
    IN /\ At("finalizeSize", "next") /\ NextField(a, Top.i) = 0
       /\ agg' = [agg EXCEPT ![a].errors = @ \/ failed,
                             ![a].sizeok = IF failed THEN @ ELSE "done"]
       /\ Return
       /\ UNCHANGED <<program, var, started, deferred, dprogress, nested, errors, phase>>

-----------------------------------------------------------------------------
(***************************************************************************)
(* The driver (mars.d): the root module, one more try for what is deferred, *)
(* and an error for each symbol that is still there.                        *)
(***************************************************************************)

LastTry ==
    /\ phase = "semantic" /\ stack = <<>>
    /\ phase' = "deferred"
    /\ dprogress' = 1
    /\ stack' = <<RunDeferred>>
    /\ UNCHANGED <<program, agg, var, started, deferred, nested, errors, ret>>

\* MUTANT: what is left in the list is forgotten.
ReportNothing ==
    /\ phase = "deferred" /\ stack = <<>>
    /\ phase' = "end"
    /\ UNCHANGED <<program, agg, var, started, deferred, dprogress, nested,
                   errors, stack, ret>>

ReportUnresolved ==
    /\ phase = "deferred" /\ stack = <<>>
    /\ phase' = "end"
    /\ errors' = errors + Len(deferred)
    /\ UNCHANGED <<program, agg, var, started, deferred, dprogress, nested,
                   stack, ret>>

\* Pass 1 is over.
Finished == phase = "end" /\ UNCHANGED vars

Step ==
    \/ ModuleMember \/ ModuleMemberDone
    \/ RunDeferredAtOnce \/ RunDeferredEnter \/ RunDeferredSymbol
    \/ RunDeferredRoundDone
    \/ SemanticAtOnce \/ SemanticEnter \/ ClassBase \/ ClassBased
    \/ ClassAncestors \/ SemanticMember \/ SemanticMembersDone
    \/ SemanticNoFields \/ SemanticDefer \/ SemanticDone
    \/ VariableAtOnce \/ VariableOfStruct \/ VariableOfSize \/ VariableSized
    \/ SizeAtOnce \/ SizeEnter \/ SizeBase \/ SizeBased \/ SizeFields
    \/ SizeFinal
    \/ FieldsEnter \/ FieldsStart \/ FieldsNext \/ FieldsPush
    \/ FinalizeEnter \/ FinalizeField \/ FinalizeSized \/ FinalizeDone
    \/ LastTry \/ ReportUnresolved

Next == Step \/ Finished

Spec == Init /\ [][Next]_vars

\* The compiler is a running process: it takes its next step.
FairSpec == Spec /\ WF_vars(Step)

-----------------------------------------------------------------------------
(***************************************************************************)
(* Properties.                                                              *)
(***************************************************************************)

\* Every variable stays in its range, and the flag that keeps the retry loop
\* from being entered twice is set exactly while one is running.
TypeOK ==
    /\ LET rounds == {n \in DOMAIN stack :
                        stack[n].proc = "runDeferred" /\ stack[n].pc = "round"}
       IN Cardinality(rounds) = IF nested THEN 1 ELSE 0
    /\ \A a \in Agg :
         /\ agg[a].semanticRun \in {"init", "semantic", "done"}
         /\ agg[a].baseok \in {"none", "start", "done", "semanticdone"}
         /\ agg[a].sizeok \in {"none", "fwd", "inProcess", "done"}
         /\ {agg[a].base, agg[a].baseClass} \subseteq Class \cup {NoBase}
         /\ agg[a].fields \in Seq(DOMAIN Members(a))
    /\ started \subseteq {Main, Imported}
    /\ deferred \in Seq(Agg)
    /\ dprogress \in Nat /\ errors \in Nat
    /\ nested \in BOOLEAN /\ ret \in BOOLEAN
    /\ phase \in {"semantic", "deferred", "end"}

\* What the program's aggregates need of each other: the size of a struct for
\* a field of its type, a size named in a dimension or an initializer, the
\* base class for a derived class, and, for an aggregate with a local import,
\* everything in the imported module, which is analysed on the spot.
Needs(a, b) ==
    \/ \E i \in DOMAIN Members(a) :
          IF IsVar(a, i) THEN Members(a)[i].of = b
          ELSE \E j \in DOMAIN program.items[Imported] :
                  program.items[Imported][j] = b
    \/ a \in Class /\ program.base[a] = b

\* What an object of the type contains.
Contains(a, b) ==
    \/ \E i \in DOMAIN Members(a) : IsField(a, i) /\ Members(a)[i].of = b
    \/ a \in Class /\ program.base[a] = b

\* The relation has no cycle: every set of aggregates has one that is related
\* to none of the set.
Acyclic(R(_, _)) ==
    \A S \in (SUBSET Agg) \ {{}} : \E a \in S : \A b \in S : ~R(a, b)

\* The aggregates that the program declares.
Declared ==
    {a \in Agg : \E m \in {Main, Imported} : \E i \in DOMAIN program.items[m] :
                    program.items[m][i] = a}

\* A program in which no aggregate needs itself, however indirectly, compiles
\* without an error in whatever order its declarations come and however often
\* the analysis of one is cut short by that of another: no forward reference
\* is given up too early, and at the end every aggregate is done and sized.
ForwardReferencesResolve ==
    phase = "end" /\ (errors > 0 \/ \E a \in Declared : agg[a].semanticRun # "done")
    => ~Acyclic(Needs)

\* A type that contains itself, or derives from itself, does not get through
\* pass 1 unnoticed: the retry loop gives up on it and an error is reported.
\* The chains of base classes, which are walked meanwhile, end all the time.
CyclesReported ==
    /\ phase = "end" /\ errors = 0 => Acyclic(Contains)
    /\ \A c \in Class : c \notin BaseChain(agg[c].baseClass)

\* No symbol is lost by the deferral: when pass 1 ends with no error, every
\* aggregate has been completed, with the scope it stored used up, and none is
\* waiting in the list.
NothingLost ==
    phase = "end" /\ errors = 0 =>
        /\ deferred = <<>>
        /\ \A a \in Declared : agg[a].semanticRun = "done" /\ ~agg[a].terror
        /\ \A a \in Declared : \A i \in DOMAIN Members(a) :
               IsVar(a, i) => var[a][i].semanticRun = "done" /\ ~var[a][i].terror

\* a is not analysed before the structs it has as fields and its base class.
AfterItsParts(a) ==
    agg[a].semanticRun = "done" =>
        /\ a \in Class /\ program.base[a] # NoBase =>
               agg[program.base[a]].semanticRun = "done"
        /\ \A i \in DOMAIN Members(a) : Members(a)[i].kind = "field" =>
               agg[Members(a)[i].of].semanticRun = "done"

\* The special members of an aggregate (destructor, postblit, ...) are built
\* from those of its fields and of its base class: it is done only after them,
\* whatever nested analysis or retry completes it, in a program in which no
\* aggregate needs itself.
PartsAnalysedFirst == ~(\A a \in Agg : AfterItsParts(a)) => ~Acyclic(Needs)

\* The assertions of finalizeSize, setFieldOffset and the class visitor.
AssertionsHold ==
    /\ At("finalizeSize", "enter") =>
         /\ agg[Top.of].sizeok # "done"
         /\ agg[Top.of].baseClass # NoBase =>
              agg[agg[Top.of].baseClass].sizeok = "done"
    /\ At("determineSize", "enter") /\ Len(stack) > 1 =>
         ~(stack[2].proc = "finalizeSize" /\ stack[2].of = Top.of)
    /\ At("semantic", "fields") /\ ~ret /\ Top.of \in Class => agg[Top.of].terror

\* An analysis that goes on, instead of returning at once, has a scope to work
\* in: the one its caller passed or the one stored in the symbol.  A symbol
\* under way further out has neither, its visitor would dereference null.
ScopeAtHand ==
    [][At("semantic", "enter") /\ Len(stack') = Len(stack)
       => agg[Top.of].scope \/ Top.sc]_vars

\* AggregateDeclaration.fields, which is emptied and filled again while sizes
\* are asked for from further in, ends up, for a struct of a program that
\* compiles, with every field once, in the order of declaration.  A class has
\* no such guard as a struct, and one whose size is asked for by two of its
\* fields can get one of them twice.
FieldsComplete ==
    phase = "end" /\ errors = 0 =>
        \A a \in Declared \cap Struct :
            LET f == agg[a].fields IN
            /\ {f[n] : n \in DOMAIN f} = {i \in DOMAIN Members(a) : IsField(a, i)}
            /\ \A n \in DOMAIN f : n > 1 => f[n-1] < f[n]

\* Pass 1 comes to an end on every program: the mutual recursion of the
\* visitors is finite and the retry loop stops, progress or not.
Terminates == <>(phase = "end")
=============================================================================
