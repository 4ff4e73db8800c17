------------------------- MODULE TemplateInstances -------------------------
(***************************************************************************)
(* The instantiation of templates: templateInstanceSemantic (dsymbolsem.d)  *)
(* with the table of instances and the members of the modules it keeps      *)
(* (dtemplate.d), the later passes over the instances (semantic2.d,         *)
(* semantic3.d) and the gagging around them (globals.d, dsymbol.d).         *)
(*                                                                          *)
(* An instance is made once and used again.  It may be made on trial, with  *)
(* errors gagged, and is taken back if that fails; meanwhile the analysis   *)
(* of its body can make further instances, and can reach code outside,      *)
(* which is analysed ungagged and may use the instance that is still being  *)
(* made.  The calls in progress are a stack of frames.                      *)
(*                                                                          *)
(* A template stands for a template with its arguments.  The body of a      *)
(* template, symbol or module is a list of items for each pass: 1 for       *)
(* declarations, 2 for initializers, 3 for function bodies.  All modules    *)
(* are root modules.  Deferred aggregates, mixins, overloads and the        *)
(* analysis of template arguments are left out.                             *)
(***************************************************************************)
EXTENDS Integers, Sequences, FiniteSets

CONSTANTS Template, Symbol,
          Modules,      \* the modules, in the order they are compiled
          Home,         \* Home[k]: the module in which template k is declared
          FunctionTemplate,   \* the templates that are functions
          MaxNest,      \* how deep instances may nest, 500 in the compiler
          Programs      \* the programs compiled

Mod == {Modules[n] : n \in DOMAIN Modules}

\* How a template is used: in ordinary code, in an expression tried with errors
\* gagged, in __traits(compiles) or is(...), in is(... id), which declares id.
Mode == {"plain", "tried", "is", "alias"}

\* An error in the text, a use of a template, a reference to a symbol, or code
\* that is wrong while a symbol is under analysis.
ItemType ==
    [kind : {"error"}, of : {""}, mode : {"plain"}]
    \cup [kind : {"use"}, of : Template, mode : Mode]
    \cup [kind : {"symbol", "circular"}, of : Symbol, mode : {"plain"}]

ASSUME ModulesAssumption == Modules \in Seq(Mod) /\ Home \in [Template -> Mod]

ASSUME ProgramsAssumption ==
    \A p \in Programs : p \in [Mod \cup Template \cup Symbol -> [1..3 -> Seq(ItemType)]]

VARIABLES program,      \* the body of each module, template and symbol, fixed
          inst,         \* the TemplateInstance objects with a body of their own
          table,        \* TemplateDeclaration.instances
          members,      \* the instances among Module.members
          semanticRun,  \* Module.semanticRun
          symbol,       \* semanticRun of the symbols
          deferred2, deferred3,            \* Module.deferred2, deferred3
          gag, errors, gaggedErrors,       \* struct Global
          shown,        \* error messages printed
          stack,        \* frames of the calls in progress, innermost first
          ret,          \* what the last instantiation returned
          todo,         \* what main has still to call
          status        \* "running", or how the process exited

listed == <<table, members, deferred2, deferred3>>
counters == <<gag, errors, gaggedErrors>>
vars == <<program, inst, listed, semanticRun, symbol, counters, shown,
          stack, ret, todo, status>>

\* enum PASS
init == 0
semantic == 1
semanticdone == 2
semantic2 == 3
semantic2done == 4
semantic3 == 5
semantic3done == 6

Frame(proc, of, pass) ==
    [proc |-> proc, of |-> of, pass |-> pass, pc |-> "enter", i |-> 1, mode |-> "plain",
     tinst |-> 0, root |-> TRUE, func |-> FALSE, gag |-> 0, errors |-> 0,
     gaggedErrors |-> 0, errinst |-> 0, index |-> 0]

Top == Head(stack)

\* How deep the instances under way nest.
Nest == Cardinality({n \in DOMAIN stack : stack[n].proc = "instance" /\ stack[n].pc = "members"})

Running == status = "running" /\ Nest <= MaxNest
At(proc, pc) == Running /\ stack # <<>> /\ Top.proc = proc /\ Top.pc = pc

Continue(f) == stack' = <<f>> \o Tail(stack)
Goto(pc) == [Top EXCEPT !.pc = pc]
Call(f, g) == stack' = <<g, f>> \o Tail(stack)
Return == stack' = Tail(stack)

ModulePass(m, p) == Frame("module", m, p)
Pass(n, p) == Frame("pass", n, p)
RunDeferred(p) == Frame("deferred", 0, p)
Check == Frame("check", 0, 0)

ForModules(p) == [n \in DOMAIN Modules |-> ModulePass(Modules[n], p)]

Init ==
    /\ program \in Programs
    /\ inst = <<>>
    /\ table = [k \in Template |-> {}]
    /\ members = [m \in Mod |-> <<>>]
    /\ semanticRun = [m \in Mod |-> init]
    /\ symbol = [s \in Symbol |-> init]
    /\ deferred2 = <<>> /\ deferred3 = <<>>
    /\ gag = 0 /\ errors = 0 /\ gaggedErrors = 0 /\ shown = 0
    /\ stack = <<>>
    /\ ret = [of |-> 0, good |-> FALSE]
    /\ todo = ForModules(1) \o ForModules(2) \o <<RunDeferred(2), Check>>
              \o ForModules(3) \o <<RunDeferred(3), Check>>
    /\ status = "running"

-----------------------------------------------------------------------------
(***************************************************************************)
(* Errors.                                                                  *)
(***************************************************************************)

\* mutant: a gagged error is counted as gagged only
ReportGaggedOnly(n) ==
    /\ errors' = IF gag > 0 THEN errors ELSE errors + n
    /\ gaggedErrors' = IF gag > 0 THEN gaggedErrors + n ELSE gaggedErrors
    /\ shown' = IF gag > 0 THEN shown ELSE shown + n

\* An error message, printed unless it is gagged.
Report(n) ==
    /\ errors' = errors + n
    /\ gaggedErrors' = IF gag > 0 THEN gaggedErrors + n ELSE gaggedErrors
    /\ shown' = IF gag > 0 THEN shown ELSE shown + n

\* mutant: the errors stay in the count of all errors
EndGaggingKeep(old) ==
    /\ gag' = gag - 1
    /\ errors' = errors
    /\ gaggedErrors' = old

\* The errors since gagging started are forgotten.
EndGagging(old) ==
    /\ gag' = gag - 1
    /\ errors' = errors - (gaggedErrors - old)
    /\ gaggedErrors' = old

\* With an instance, S has those it was made for.
ClosedUnderTinst(S) == \A i \in S : inst[i].tinst \in S \cup {0}

\* An instance and those that it was made for, along tinst.
Chain(n) ==
    {i \in DOMAIN inst : \A S \in SUBSET DOMAIN inst :
                           n \in S \cup {0} /\ ClosedUnderTinst(S) => i \in S}

\* Instance n fails: "error instantiating", unless it has an error already.  The
\* trace printed with it marks the instances it was made for.
ReportFailure(n) == Report(IF inst[n].errors THEN 0 ELSE 1)

Failed(n) ==
    LET trace == IF inst[n].errors \/ gag > 0 THEN {} ELSE Chain(inst[n].tinst)
    IN [k \in DOMAIN inst |->
          IF k \in trace \cup {n} THEN [inst[k] EXCEPT !.errors = TRUE] ELSE inst[k]]

-----------------------------------------------------------------------------
(***************************************************************************)
(* The items of a body.  A frame of kind "module", "instance", "pass" or    *)
(* "symbol" is at "members" while it goes through them.                     *)
(***************************************************************************)

Body(f) == IF f.proc \in {"instance", "pass"} THEN program[inst[f.of].key] ELSE program[f.of]

Items(f) == Body(f)[f.pass]

\* A gagged instance is not analysed any further after an error.
Broken(f) == f.proc = "pass" /\ inst[f.of].gagged /\ errors # f.errors

AtMembers == Running /\ stack # <<>> /\ Top.pc = "members"
HasItem == AtMembers /\ Top.i <= Len(Items(Top)) /\ ~Broken(Top)
Item == Items(Top)[Top.i]
AllDone(proc) == At(proc, "members") /\ ~HasItem
Next1 == [Top EXCEPT !.i = @ + 1]

\* After a member the frame goes on with the next one; a module in its last pass
\* first sees to the instances that are in the deferred list.
Resume == (IF Top.proc = "module" /\ Top.pass = 3 THEN <<RunDeferred(2)>> ELSE <<>>)
          \o <<Next1>> \o Tail(stack)

\* What is instantiated in a body belongs to the instance it is the body of.
Enclosing(f) == IF f.proc \in {"instance", "pass"} THEN f.of ELSE 0

\* An error in the source text, or one that depends on a symbol under analysis.
ItemError ==
    /\ HasItem
    /\ \/ Item.kind = "error" /\ Report(1)
       \/ Item.kind = "circular" /\ Report(IF symbol[Item.of] = semantic THEN 1 ELSE 0)
    /\ stack' = Resume
    /\ UNCHANGED <<program, inst, listed, semanticRun, symbol, gag, ret, todo, status>>

\* A declaration outside, analysed when it is first referred to, and ungagged
\* as it is not part of a template instance.
ItemSymbol ==
    /\ HasItem /\ Item.kind = "symbol"
    /\ IF symbol[Item.of] # init
       THEN stack' = Resume /\ UNCHANGED <<symbol, gag>>
       ELSE /\ stack' = <<[Frame("symbol", Item.of, 1) EXCEPT !.pc = "members", !.gag = gag]>>
                        \o Resume
            /\ symbol' = [symbol EXCEPT ![Item.of] = semantic]
            /\ gag' = 0
    /\ UNCHANGED <<program, inst, listed, semanticRun, errors, gaggedErrors,
                   shown, ret, todo, status>>

SymbolDone ==
    /\ AllDone("symbol")
    /\ symbol' = [symbol EXCEPT ![Top.of] = semanticdone]
    /\ gag' = Top.gag
    /\ Return
    /\ UNCHANGED <<program, inst, listed, semanticRun, errors, gaggedErrors,
                   shown, ret, todo, status>>

\* is(...) and __traits(compiles) detach a use from the instances around it and
\* have the new one analysed completely.
Detached(mode) == mode \in {"is", "alias"}

Instantiate(k, mode) ==
    [Frame("instance", k, 1) EXCEPT
       !.mode = mode,
       !.tinst = IF Detached(mode) THEN 0 ELSE Enclosing(Top),
       !.root = ~Detached(mode) /\ Top.root,
       !.func = Top.pass = 3]

ItemUse ==
    /\ HasItem /\ Item.kind = "use"
    /\ IF Item.mode = "plain"
       THEN stack' = <<Instantiate(Item.of, "plain")>> \o Resume /\ UNCHANGED gag
       ELSE /\ stack' = <<Instantiate(Item.of, Item.mode),
                          [Frame("trial", 0, 0) EXCEPT !.mode = Item.mode, !.tinst = Enclosing(Top),
                              !.root = Top.root, !.gaggedErrors = gaggedErrors, !.pc = "end"]>>
                        \o Resume
            /\ gag' = gag + 1
    /\ UNCHANGED <<program, inst, listed, semanticRun, symbol, errors, gaggedErrors,
                   shown, ret, todo, status>>

\* unSpeculative: the alias that is(... id) declares makes the instance one of
\* the surrounding code.
Leak(f) ==
    IF f.mode = "alias" /\ f.root /\ ~inst[ret.of].root
    THEN inst' = [inst EXCEPT ![ret.of] =
                    [@ EXCEPT !.root = TRUE,
                              !.tinst = IF inst[ret.of].tinst = 0 THEN f.tinst ELSE inst[ret.of].tinst]]
    ELSE UNCHANGED inst

TrialEnd ==
    LET good == gaggedErrors = Top.gaggedErrors /\ ret.good IN
    /\ At("trial", "end")
    /\ EndGagging(Top.gaggedErrors)
    /\ IF good THEN Leak(Top) ELSE UNCHANGED inst
    /\ Return
    /\ UNCHANGED <<program, listed, semanticRun, symbol, shown, ret, todo, status>>

-----------------------------------------------------------------------------
(***************************************************************************)
(* templateInstanceSemantic.                                                *)
(***************************************************************************)

RepeatAnyGagged(e) == inst[e].gagged /\ gag = 0      \* mutant

\* An earlier instance that failed while gagged is made again ungagged, to have
\* its errors printed.
MustRepeat(e) == inst[e].gagged /\ gag = 0 /\ inst[e].errors

SwapsAlways(e) == Top.root                          \* mutant

\* The place of an instance in the chain of tinst is given to a use from code
\* that will be part of the output.
Swaps(e) == Top.root /\ ~inst[e].root

\* There is an instance already: it is used, with the errors it had counted once
\* more.  If it was gagged it is from now on as gagged as this use; if it was
\* speculative and this use is not, the two swap places in the chain of tinst.
Match ==
    /\ At("instance", "enter")
    /\ \E e \in table[Top.of] :
         LET n == IF inst[e].errors THEN 1 ELSE 0
             swap == Swaps(e)
         IN /\ ~MustRepeat(e)
            /\ errors' = errors + n /\ gaggedErrors' = gaggedErrors + n
            /\ inst' = [inst EXCEPT ![e] =
                          [@ EXCEPT !.gagged = inst[e].gagged /\ gag > 0,
                                    !.root = inst[e].root \/ swap,
                                    !.tinst = IF swap THEN Top.tinst ELSE inst[e].tinst]]
            /\ ret' = [of |-> e, good |-> ~inst[e].errors]
    /\ Return
    /\ UNCHANGED <<program, listed, semanticRun, symbol, gag, shown, todo, status>>

MadeInNestedGagging == gag > 1                       \* mutant

\* Whether an instance made now is made on trial.
MadeGagged == gag > 0

AppendedBefore(m) == Len(members[m])                 \* mutant

\* Where in the members the instance will be.
AppendedAt(m) == Len(members[m]) + 1

\* Else one is made.  It is entered in the table and appended to the members of
\* the template's module, for the passes to come, or to the deferred lists when
\* these have gone through the module.
Implement ==
    LET k == Top.of
        m == Home[k]
        n == Len(inst) + 1
    IN /\ At("instance", "enter")
       /\ \E e \in table[k] \cup {0} :
            /\ IF e = 0 THEN table[k] = {} ELSE MustRepeat(e)
            /\ Continue([Top EXCEPT !.pc = "members", !.of = n, !.errinst = e,
                           !.errors = errors, !.index = AppendedAt(m)])
       /\ inst' = Append(inst, [key |-> k, gagged |-> MadeGagged, errors |-> FALSE,
                                semanticRun |-> semantic, live |-> TRUE, root |-> Top.root,
                                tinst |-> Top.tinst, collects |-> FALSE, deferred |-> <<>>])
       /\ table' = [table EXCEPT ![k] = @ \cup {n}]
       /\ members' = [members EXCEPT ![m] = Append(@, n)]
       /\ deferred2' = IF semanticRun[m] >= semantic2done THEN Append(deferred2, n) ELSE deferred2
       /\ deferred3' = IF semanticRun[m] >= semantic3done THEN Append(deferred3, n) ELSE deferred3
       /\ UNCHANGED <<program, semanticRun, symbol, counters, shown, ret, todo, status>>

\* The way from an instance to the outermost one goes round, and meets none that
\* collects.
Endless(n) == n # 0 /\ \A c \in Chain(n) : inst[c].tinst # 0 /\ ~inst[c].collects

\* Instances nested too deep, or a chain of too many, are taken for an endless
\* recursion: the compiler gives up.
RecursiveExpansion ==
    /\ status = "running"
    /\ \/ Nest > MaxNest
       \/ At("instance", "enlist") /\ Endless(inst[Top.of].tinst)
    /\ gag' = 0 /\ errors' = errors + 1 /\ shown' = shown + 1
    /\ status' = "failed"
    /\ UNCHANGED <<program, inst, listed, semanticRun, symbol, gaggedErrors, stack, ret,
                   todo>>

\* The declarations are analysed; if that went well the initializers follow.
InstanceExpanded ==
    LET n == Top.of IN
    /\ AllDone("instance")
    /\ inst' = [inst EXCEPT ![n].semanticRun = semanticdone]
    /\ IF errors # Top.errors
       THEN Continue(Goto("after"))
       ELSE Call(Goto("initialized"), Pass(n, 2))
    /\ UNCHANGED <<program, listed, semanticRun, symbol, counters, shown, ret, todo, status>>

\* The function bodies of an outermost instance in a function, or in a trial,
\* follow at once, with those of the instances it collects meanwhile; a nested
\* instance joins the list of the outermost one.
InstanceInitialized ==
    LET n == Top.of
        good == errors = Top.errors
        outermost == inst[n].tinst = 0
        full == Top.func \/ Detached(Top.mode)
    IN /\ At("instance", "initialized")
       /\ IF ~good \/ (outermost /\ ~full)
          THEN Continue(Goto("after")) /\ UNCHANGED inst
          ELSE IF outermost
          THEN /\ Call([Top EXCEPT !.pc = "collected", !.i = 1], Pass(n, 3))
               /\ inst' = [inst EXCEPT ![n].collects = TRUE]
          ELSE /\ IF Top.func /\ inst[n].key \in FunctionTemplate
                  THEN Call(Goto("enlist"), Pass(n, 3))
                  ELSE Continue(Goto("enlist"))
               /\ UNCHANGED inst
       /\ UNCHANGED <<program, listed, semanticRun, symbol, counters, shown, ret,
                      todo, status>>

InstanceCollected ==
    LET n == Top.of IN
    /\ At("instance", "collected")
    /\ IF Top.i <= Len(inst[n].deferred)
       THEN Call(Next1, Pass(inst[n].deferred[Top.i], 3)) /\ UNCHANGED inst
       ELSE /\ Continue(Goto("after"))
            /\ inst' = [inst EXCEPT ![n] = [@ EXCEPT !.collects = FALSE, !.deferred = <<>>]]
    /\ UNCHANGED <<program, listed, semanticRun, symbol, counters, shown, ret, todo, status>>

\* The nearest instance on the chain that collects, if there is one.
Collectors(n) ==
    {c \in Chain(n) : /\ inst[c].collects
                      /\ \A b \in Chain(n) : inst[b].collects => b \in Chain(c)}

InstanceEnlist ==
    LET n == Top.of
        joins(c) == \A i \in DOMAIN inst[c].deferred : inst[c].deferred[i] # n
    IN /\ At("instance", "enlist") /\ ~Endless(inst[n].tinst)
       /\ inst' = [c \in DOMAIN inst |->
                    IF c \in Collectors(inst[n].tinst) /\ joins(c)
                    THEN [inst[c] EXCEPT !.deferred = Append(@, n)] ELSE inst[c]]
       /\ Continue(Goto("after"))
       /\ UNCHANGED <<program, listed, semanticRun, symbol, counters, shown, ret,
                      todo, status>>

\* It went well.  It takes the place of the failed instance that it repeats.
InstanceGood ==
    LET n == Top.of IN
    /\ At("instance", "after") /\ errors = Top.errors
    /\ table' = [table EXCEPT ![inst[n].key] = @ \ {Top.errinst}]
    /\ ret' = [of |-> n, good |-> ~inst[n].errors]
    /\ Return
    /\ UNCHANGED <<program, inst, members, deferred2, deferred3, semanticRun, symbol,
                   counters, shown, todo, status>>

RemoveNothing(s, i) == s                             \* mutant

\* The members without the i-th.
RemoveAt(s, i) == SubSeq(s, 1, i - 1) \o SubSeq(s, i + 1, Len(s))

\* It failed.  If it is gagged it is taken back, so that it can be tried again.
InstanceBad ==
    LET n == Top.of
        k == inst[n].key
    IN /\ At("instance", "after") /\ errors # Top.errors
       /\ ReportFailure(n)
       /\ IF inst[n].gagged
          THEN /\ inst' = [Failed(n) EXCEPT ![n] = [@ EXCEPT !.live = FALSE, !.semanticRun = init]]
               /\ table' = [table EXCEPT ![k] = @ \ {n}]
               /\ members' = [members EXCEPT ![Home[k]] = RemoveAt(@, Top.index)]
          ELSE inst' = Failed(n) /\ UNCHANGED <<table, members>>
       /\ ret' = [of |-> n, good |-> FALSE]
       /\ Return
       /\ UNCHANGED <<program, deferred2, deferred3, semanticRun, symbol, gag, todo, status>>

-----------------------------------------------------------------------------
(***************************************************************************)
(* The passes over instances, modules and the deferred lists.               *)
(***************************************************************************)

PassRun(p) == IF p = 1 THEN semantic ELSE IF p = 2 THEN semantic2 ELSE semantic3

\* semantic2 and semantic3 of an instance, once each.  If it was made gagged they
\* are gagged, too.
PassEnter ==
    LET n == Top.of
        run == inst[n].semanticRun < PassRun(Top.pass)
        needGagging == inst[n].gagged /\ gag = 0
    IN /\ At("pass", "enter")
       /\ inst' = IF run THEN [inst EXCEPT ![n].semanticRun = PassRun(Top.pass)] ELSE inst
       /\ IF run /\ ~inst[n].errors
          THEN /\ gag' = IF needGagging THEN 1 ELSE gag
               /\ Continue([Top EXCEPT !.pc = "members", !.root = inst[n].root, !.func = Top.pass = 3,
                              !.errors = errors, !.gaggedErrors = gaggedErrors,
                              !.gag = IF needGagging THEN 1 ELSE 0])
          ELSE Return /\ UNCHANGED gag
       /\ UNCHANGED <<program, listed, semanticRun, symbol, errors, gaggedErrors, shown,
                      ret, todo, status>>

\* All members are done, or one has an error and is gagged.
PassFailed ==
    /\ AllDone("pass") /\ errors # Top.errors
    /\ ReportFailure(Top.of)
    /\ inst' = Failed(Top.of)
    /\ Continue(Goto("end"))
    /\ UNCHANGED <<program, listed, semanticRun, symbol, gag, ret, todo, status>>

PassEnd ==
    /\ At("pass", "end") \/ (AllDone("pass") /\ errors = Top.errors)
    /\ IF Top.gag = 1
       THEN EndGagging(Top.gaggedErrors)
       ELSE UNCHANGED counters
    /\ Return
    /\ UNCHANGED <<program, inst, listed, semanticRun, symbol, shown, ret, todo, status>>

\* A module's own members first.
ModuleEnter ==
    /\ At("module", "enter")
    /\ semanticRun' = [semanticRun EXCEPT ![Top.of] = PassRun(Top.pass)]
    /\ Continue(Goto("members"))
    /\ UNCHANGED <<program, inst, listed, symbol, counters, shown, ret, todo, status>>

ModuleInstances ==
    /\ AllDone("module")
    /\ Continue([Top EXCEPT !.pc = "instances", !.i = 1])
    /\ UNCHANGED <<program, inst, listed, semanticRun, symbol, counters, shown, ret,
                   todo, status>>

\* Then the instances, those that are appended meanwhile included.  In the last
\* pass those in the deferred list are seen to after each.
ModuleInstance ==
    LET m == Top.of
        more == Top.pass > 1 /\ Top.i <= Len(members[m])
        visit == Pass(members[m][Top.i], Top.pass)
    IN /\ At("module", "instances")
       /\ IF ~more
          THEN /\ semanticRun' = [semanticRun EXCEPT ![m] = @ + 1]
               /\ Return
          ELSE stack' = <<visit>> \o Resume /\ UNCHANGED semanticRun
       /\ UNCHANGED <<program, inst, listed, symbol, counters, shown, ret, todo, status>>

\* runDeferredSemantic2 and runDeferredSemantic3: through the list, and clear it;
\* after an error what is left in it is dropped.
DeferredEnter ==
    /\ At("deferred", "enter")
    /\ IF Top.pass = 2 THEN Continue(Goto("next")) ELSE Call(Goto("next"), RunDeferred(2))
    /\ UNCHANGED <<program, inst, listed, semanticRun, symbol, counters, shown, ret,
                   todo, status>>

DeferredNext ==
    LET list == IF Top.pass = 2 THEN deferred2 ELSE deferred3
        stop == Top.i > Len(list) \/ (Top.i > 1 /\ errors > 0)
    IN /\ At("deferred", "next")
       /\ IF ~stop
          THEN Call(Next1, Pass(list[Top.i], Top.pass)) /\ UNCHANGED <<deferred2, deferred3>>
          ELSE /\ Return
               /\ deferred2' = IF Top.pass = 2 THEN <<>> ELSE deferred2
               /\ deferred3' = IF Top.pass = 3 THEN <<>> ELSE deferred3
       /\ UNCHANGED <<program, inst, table, members, semanticRun, symbol, counters, shown,
                      ret, todo, status>>

-----------------------------------------------------------------------------
(***************************************************************************)
(* The driver (mars.d): the passes over all modules in order.               *)
(***************************************************************************)

CallNext ==
    /\ Running /\ stack = <<>> /\ todo # <<>> /\ Head(todo).proc # "check"
    /\ stack' = <<Head(todo)>>
    /\ todo' = Tail(todo)
    /\ UNCHANGED <<program, inst, listed, semanticRun, symbol, counters, shown, ret, status>>

\* if (global.errors) fatal();
CheckErrors ==
    /\ Running /\ stack = <<>> /\ todo # <<>> /\ Head(todo).proc = "check"
    /\ todo' = Tail(todo)
    /\ status' = IF errors > 0 THEN "failed"
                 ELSE IF Tail(todo) = <<>> THEN "succeeded" ELSE status
    /\ UNCHANGED <<program, inst, listed, semanticRun, symbol, counters, shown, stack, ret>>

Step ==
    \/ ItemError \/ ItemSymbol \/ SymbolDone \/ ItemUse \/ TrialEnd
    \/ Match \/ Implement \/ InstanceExpanded \/ InstanceInitialized
    \/ InstanceCollected \/ InstanceEnlist \/ InstanceGood \/ InstanceBad
    \/ PassEnter \/ PassFailed \/ PassEnd
    \/ ModuleEnter \/ ModuleInstances \/ ModuleInstance
    \/ DeferredEnter \/ DeferredNext
    \/ CallNext \/ CheckErrors \/ RecursiveExpansion

Finished == status # "running" /\ UNCHANGED vars

Next == Step \/ Finished

Spec == Init /\ [][Next]_vars

-----------------------------------------------------------------------------
(***************************************************************************)
(* Properties.                                                              *)
(***************************************************************************)

Instances == DOMAIN inst

\* Every variable has its type; gagged errors are among the errors counted.
TypeOK ==
    /\ \A n \in Instances :
         /\ inst[n].key \in Template
         /\ {inst[n].gagged, inst[n].errors, inst[n].live, inst[n].root, inst[n].collects}
              \subseteq BOOLEAN
         /\ inst[n].semanticRun \in init..semantic3
         /\ inst[n].tinst \in {0} \cup Instances
         /\ inst[n].deferred \in Seq(Instances)
    /\ table \in [Template -> SUBSET Instances]
    /\ members \in [Mod -> Seq(Instances)]
    /\ semanticRun \in [Mod -> init..semantic3done]
    /\ symbol \in [Symbol -> init..semanticdone]
    /\ deferred2 \in Seq(Instances) /\ deferred3 \in Seq(Instances)
    /\ gag \in Nat /\ shown \in Nat /\ gaggedErrors \in Nat /\ errors \in Nat
    /\ errors >= gaggedErrors

\* The assertions of templateInstanceSemantic when an instance is finished: what
\* is taken out of the members of the module is the instance itself, whatever was
\* appended and taken out since (dsymbolsem.d:5848); the instance that is
\* replaced had errors (5867).
AssertionsHold ==
    At("instance", "after") =>
      LET n == Top.of
          list == members[Home[inst[n].key]]
      IN IF errors # Top.errors
         THEN inst[n].gagged => Top.index \in DOMAIN list /\ list[Top.index] = n
         ELSE Top.errinst # 0 => inst[Top.errinst].errors

\* An instance is a member of a module exactly once until it is taken back, and
\* then never again: no pass goes through it twice or misses it, and code is not
\* emitted twice for it.  The table finds no instance that was taken back.
ListedOnce ==
    /\ \A n \in Instances :
         LET list == members[Home[inst[n].key]]
         IN Cardinality({i \in DOMAIN list : list[i] = n}) = IF inst[n].live THEN 1 ELSE 0
    /\ \A k \in Template : \A n \in table[k] : inst[n].live /\ inst[n].key = k

\* The items of a body, whatever their pass.
ItemsOf(x) == UNION {{program[x][p][i] : i \in DOMAIN program[x][p]} : p \in 1..3}

\* The chain of tinst from an instance to those it was made for ends:
\* printInstantiationTrace and the search for the outermost instance follow it to
\* its end.  "Those are a list threaded into the nested scopes" (dtemplate.d:6070).
ChainsAlwaysEnd == \A n \in Instances : n \notin Chain(inst[n].tinst)

\* It does, even though instances swap places in it, in programs without an
\* is(... id) that makes an instance part of the output but not those it was made
\* for.
ChainsEnd == (\A x \in DOMAIN program : \A i \in ItemsOf(x) : i.mode # "alias") => ChainsAlwaysEnd

\* What needs what, as the program is written, if uses on trial need nothing.
Needs(x) ==
    {i.of : i \in {j \in ItemsOf(x) : j.kind = "symbol" \/ (j.kind = "use" /\ j.mode = "plain")}}

NeededBy(xs) ==
    LET reach[k \in Nat] ==
          IF k = 0 THEN UNION {Needs(x) : x \in xs}
          ELSE reach[k-1] \cup UNION {Needs(x) : x \in reach[k-1]}
    IN reach[Cardinality(Template \cup Symbol)]

Acyclic == \A x \in Template \cup Symbol : x \notin NeededBy({x})

Has(x, kind) == \E i \in ItemsOf(x) : i.kind = kind

Needed == Mod \cup NeededBy(Mod)
Faulty == \E x \in Needed : Has(x, "error")

\* The errors of a template that the program needs are shown, also if it was
\* tried with errors gagged before: "error reproduction will be done by
\* TemplateInstance::semantic" (semantic3.d:1246), which repeats failed instances
\* "so that error messages are shown" (dsymbolsem.d:5438).
ErrorsReproduced == status # "running" /\ Faulty => shown > 0

\* The same for templates that do not use themselves and whose errors are not in
\* the bodies of functions.
ErrorsEarly ==
    \A k \in Template : \A i \in DOMAIN program[k][3] : program[k][3][i].kind # "error"

DeclarationErrorsReproduced == Acyclic /\ ErrorsEarly => ErrorsReproduced

\* Trials that fail leave nothing behind that makes a correct program fail.
NoFalseAlarm ==
    status = "failed" /\ Acyclic =>
       Faulty \/ \E x \in Needed : Has(x, "circular")

\* Templates that do not use themselves have at most one instance without errors.
OneInstance ==
    Acyclic => \A k \in Template : Cardinality({n \in table[k] : ~inst[n].errors}) <= 1

=============================================================================
